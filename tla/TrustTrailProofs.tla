-------------------------- MODULE TrustTrailProofs --------------------------
(*****************************************************************************)
(* The TrustTrail program, for every set of wallets, writers, loans and      *)
(* imports: its types, that the cached score and tier never flatter a        *)
(* wallet, the 90 days after a liquidation or a default, that an account is  *)
(* the one its records give, that its penalty is nearly the one they have    *)
(* apart, and what a record does to a live standing.                         *)
(*                                                                           *)
(* The cache rests on time alone never lowering a standing (StandingRises),  *)
(* the 90 days on the account remembering a date no earlier than any of its  *)
(* bad records (DatesKept), and the account on its own invariant, History,   *)
(* whose sums grow by a term with each record (SumOneMore).  The score page,  *)
(* the exposure script and the other lender follow from both (ViewIsTrue).   *)
(* The penalty rests on a decay in two steps leaving nearly what one leaves  *)
(* (PenaltyDrifts), and on an invariant about every later time, SumsKept; an *)
(* import of a wallet's records is worth what it has on chain by the same.   *)
(*****************************************************************************)
EXTENDS ScoreView, SumTheorems

-----------------------------------------------------------------------------
(* The operators of Scoring, for every unit of time and money: their ranges, *)
(* that a penalty only fades, a score only rises as its penalty fades, and a *)
(* tier only rises with the score and with time.                             *)

\* Rust's integer division of naturals: the quotient's own bounds.
LEMMA DivBounds ==
  ASSUME NEW a \in Nat, NEW b \in Nat \ {0}
  PROVE  /\ a \div b \in Nat
         /\ (a \div b) * b <= a
         /\ a < (a \div b) * b + b
  OBVIOUS

\* Anything that fits b times into a is at most the quotient.
LEMMA DivLargest ==
  ASSUME NEW a \in Nat, NEW b \in Nat \ {0}, NEW k \in Int, k * b <= a
  PROVE  k <= a \div b
<1> DEFINE q == a \div b
<1>1. q \in Nat /\ a < q * b + b
  BY DivBounds
<1> HIDE DEF q
<1>2. k * b < (q + 1) * b
  BY <1>1, DivBounds DEF q
<1>3. SUFFICES ASSUME k >= q + 1 PROVE FALSE
  BY <1>1 DEF q
<1>4. k * b >= (q + 1) * b
  BY <1>1, <1>3
<1> QED BY <1>1, <1>2, <1>4

\* A product of naturals grows with each factor.
LEMMA TimesGrows ==
  ASSUME NEW a \in Nat, NEW b \in Nat, NEW c \in Nat, NEW d \in Nat, a <= b, c <= d
  PROVE  a * c \in Nat /\ a * c <= b * d
<1>1. a * c \in Nat /\ b * c \in Nat /\ b * d \in Nat
  OBVIOUS
<1>2. a * c <= b * c
  OBVIOUS
<1>3. b * c <= b * d
  OBVIOUS
<1> QED BY <1>1, <1>2, <1>3

\* A quotient grows with what is divided and falls with the divisor.
LEMMA DivGrows ==
  ASSUME NEW a \in Nat, NEW b \in Nat, NEW m \in Nat \ {0}, NEW n \in Nat \ {0},
         a <= b, n <= m
  PROVE  a \div m <= b \div n
<1> DEFINE q == a \div m
<1>1. q \in Nat /\ q * m <= a
  BY DivBounds
<1> HIDE DEF q
<1>2. q * n <= q * m /\ q * n \in Nat /\ q * m \in Nat
  BY <1>1, TimesGrows
<1>3. q * n <= b
  BY <1>1, <1>2
<1>4. q <= b \div n
  BY <1>1, <1>3, DivLargest
<1> QED BY <1>4 DEF q

\* Half of what is left after twice the divisor, and half of half.
LEMMA DivHalves ==
  ASSUME NEW a \in Nat, NEW b \in Nat, NEW m \in Nat \ {0}, NEW n \in Nat \ {0},
         \/ a <= b /\ 2 * n <= m
         \/ 2 * a <= b /\ n <= m
  PROVE  2 * (a \div m) <= b \div n
<1> DEFINE q == a \div m
<1>1. q \in Nat /\ q * m <= a /\ q * m \in Nat /\ q * n \in Nat
  BY DivBounds
<1> HIDE DEF q
<1>2. CASE a <= b /\ 2 * n <= m
  <2>1. q * (2 * n) <= q * m
    BY <1>1, <1>2, TimesGrows
  <2>2. q * (2 * n) = (2 * q) * n
    BY <1>1
  <2>3. (2 * q) * n <= b /\ 2 * q \in Int
    BY <1>1, <1>2, <2>1, <2>2
  <2> QED BY <2>3, DivLargest DEF q
<1>3. CASE 2 * a <= b /\ n <= m
  <2>1. q * n <= q * m
    BY <1>1, <1>3, TimesGrows
  <2>2. (2 * q) * n = 2 * (q * n)
    BY <1>1
  <2>3. (2 * q) * n <= b /\ 2 * q \in Int
    BY <1>1, <1>3, <2>1, <2>2
  <2> QED BY <2>3, DivLargest DEF q
<1> QED BY <1>2, <1>3

-----------------------------------------------------------------------------
(* Shifts *)

\* The powers of two up to 2^30.
Powers ==
  << 1, 2, 4, 8, 16, 32, 64, 128, 256, 512, 1024, 2048, 4096, 8192, 16384, 32768, 65536,
     131072, 262144, 524288, 1048576, 2097152, 4194304, 8388608, 16777216, 33554432,
     67108864, 134217728, 268435456, 536870912, 1073741824 >>

Pow(n) == 2^n

LEMMA PowerIsPowers == \A n \in 0..30 : Pow(n) = Powers[n + 1]
<1>1. \A n \in 0..30 :
        \/ n = 0 \/ n = 1 \/ n = 2 \/ n = 3 \/ n = 4 \/ n = 5 \/ n = 6 \/ n = 7 \/ n = 8
        \/ n = 9 \/ n = 10 \/ n = 11 \/ n = 12 \/ n = 13 \/ n = 14 \/ n = 15 \/ n = 16
        \/ n = 17 \/ n = 18 \/ n = 19 \/ n = 20 \/ n = 21 \/ n = 22 \/ n = 23 \/ n = 24
        \/ n = 25 \/ n = 26 \/ n = 27 \/ n = 28 \/ n = 29 \/ n = 30
  OBVIOUS
<1>2. /\ Pow(0) = 1 /\ Pow(1) = 2 /\ Pow(2) = 4 /\ Pow(3) = 8 /\ Pow(4) = 16 /\ Pow(5) = 32 /\ Pow(6) = 64
      /\ Pow(7) = 128 /\ Pow(8) = 256 /\ Pow(9) = 512 /\ Pow(10) = 1024 /\ Pow(11) = 2048 /\ Pow(12) = 4096
      /\ Pow(13) = 8192 /\ Pow(14) = 16384 /\ Pow(15) = 32768 /\ Pow(16) = 65536 /\ Pow(17) = 131072
      /\ Pow(18) = 262144 /\ Pow(19) = 524288 /\ Pow(20) = 1048576 /\ Pow(21) = 2097152
      /\ Pow(22) = 4194304 /\ Pow(23) = 8388608 /\ Pow(24) = 16777216 /\ Pow(25) = 33554432
      /\ Pow(26) = 67108864 /\ Pow(27) = 134217728 /\ Pow(28) = 268435456 /\ Pow(29) = 536870912
      /\ Pow(30) = 1073741824
  BY DEF Pow
<1>3. SUFFICES ASSUME NEW n \in 0..30 PROVE Pow(n) = Powers[n + 1]
  OBVIOUS
<1> QED BY <1>1, <1>2 DEF Powers

LEMMA PowersGrow ==
  /\ \A n \in 0..30 : Pow(n) \in Nat \ {0}
  /\ \A m, n \in 0..30 : m <= n => Pow(m) <= Pow(n)
  /\ \A m, n \in 0..30 : m < n => 2 * Pow(m) <= Pow(n)
<1>1. \A i \in 1..31 : Powers[i] \in Nat \ {0}
  BY DEF Powers
<1>2. \A i, j \in 1..31 : i < j => 2 * Powers[i] <= Powers[j]
  BY DEF Powers
<1>3. ASSUME NEW n \in 0..30 PROVE Pow(n) \in Nat \ {0}
  <2>1. n + 1 \in 1..31 /\ Pow(n) = Powers[n + 1]
    BY PowerIsPowers
  <2> QED BY <1>1, <2>1
<1>4. ASSUME NEW m \in 0..30, NEW n \in 0..30, m < n PROVE 2 * Pow(m) <= Pow(n)
  <2>1. /\ m + 1 \in 1..31 /\ Pow(m) = Powers[m + 1]
        /\ n + 1 \in 1..31 /\ Pow(n) = Powers[n + 1] /\ m + 1 < n + 1
    BY <1>4, PowerIsPowers
  <2> QED BY <1>2, <2>1
<1>5. ASSUME NEW m \in 0..30, NEW n \in 0..30, m <= n PROVE Pow(m) <= Pow(n)
  <2>1. Pow(m) \in Nat /\ Pow(n) \in Nat
    BY <1>3
  <2>2. CASE m = n
    BY <2>1, <2>2
  <2>3. CASE m < n
    BY <1>4, <2>1, <2>3
  <2> QED BY <1>5, <2>2, <2>3
<1> QED BY <1>3, <1>4, <1>5

LEMMA ShiftNat ==
  ASSUME NEW v \in Nat, NEW n \in 0..63
  PROVE  ShiftRight(v, n) \in Nat
<1>1. /\ Smaller(n, 30) \in 0..30 /\ Smaller(SatSub(n, 30), 30) \in 0..30
      /\ SatSub(n, 60) \in 0..30
  BY DEF Smaller, SatSub
<1>2. /\ Pow(Smaller(n, 30)) \in Nat \ {0} /\ Pow(Smaller(SatSub(n, 30), 30)) \in Nat \ {0}
      /\ Pow(SatSub(n, 60)) \in Nat \ {0}
  BY <1>1, PowersGrow
<1>3. v \div Pow(Smaller(n, 30)) \in Nat
  BY <1>2, DivBounds
<1>4. (v \div Pow(Smaller(n, 30))) \div Pow(Smaller(SatSub(n, 30), 30)) \in Nat
  BY <1>2, <1>3, DivBounds
<1> QED BY <1>2, <1>4, DivBounds DEF ShiftRight, Pow

\* One more halving leaves at most half.
LEMMA ShiftHalves ==
  ASSUME NEW v \in Nat, NEW m \in 0..63, NEW n \in 0..63, m < n
  PROVE  2 * ShiftRight(v, n) <= ShiftRight(v, m)
<1> DEFINE a(k) == Smaller(k, 30)
           b(k) == Smaller(SatSub(k, 30), 30)
           c(k) == SatSub(k, 60)
           first(k) == v \div Pow(a(k))
           second(k) == first(k) \div Pow(b(k))
           third(k) == second(k) \div Pow(c(k))
<1>1. /\ a(m) \in 0..30 /\ a(n) \in 0..30 /\ a(m) <= a(n)
      /\ b(m) \in 0..30 /\ b(n) \in 0..30 /\ b(m) <= b(n)
      /\ c(m) \in 0..30 /\ c(n) \in 0..30 /\ c(m) <= c(n)
      /\ a(m) < a(n) \/ b(m) < b(n) \/ c(m) < c(n)
  BY DEF Smaller, SatSub
<1>2. ShiftRight(v, n) = third(n) /\ ShiftRight(v, m) = third(m)
  BY DEF ShiftRight, Pow
<1> HIDE DEF a, b, c
<1>3. \A k \in {m, n} : /\ Pow(a(k)) \in Nat \ {0} /\ Pow(b(k)) \in Nat \ {0} /\ Pow(c(k)) \in Nat \ {0}
  BY <1>1, PowersGrow
<1>4. /\ Pow(a(m)) <= Pow(a(n)) /\ Pow(b(m)) <= Pow(b(n)) /\ Pow(c(m)) <= Pow(c(n))
      /\ a(m) < a(n) => 2 * Pow(a(m)) <= Pow(a(n))
      /\ b(m) < b(n) => 2 * Pow(b(m)) <= Pow(b(n))
      /\ c(m) < c(n) => 2 * Pow(c(m)) <= Pow(c(n))
  BY <1>1, PowersGrow
<1>5. \A k \in {m, n} : first(k) \in Nat
  BY <1>3, DivBounds
<1>6. /\ first(n) <= first(m)
      /\ a(m) < a(n) => 2 * first(n) <= first(m)
  <2>1. v <= v /\ v \in Nat
    OBVIOUS
  <2>2. v \div Pow(a(n)) <= v \div Pow(a(m))
    BY <1>3, <1>4, <2>1, DivGrows
  <2>3. a(m) < a(n) => 2 * (v \div Pow(a(n))) <= v \div Pow(a(m))
    BY <1>3, <1>4, <2>1, DivHalves
  <2> QED BY <2>2, <2>3
<1> HIDE DEF first
<1>7. \A k \in {m, n} : second(k) \in Nat
  BY <1>3, <1>5, DivBounds
<1>8. /\ second(n) <= second(m)
      /\ a(m) < a(n) \/ b(m) < b(n) => 2 * second(n) <= second(m)
  BY <1>3, <1>4, <1>5, <1>6, DivGrows, DivHalves
<1> HIDE DEF second
<1>9. a(m) < a(n) \/ b(m) < b(n) \/ c(m) < c(n) => 2 * third(n) <= third(m)
  BY <1>3, <1>4, <1>7, <1>8, DivHalves
<1> QED BY <1>1, <1>2, <1>9

-----------------------------------------------------------------------------
(* Penalties fade *)

LEMMA ModBounds ==
  ASSUME NEW a \in Nat, NEW b \in Nat \ {0}
  PROVE  /\ a % b \in 0..(b - 1)
         /\ a % b = a - (a \div b) * b
  OBVIOUS

LEMMA Units ==
  /\ PENALTY_HALF_LIFE_SECS \in Nat \ {0} /\ MIN_HOLD_SECS \in Nat \ {0}
  /\ LIQUIDATION_COOLDOWN_SECS \in Nat \ {0} /\ BPS = 10000
  BY UnitAssumption DEF PENALTY_HALF_LIFE_SECS, MIN_HOLD_SECS, LIQUIDATION_COOLDOWN_SECS, BPS

\* The factor of DecayBps for the part of a half-life that has passed.
Half(k) == HALF_STEP_TABLE[k]
Step(rest) == (rest * 8) \div PENALTY_HALF_LIFE_SECS
Within(rest) == (rest * 8) % PENALTY_HALF_LIFE_SECS
Drop(i) == Half(i + 1) - Half(i + 2)
Factor(rest) ==
  Half(Step(rest) + 1) - (Drop(Step(rest)) * Within(rest)) \div PENALTY_HALF_LIFE_SECS
Rests == 0..(PENALTY_HALF_LIFE_SECS - 1)

\* At least a half, in basis points.
AtLeastHalf(x) == x \in Nat /\ 5000 <= x /\ x <= 10000

LEMMA TableFalls ==
  ASSUME NEW k \in 1..9, NEW l \in 1..9, k <= l
  PROVE  AtLeastHalf(Half(k)) /\ AtLeastHalf(Half(l)) /\ Half(l) <= Half(k)
<1>1. \A n \in 1..9 : AtLeastHalf(Half(n))
  BY DEF Half, HALF_STEP_TABLE, AtLeastHalf
<1>2. \A m, n \in 1..9 : m <= n => Half(n) <= Half(m)
  BY DEF Half, HALF_STEP_TABLE
<1>3. AtLeastHalf(Half(k))
  BY <1>1
<1>4. AtLeastHalf(Half(l))
  BY <1>1
<1>5. Half(l) <= Half(k)
  BY <1>2
<1> QED BY <1>3, <1>4, <1>5

LEMMA StepBounds ==
  ASSUME NEW rest \in Rests
  PROVE  /\ Step(rest) \in 0..7 /\ Within(rest) \in Rests
         /\ Within(rest) = rest * 8 - Step(rest) * PENALTY_HALF_LIFE_SECS
<1> DEFINE H == PENALTY_HALF_LIFE_SECS
<1>1. H \in Nat \ {0} /\ rest * 8 \in Nat /\ rest * 8 < 8 * H
  BY Units DEF Rests
<1> HIDE DEF H
<1>2. /\ (rest * 8) \div H \in Nat /\ ((rest * 8) \div H) * H <= rest * 8
      /\ (rest * 8) % H \in 0..(H - 1)
      /\ (rest * 8) % H = rest * 8 - ((rest * 8) \div H) * H
  BY <1>1, DivBounds, ModBounds
<1> DEFINE q == (rest * 8) \div H
<1>3. q \in Nat /\ q * H < 8 * H
  BY <1>1, <1>2
<1> HIDE DEF q
<1>4. q < 8
  <2> SUFFICES ASSUME q >= 8 PROVE FALSE
    BY <1>3
  <2>1. 8 * H <= q * H
    BY <1>1, <1>3, TimesGrows
  <2>2. q * H \in Nat /\ 8 * H \in Nat
    BY <1>1, <1>3
  <2> QED BY <1>3, <2>1, <2>2
<1> QED BY <1>2, <1>3, <1>4 DEF Step, Within, Rests, H, q

\* The factor lies between the table's rows around it.
LEMMA FactorBetween ==
  ASSUME NEW rest \in Rests
  PROVE  /\ AtLeastHalf(Factor(rest))
         /\ Factor(rest) <= Half(Step(rest) + 1)
         /\ Factor(rest) >= Half(Step(rest) + 2)
<1> DEFINE H == PENALTY_HALF_LIFE_SECS
           d == Drop(Step(rest))
           w == Within(rest)
           hi == Half(Step(rest) + 1)
           lo == Half(Step(rest) + 2)
<1>1. H \in Nat \ {0} /\ Step(rest) \in 0..7 /\ w \in 0..(H - 1)
  BY Units, StepBounds DEF Rests
<1>2. /\ Step(rest) + 1 \in 1..9 /\ Step(rest) + 2 \in 1..9
      /\ Step(rest) + 1 <= Step(rest) + 2
  BY <1>1
<1>3. AtLeastHalf(hi) /\ AtLeastHalf(lo) /\ lo <= hi /\ d = hi - lo
  <2> DEFINE k == Step(rest) + 1
             l == Step(rest) + 2
  <2>1. k \in 1..9 /\ l \in 1..9 /\ k <= l
    BY <1>2
  <2>2. hi = Half(k) /\ lo = Half(l) /\ d = Half(k) - Half(l)
    BY DEF Drop
  <2> HIDE DEF k, l
  <2>3. AtLeastHalf(Half(k)) /\ AtLeastHalf(Half(l)) /\ Half(l) <= Half(k)
    BY <2>1, TableFalls
  <2> QED BY <2>2, <2>3
<1> HIDE DEF H, d, w, hi, lo
<1>4. d * w <= d * H /\ d * w \in Nat /\ d * H \in Nat
  <2>1. d \in Nat /\ d <= d /\ w \in Nat /\ w <= H
    BY <1>1, <1>3 DEF AtLeastHalf
  <2> QED BY <1>1, <2>1, TimesGrows
<1>5. (d * w) \div H \in Nat /\ ((d * w) \div H) * H <= d * w
  BY <1>1, <1>4, DivBounds
<1> DEFINE q == (d * w) \div H
<1>6. q \in Nat /\ q * H <= d * H
  <2>1. q \in Nat /\ q * H <= d * w /\ q * H \in Nat
    BY <1>1, <1>5
  <2> HIDE DEF q
  <2> QED BY <1>4, <2>1
<1> HIDE DEF q
<1>7. q <= d /\ d \in Nat
  <2>1. (d * H) \div H = d
    BY <1>1, <1>3 DEF AtLeastHalf
  <2>2. q <= (d * H) \div H
    BY <1>1, <1>4, <1>6, DivLargest
  <2> QED BY <1>3, <2>1, <2>2 DEF AtLeastHalf
<1>8. Factor(rest) = hi - q
  BY DEF Factor, hi, q, d, w, H
<1>9. /\ AtLeastHalf(hi - q) /\ hi - q <= hi /\ hi - q >= lo
  BY <1>3, <1>6, <1>7 DEF AtLeastHalf
<1>10. AtLeastHalf(Factor(rest)) /\ Factor(rest) <= hi /\ Factor(rest) >= lo
  BY <1>8, <1>9
<1> QED BY <1>10 DEF hi, lo

\* The factor only falls as the half-life passes.
LEMMA FactorFalls ==
  ASSUME NEW r \in Rests, NEW t \in Rests, r <= t
  PROVE  Factor(t) <= Factor(r)
<1> DEFINE H == PENALTY_HALF_LIFE_SECS
<1>1. H \in Nat \ {0} /\ r \in Nat /\ t \in Nat /\ r * 8 \in Nat /\ t * 8 \in Nat /\ r * 8 <= t * 8
  BY Units DEF Rests
<1>2. Step(r) <= Step(t)
  <2> HIDE DEF H
  <2>1. H <= H
    BY <1>1
  <2>2. (r * 8) \div H <= (t * 8) \div H
    BY <1>1, <2>1, DivGrows
  <2> QED BY <2>2 DEF Step, H
<1>3. /\ Step(r) \in 0..7 /\ Step(t) \in 0..7
      /\ AtLeastHalf(Factor(r)) /\ AtLeastHalf(Factor(t))
      /\ Factor(t) <= Half(Step(t) + 1) /\ Half(Step(r) + 2) <= Factor(r)
  BY StepBounds, FactorBetween
<1>4. CASE Step(r) < Step(t)
  <2> DEFINE k == Step(r) + 2
             l == Step(t) + 1
  <2>1. k \in 1..9 /\ l \in 1..9 /\ k <= l
    BY <1>3, <1>4
  <2>2. Factor(t) <= Half(l) /\ Half(k) <= Factor(r)
    BY <1>3
  <2> HIDE DEF k, l
  <2>3. Half(l) <= Half(k) /\ AtLeastHalf(Half(k)) /\ AtLeastHalf(Half(l))
    BY <2>1, TableFalls
  <2> QED BY <1>3, <2>2, <2>3 DEF AtLeastHalf
<1>5. CASE Step(r) = Step(t)
  <2> DEFINE s == Step(r)
             d == Drop(s)
             hi == Half(s + 1)
             v == Within(r)
             w == Within(t)
  <2>1. v \in Nat /\ w \in Nat /\ v <= w
    <3>1. /\ v \in Rests /\ w \in Rests
          /\ v = r * 8 - s * H /\ w = t * 8 - s * H
      BY <1>5, StepBounds
    <3>2. v \in Nat /\ w \in Nat /\ s * H \in Int
      BY <1>1, <1>3, <3>1 DEF Rests
    <3> HIDE DEF s, v, w, H
    <3> QED BY <1>1, <3>1, <3>2
  <2>2. d \in Nat /\ hi \in Nat
    <3> DEFINE k == s + 1
               l == s + 2
    <3>1. k \in 1..9 /\ l \in 1..9 /\ k <= l
      BY <1>3
    <3>2. d = Half(k) - Half(l) /\ hi = Half(k)
      BY DEF Drop
    <3> HIDE DEF k, l
    <3>3. AtLeastHalf(Half(k)) /\ AtLeastHalf(Half(l)) /\ Half(l) <= Half(k)
      BY <3>1, TableFalls
    <3> QED BY <3>2, <3>3 DEF AtLeastHalf
  <2>3. Factor(r) = hi - (d * v) \div H /\ Factor(t) = hi - (d * w) \div H
    BY <1>5 DEF Factor
  <2> HIDE DEF s, d, hi, v, w, H
  <2>4. d * v \in Nat /\ d * w \in Nat /\ d * v <= d * w
    <3>1. d <= d
      BY <2>2
    <3> QED BY <2>1, <2>2, <3>1, TimesGrows
  <2>5. (d * v) \div H <= (d * w) \div H
    BY <1>1, <2>4, DivGrows
  <2>6. (d * v) \div H \in Nat /\ (d * w) \div H \in Nat
    BY <1>1, <2>4, DivBounds
  <2> DEFINE x == (d * v) \div H
             y == (d * w) \div H
  <2>7. x \in Nat /\ y \in Nat /\ x <= y /\ Factor(r) = hi - x /\ Factor(t) = hi - y
    BY <2>3, <2>5, <2>6
  <2> HIDE DEF x, y
  <2> QED BY <2>2, <2>7
<1> QED BY <1>2, <1>3, <1>4, <1>5

Halvings(elapsed) == elapsed \div PENALTY_HALF_LIFE_SECS
Rest(elapsed) == elapsed % PENALTY_HALF_LIFE_SECS
Faded(v, elapsed) == (ShiftRight(v, Halvings(elapsed)) * Factor(Rest(elapsed))) \div BPS

LEMMA DecayIsFaded ==
  ASSUME NEW v, NEW from, NEW at
  PROVE  DecayBps(v, from, at) =
           IF Halvings(SatSub(at, from)) >= 64 THEN 0 ELSE Faded(v, SatSub(at, from))
  BY DEF DecayBps, Halvings, Rest, Faded, Factor, Drop, Half, Step, Within

LEMMA ElapsedBounds ==
  ASSUME NEW e \in Nat
  PROVE  Halvings(e) \in Nat /\ Rest(e) \in Rests
         /\ e = Halvings(e) * PENALTY_HALF_LIFE_SECS + Rest(e)
<1> DEFINE H == PENALTY_HALF_LIFE_SECS
<1>1. H \in Nat \ {0}
  BY Units
<1> HIDE DEF H
<1>2. e \div H \in Nat /\ e % H \in 0..(H - 1) /\ e % H = e - (e \div H) * H
  BY <1>1, DivBounds, ModBounds
<1> DEFINE q == e \div H
           x == q * H
<1>3. q \in Nat /\ x \in Nat /\ e % H = e - x /\ e % H \in 0..(H - 1)
  BY <1>1, <1>2
<1> HIDE DEF q, x
<1>4. e = x + (e % H)
  BY <1>3
<1> QED BY <1>3, <1>4 DEF Halvings, Rest, Rests, H, q, x

LEMMA FadedNat ==
  ASSUME NEW v \in Nat, NEW e \in Nat, Halvings(e) < 64
  PROVE  Faded(v, e) \in Nat
<1> DEFINE s == ShiftRight(v, Halvings(e))
           f == Factor(Rest(e))
<1>1. Halvings(e) \in 0..63 /\ Rest(e) \in Rests
  BY ElapsedBounds
<1>2. s \in Nat
  BY <1>1, ShiftNat
<1>3. f \in Nat
  BY <1>1, FactorBetween DEF AtLeastHalf
<1> HIDE DEF s, f
<1>4. s * f \in Nat
  BY <1>2, <1>3
<1>5. (s * f) \div BPS \in Nat
  BY <1>4, Units, DivBounds
<1> QED BY <1>5 DEF Faded, s, f

\* What is left of a penalty is a natural number.
LEMMA DecayNat ==
  ASSUME NEW v \in Nat, NEW from \in Nat, NEW at \in Nat
  PROVE  DecayBps(v, from, at) \in Nat
<1> DEFINE e == SatSub(at, from)
<1>1. e \in Nat
  BY DEF SatSub
<1> HIDE DEF e
<1>2. Halvings(e) \in Nat
  BY <1>1, ElapsedBounds
<1>3. Halvings(e) < 64 => Faded(v, e) \in Nat
  BY <1>1, FadedNat
<1> QED BY <1>2, <1>3, DecayIsFaded DEF e

LEMMA FadedFalls ==
  ASSUME NEW v \in Nat, NEW d \in Nat, NEW e \in Nat, d <= e, Halvings(e) < 64
  PROVE  /\ Halvings(d) < 64
         /\ Faded(v, e) <= Faded(v, d)
<1> DEFINE H == PENALTY_HALF_LIFE_SECS
           m == Halvings(d)
           n == Halvings(e)
           g == Factor(Rest(d))
           f == Factor(Rest(e))
           s == ShiftRight(v, m)
           t == ShiftRight(v, n)
<1>1. /\ H \in Nat \ {0} /\ m \in Nat /\ n \in Nat /\ Rest(d) \in Rests /\ Rest(e) \in Rests
      /\ d = m * H + Rest(d) /\ e = n * H + Rest(e)
  BY Units, ElapsedBounds
<1>2. m <= n
  <2> HIDE DEF H
  <2>1. H <= H
    BY <1>1
  <2>2. d \div H <= e \div H
    BY <1>1, <2>1, DivGrows
  <2> QED BY <2>2 DEF Halvings, H
<1>3. m \in 0..63 /\ n \in 0..63
  BY <1>1, <1>2
<1>4. AtLeastHalf(g) /\ AtLeastHalf(f)
  BY <1>1, FactorBetween
<1>5. s \in Nat /\ t \in Nat
  BY <1>3, ShiftNat
<1>6. m = n => t = s /\ f <= g
  <2> SUFFICES ASSUME m = n PROVE t = s /\ f <= g
    OBVIOUS
  <2>1. Rest(d) <= Rest(e)
    <3> DEFINE x == m * H
               p == Rest(d)
               q == Rest(e)
    <3>1. x \in Int /\ p \in Int /\ q \in Int /\ d = x + p /\ e = x + q
      BY <1>1 DEF Rests
    <3> HIDE DEF x, p, q
    <3>2. p <= q
      BY <3>1
    <3> QED BY <3>2 DEF p, q
  <2>2. f <= g
    BY <1>1, <2>1, FactorFalls
  <2>3. t = s
    OBVIOUS
  <2> QED BY <2>2, <2>3
<1>7. m < n => 2 * t <= s
  BY <1>3, ShiftHalves
<1> HIDE DEF m, n, f, g, s, t
<1>8. t * f <= s * g /\ t * f \in Nat /\ s * g \in Nat
  <2>0. f \in Nat /\ g \in Nat /\ 5000 <= g /\ f <= 10000
    BY <1>4 DEF AtLeastHalf
  <2>1. CASE m = n
    <3>1. t <= s /\ f <= g
      BY <1>5, <1>6, <2>1
    <3> QED BY <1>5, <2>0, <3>1, TimesGrows
  <2>2. CASE m < n
    <3>1. t <= t /\ t * f \in Nat /\ s * g \in Nat /\ s * 5000 \in Nat /\ t * 10000 \in Nat
      BY <1>5, <2>0
    <3>2. t * f <= t * 10000
      BY <1>5, <2>0, <3>1, TimesGrows
    <3>3. t * 10000 <= s * 5000
      BY <1>5, <1>7, <2>2
    <3>4. s * 5000 <= s * g
      <4>1. s <= s /\ 5000 \in Nat
        BY <1>5
      <4> QED BY <1>5, <2>0, <4>1, TimesGrows
    <3> QED BY <3>1, <3>2, <3>3, <3>4
  <2> QED BY <1>2, <1>3, <2>1, <2>2
<1>9. (t * f) \div BPS <= (s * g) \div BPS
  <2>1. BPS \in Nat \ {0} /\ BPS <= BPS
    BY Units
  <2> QED BY <1>8, <2>1, DivGrows
<1> QED BY <1>3, <1>9 DEF Faded, m, n, f, g, s, t

\* A penalty only fades: it is no more at a later time.
LEMMA DecayFalls ==
  ASSUME NEW v \in Nat, NEW from \in Nat, NEW at \in Nat, NEW later \in Nat, at <= later
  PROVE  DecayBps(v, from, later) <= DecayBps(v, from, at)
<1> DEFINE d == SatSub(at, from)
           e == SatSub(later, from)
<1>1. d \in Nat /\ e \in Nat /\ d <= e
  BY DEF SatSub
<1>2. DecayBps(v, from, at) \in Nat
  BY DecayNat
<1>3. DecayBps(v, from, later) = IF Halvings(e) >= 64 THEN 0 ELSE Faded(v, e)
  BY DecayIsFaded
<1>4. DecayBps(v, from, at) = IF Halvings(d) >= 64 THEN 0 ELSE Faded(v, d)
  BY DecayIsFaded
<1> HIDE DEF d, e
<1>5. CASE Halvings(e) >= 64
  BY <1>2, <1>3, <1>5
<1>6. CASE Halvings(e) < 64
  <2>1. Halvings(d) < 64 /\ Faded(v, e) <= Faded(v, d) /\ Halvings(d) \in Nat
    BY <1>1, <1>6, FadedFalls, ElapsedBounds
  <2>2. Halvings(e) \in Nat
    BY <1>1, ElapsedBounds
  <2>3. DecayBps(v, from, later) = Faded(v, e) /\ DecayBps(v, from, at) = Faded(v, d)
    BY <1>3, <1>4, <1>6, <2>1, <2>2
  <2> QED BY <2>1, <2>3
<1>7. Halvings(e) \in Nat
  BY <1>1, ElapsedBounds
<1> QED BY <1>5, <1>6, <1>7

\* No time passed, nothing faded; and a penalty never grows.
LEMMA DecayStarts ==
  ASSUME NEW v \in Nat, NEW from \in Nat, NEW at \in Nat
  PROVE  /\ at <= from => DecayBps(v, from, at) = v
         /\ DecayBps(v, from, at) <= v
<1>1. ASSUME NEW t \in Nat, t <= from PROVE DecayBps(v, from, t) = v
  <2>1. SatSub(t, from) = 0
    BY <1>1 DEF SatSub
  <2> DEFINE H == PENALTY_HALF_LIFE_SECS
  <2>2. H \in Nat \ {0}
    BY Units
  <2> HIDE DEF H
  <2>3. 0 \div H = 0 /\ 0 % H = 0 /\ (0 * 8) \div H = 0 /\ (0 * 8) % H = 0
    BY <2>2
  <2>4. ShiftRight(v, 0) = v
    <3>1. Pow(0) = 1
      BY DEF Pow
    <3>2. Smaller(0, 30) = 0 /\ SatSub(0, 30) = 0 /\ SatSub(0, 60) = 0
      BY DEF Smaller, SatSub
    <3>3. v \div 1 = v
      OBVIOUS
    <3> QED BY <3>1, <3>2, <3>3 DEF ShiftRight, Pow
  <2>5. Step(0) = 0 /\ Within(0) = 0 /\ Halvings(0) = 0 /\ Rest(0) = 0
    BY <2>3 DEF Step, Within, Halvings, Rest, H
  <2>6. Factor(0) = 10000
    <3>1. Half(1) = 10000 /\ Drop(0) \in Int
      BY DEF Half, Drop, HALF_STEP_TABLE
    <3>2. Factor(0) = Half(1) - (Drop(0) * 0) \div H
      BY <2>5 DEF Factor, H
    <3>3. Drop(0) * 0 = 0
      BY <3>1
    <3> QED BY <2>3, <3>1, <3>2, <3>3
  <2>7. (v * 10000) \div 10000 = v
    OBVIOUS
  <2> QED BY <2>1, <2>4, <2>5, <2>6, <2>7, DecayIsFaded, Units DEF Faded
<1>2. CASE at <= from
  BY <1>1, <1>2
<1>3. CASE from <= at
  <2>1. from <= from
    OBVIOUS
  <2>2. DecayBps(v, from, from) = v
    BY <1>1, <2>1
  <2>3. DecayBps(v, from, at) <= DecayBps(v, from, from)
    BY <1>3, DecayFalls
  <2>4. at <= from => DecayBps(v, from, at) = v
    BY <1>1
  <2> QED BY <2>2, <2>3, <2>4
<1> QED BY <1>2, <1>3

-----------------------------------------------------------------------------
(* A penalty decayed in two steps.                                           *)
(*                                                                           *)
(* compute_score decays the penalty total at every record and dates it then; *)
(* decaying each record's penalty once, from its own day, gives nearly the   *)
(* same.  The table of factors is that of one geometric series, rounded: two *)
(* rows multiply to the row of their sum within a thousandth (RowsMultiply), *)
(* so do the lines between them (LinesMultiply) and the factors themselves   *)
(* (FactorsMultiply), and the halvings divide by a product (ScaleAdds).  Two  *)
(* steps then leave what one does (RemainsSteps), a penalty added between    *)
(* them decays as it does alone (RemainsTogether), and both are within Drift *)
(* (PenaltyDrifts).                                                          *)

\* The factor of a half-life read on through the next one, doubled.
Ext(k) == IF k <= 8 THEN 2 * Half(k + 1) ELSE Half(k - 7)
ExtDrop(k) == Ext(k) - Ext(k + 1)

\* How far the product of two rows is from the row of their sum.
Miss(x, y) == 2 * x - 10000 * y
Off(i, j) == Miss(Half(i + 1) * Half(j + 1), Ext(i + j))
SmallDrops(m) == m \in Nat /\ m <= 688900
Slight(x) == x \in Int /\ -12088 <= x /\ x <= 10418

\* The nine factors of the table, and the sixteen read on from them.
LEMMA RowValues ==
  /\ Half(1) = 10000 /\ Half(2) = 9170 /\ Half(3) = 8409 /\ Half(4) = 7711 /\ Half(5) = 7071
  /\ Half(6) = 6484 /\ Half(7) = 5946 /\ Half(8) = 5453 /\ Half(9) = 5000
  BY DEF Half, HALF_STEP_TABLE

LEMMA ExtValues ==
  /\ Ext(0) = 20000 /\ Ext(1) = 18340 /\ Ext(2) = 16818 /\ Ext(3) = 15422 /\ Ext(4) = 14142
  /\ Ext(5) = 12968 /\ Ext(6) = 11892 /\ Ext(7) = 10906 /\ Ext(8) = 10000 /\ Ext(9) = 9170
  /\ Ext(10) = 8409 /\ Ext(11) = 7711 /\ Ext(12) = 7071 /\ Ext(13) = 6484 /\ Ext(14) = 5946
  /\ Ext(15) = 5453 /\ Ext(16) = 5000
  BY RowValues DEF Ext

\* Two rows multiply, to within a thousandth, to the row of their sum: the table is
\* the powers of one factor, rounded.
LEMMA RowsMultiply == \A i, j \in 0..8 : Slight(Off(i, j))
<1>1. \A x \in 0..8 : \/ x = 0 \/ x = 1 \/ x = 2 \/ x = 3 \/ x = 4 \/ x = 5 \/ x = 6 \/ x = 7 \/ x = 8
  OBVIOUS
<1>2. SUFFICES ASSUME NEW i \in 0..8, NEW j \in 0..8 PROVE Slight(Off(i, j))
  OBVIOUS
<1> DEFINE a == Half(i + 1)
           b == Half(j + 1)
           e == Ext(i + j)
<1>3. Off(i, j) = Miss(a * b, e)
  BY DEF Off
<1> HIDE DEF a, b, e
<1>4. i = 0 => Slight(Miss(a * b, e))
  BY <1>1, RowValues, ExtValues, SMT DEF a, b, e, Slight, Miss
<1>5. i = 1 => Slight(Miss(a * b, e))
  BY <1>1, RowValues, ExtValues, SMT DEF a, b, e, Slight, Miss
<1>6. i = 2 => Slight(Miss(a * b, e))
  BY <1>1, RowValues, ExtValues, SMT DEF a, b, e, Slight, Miss
<1>7. i = 3 => Slight(Miss(a * b, e))
  BY <1>1, RowValues, ExtValues, SMT DEF a, b, e, Slight, Miss
<1>8. i = 4 => Slight(Miss(a * b, e))
  BY <1>1, RowValues, ExtValues, SMT DEF a, b, e, Slight, Miss
<1>9. i = 5 => Slight(Miss(a * b, e))
  BY <1>1, RowValues, ExtValues, SMT DEF a, b, e, Slight, Miss
<1>10. i = 6 => Slight(Miss(a * b, e))
  BY <1>1, RowValues, ExtValues, SMT DEF a, b, e, Slight, Miss
<1>11. i = 7 => Slight(Miss(a * b, e))
  BY <1>1, RowValues, ExtValues, SMT DEF a, b, e, Slight, Miss
<1>12. i = 8 => Slight(Miss(a * b, e))
  BY <1>1, RowValues, ExtValues, SMT DEF a, b, e, Slight, Miss
<1> QED BY <1>1, <1>3, <1>4, <1>5, <1>6, <1>7, <1>8, <1>9, <1>10, <1>11, <1>12

\* What the product of two interpolated rows is short of the interpolated row of
\* their sum, from the misses p, q and r at the rows and the drops between rows.
Bend(H, u, w, m, p, q, r) == H * ((H - (u + w)) * p + u * q + w * r) + 2 * (m * (u * w))
Within354868(x, H) == x \in Int /\ -12088 * (H * H) <= x /\ x <= 354868 * (H * H)

\* A weighted sum of slight numbers.
LEMMA Weighted ==
  ASSUME NEW k \in Nat, NEW x, Slight(x)
  PROVE  k * x \in Int /\ -12088 * k <= k * x /\ k * x <= 10418 * k
<1>1. x \in Int /\ x + 12088 \in Nat /\ 10418 - x \in Nat
  BY DEF Slight
<1>2. k * (x + 12088) \in Nat /\ k * (10418 - x) \in Nat
  BY <1>1
<1>3. k * (x + 12088) = k * x + 12088 * k /\ k * (10418 - x) = 10418 * k - k * x
  BY <1>1
<1> QED BY <1>1, <1>2, <1>3

\* Two parts of a number multiply to at most a quarter of its square.
LEMMA QuarterSquare ==
  ASSUME NEW u \in Nat, NEW w \in Nat, NEW H \in Nat, u + w <= H
  PROVE  u * w \in Nat /\ 4 * (u * w) <= H * H
<1>1. (u - w) * (u - w) >= 0 /\ u * w \in Nat
  OBVIOUS
<1>2. (u + w) * (u + w) = 4 * (u * w) + (u - w) * (u - w)
  OBVIOUS
<1>3. (u + w) * (u + w) <= H * H
  BY TimesGrows
<1> QED BY <1>1, <1>2, <1>3

\* Between rows the product is off by no more than at the rows, and by the bend of
\* two straight lines multiplied.
LEMMA BilinearBounds ==
  ASSUME NEW H \in Nat, NEW u \in Nat, NEW w \in Nat, u + w <= H,
         NEW D, SmallDrops(D),
         NEW p, Slight(p), NEW q, Slight(q), NEW r, Slight(r)
  PROVE  Within354868(Bend(H, u, w, D, p, q, r), H)
<1> DEFINE k == H - (u + w)
           A == k * p
           B == u * q
           C == w * r
           U == u * w
           S == H * H
<1>1. k \in Nat /\ k + u + w = H
  OBVIOUS
<1>2. /\ A \in Int /\ -12088 * k <= A /\ A <= 10418 * k
      /\ B \in Int /\ -12088 * u <= B /\ B <= 10418 * u
      /\ C \in Int /\ -12088 * w <= C /\ C <= 10418 * w
  BY <1>1, Weighted
<1>3. D \in Nat /\ D <= 688900
  BY DEF SmallDrops
<1>4. U \in Nat /\ 4 * U <= S /\ S \in Nat
  BY QuarterSquare
<1>5. D * U \in Nat /\ D * U <= 688900 * U
  <2> DEFINE n == 688900
  <2>1. D \in Nat /\ D <= n /\ n \in Nat /\ U \in Nat /\ U <= U
    BY <1>3, <1>4, SMT
  <2> HIDE DEF U, n
  <2>2. D * U \in Nat /\ D * U <= n * U
    BY <2>1, TimesGrows
  <2> QED BY <2>2, SMT DEF n
<1> DEFINE X == A + B + C
<1>6. X \in Int /\ -12088 * H <= X /\ X <= 10418 * H
  <2> HIDE DEF A, B, C, k
  <2> QED BY <1>1, <1>2
<1> HIDE DEF X
<1>7. H * X \in Int /\ -12088 * S <= H * X /\ H * X <= 10418 * S
  <2>1. X + 12088 * H \in Nat /\ 10418 * H - X \in Nat
    BY <1>6
  <2>2. H * (X + 12088 * H) \in Nat /\ H * (10418 * H - X) \in Nat
    BY <2>1
  <2>3. H * (X + 12088 * H) = H * X + 12088 * S /\ H * (10418 * H - X) = 10418 * S - H * X
    BY <1>6
  <2>4. H * X \in Int
    BY <1>6
  <2> HIDE DEF S
  <2> QED BY <1>4, <2>2, <2>3, <2>4
<1> DEFINE Y == H * X
           Z == D * U
<1>8. Y \in Int /\ -12088 * S <= Y /\ Y <= 10418 * S /\ Z \in Nat /\ Z <= 688900 * U
  BY <1>5, <1>7
<1>9. Y + 2 * Z \in Int /\ -12088 * S <= Y + 2 * Z /\ Y + 2 * Z <= 354868 * S
  <2> HIDE DEF Y, Z, S, U
  <2> QED BY <1>4, <1>8
<1> QED BY <1>9 DEF Y, Z, S, U, X, A, B, C, k, Bend, Within354868

\* Two lines that fall over a half-life, and the one they are compared with.
\* The same, inside the bounds that the table keeps.
LEMMA LinesWithin ==
  ASSUME NEW H \in Nat, NEW a \in Int, NEW b \in Int, NEW d \in Int, NEW e \in Int,
         NEW u \in Nat, NEW w \in Nat, NEW c \in Int, NEW f \in Int, u + w <= H,
         SmallDrops(d * e),
         Slight(Miss(a * b, c)),
         Slight(Miss((a - d) * b, c - f)),
         Slight(Miss(a * (b - e), c - f))
  PROVE  Within354868(Miss((a * H - d * u) * (b * H - e * w), H * (c * H - f * (u + w))), H)
<1> DEFINE m == d * e
           p == Miss(a * b, c)
           q == Miss((a - d) * b, c - f)
           r == Miss(a * (b - e), c - f)
           z == Miss((a * H - d * u) * (b * H - e * w), H * (c * H - f * (u + w)))
<1>1. z = Bend(H, u, w, m, p, q, r)
  BY SMT DEF Bend, Miss
<1>2. SmallDrops(m) /\ Slight(p) /\ Slight(q) /\ Slight(r)
  BY Zenon
<1> SUFFICES Within354868(z, H)
  OBVIOUS
<1> HIDE DEF m, p, q, r, z
<1>3. Within354868(Bend(H, u, w, m, p, q, r), H)
  BY <1>2, BilinearBounds
<1> QED BY <1>1, <1>3

\* The straight lines between the rows, and between those read on.
\* A row read on x eighths of a half-life, unrounded and times the half-life; the
\* same over two half-lives; and the line that lies under x in 0..2H.
Line(i, x) == Half(i + 1) * PENALTY_HALF_LIFE_SECS - Drop(i) * x
ExtLine(k, x) == Ext(k) * PENALTY_HALF_LIFE_SECS - ExtDrop(k) * x
OnLine(k, x) ==
  IF x < PENALTY_HALF_LIFE_SECS THEN ExtLine(k, x)
  ELSE ExtLine(k + 1, x - PENALTY_HALF_LIFE_SECS)

\* A row falls to the next by the drop, and the drops are small.
Falls(i) ==
  /\ Drop(i) \in 0..830 /\ Half(i + 1) \in Nat /\ Half(i + 2) \in Nat
  /\ Half(i + 1) - Drop(i) = Half(i + 2)
ExtFalls(k) ==
  /\ ExtDrop(k) \in 0..1660 /\ Ext(k) \in Nat /\ Ext(k + 1) \in Nat
  /\ Ext(k) - ExtDrop(k) = Ext(k + 1)

LEMMA RowDrops == ASSUME NEW i \in 0..7 PROVE Falls(i)
<1>1. i = 0 \/ i = 1 \/ i = 2 \/ i = 3 \/ i = 4 \/ i = 5 \/ i = 6 \/ i = 7
  OBVIOUS
<1> QED BY <1>1, RowValues DEF Drop, Falls

LEMMA ExtDrops == ASSUME NEW k \in 0..15 PROVE ExtFalls(k)
<1>1. \/ k = 0 \/ k = 1 \/ k = 2 \/ k = 3 \/ k = 4 \/ k = 5 \/ k = 6 \/ k = 7 \/ k = 8
      \/ k = 9 \/ k = 10 \/ k = 11 \/ k = 12 \/ k = 13 \/ k = 14 \/ k = 15
  OBVIOUS
<1> QED BY <1>1, ExtValues DEF ExtDrop, ExtFalls

\* Two unrounded factors multiply, to within the bounds, to the one of their sum.
LEMMA LinesMultiply ==
  ASSUME NEW i \in 0..7, NEW j \in 0..7, NEW u \in Rests, NEW w \in Rests
  PROVE  LET H == PENALTY_HALF_LIFE_SECS
         IN  Within354868(Miss(Line(i, u) * Line(j, w), H * OnLine(i + j, u + w)), H)
<1> DEFINE H == PENALTY_HALF_LIFE_SECS
           a == Half(i + 1)
           b == Half(j + 1)
           aa == Half(i + 2)
           bb == Half(j + 2)
           d == Drop(i)
           e == Drop(j)
           c == Ext(i + j)
           f == ExtDrop(i + j)
           cc == Ext(i + j + 1)
           ff == ExtDrop(i + j + 1)
           ccc == Ext(i + j + 2)
<1>1. H \in Nat \ {0} /\ u \in Nat /\ w \in Nat /\ u < H /\ w < H
  BY Units DEF Rests
<1>2. /\ a \in Nat /\ aa \in Nat /\ d \in 0..830 /\ a - d = aa
      /\ b \in Nat /\ bb \in Nat /\ e \in 0..830 /\ b - e = bb
  <2>1. Falls(i) /\ Falls(j)
    BY RowDrops
  <2> QED BY <2>1 DEF Falls
<1>3. /\ c \in Nat /\ cc \in Nat /\ f \in 0..1660 /\ c - f = cc
      /\ ccc \in Nat /\ ff \in 0..1660 /\ cc - ff = ccc
  <2> DEFINE k == i + j
             l == i + j + 1
             next == i + j + 2
  <2>1. k \in 0..15 /\ l \in 0..15 /\ k + 1 = l /\ l + 1 = next
    OBVIOUS
  <2> HIDE DEF k, l, next
  <2>2. /\ ExtDrop(k) \in 0..1660 /\ Ext(k) \in Nat /\ Ext(l) \in Nat
        /\ Ext(k) - ExtDrop(k) = Ext(l)
    <3>1. ExtFalls(k)
      BY <2>1, ExtDrops
    <3> QED BY <2>1, <3>1 DEF ExtFalls
  <2>3. /\ ExtDrop(l) \in 0..1660 /\ Ext(next) \in Nat /\ Ext(l) - ExtDrop(l) = Ext(next)
    <3>1. ExtFalls(l)
      BY <2>1, ExtDrops
    <3> QED BY <2>1, <3>1 DEF ExtFalls
  <2> QED BY <2>2, <2>3 DEF k, l, next
<1> DEFINE p00 == Miss(a * b, c)
           p10 == Miss(aa * b, cc)
           p01 == Miss(a * bb, cc)
           p11 == Miss(aa * bb, ccc)
<1>4. Slight(p00) /\ Slight(p10) /\ Slight(p01) /\ Slight(p11)
  <2>1. /\ Slight(Off(i, j)) /\ Slight(Off(i + 1, j)) /\ Slight(Off(i, j + 1))
        /\ Slight(Off(i + 1, j + 1))
    BY RowsMultiply
  <2>2. /\ (i + 1) + j = i + j + 1 /\ i + (j + 1) = i + j + 1 /\ (i + 1) + (j + 1) = i + j + 2
        /\ (i + 1) + 1 = i + 2 /\ (j + 1) + 1 = j + 2
    OBVIOUS
  <2> QED BY <2>1, <2>2 DEF Off
<1>5. SmallDrops(d * e)
  <2> HIDE DEF d, e
  <2> DEFINE n == 830
  <2>1. d \in Nat /\ e \in Nat /\ d <= n /\ e <= n /\ n \in Nat
    BY <1>2, SMT
  <2> HIDE DEF n
  <2>2. d * e \in Nat /\ d * e <= n * n
    BY <2>1, TimesGrows
  <2> QED BY <2>2, SMT DEF SmallDrops, n
<1> DEFINE L == Line(i, u)
           M == Line(j, w)
           X == OnLine(i + j, u + w)
<1>6. L = a * H - d * u /\ M = b * H - e * w
  BY DEF Line
<1>7. CASE u + w < H
  <2>1. X = c * H - f * (u + w)
    BY <1>7, SMT DEF OnLine, ExtLine
  <2> HIDE DEF H, a, b, aa, bb, d, e, c, f, cc, ff, ccc, L, M, X
  <2>2. u + w <= H
    BY <1>1, <1>7
  <2>3. a - d = aa /\ b - e = bb /\ c - f = cc
    BY <1>2, <1>3
  <2>4. /\ Slight(Miss((a - d) * b, c - f))
        /\ Slight(Miss(a * (b - e), c - f))
    BY <1>4, <2>3, Zenon
  <2>5. Slight(Miss(a * b, c))
    BY <1>4
  <2>6. /\ a \in Int /\ b \in Int /\ c \in Int /\ d \in Int /\ e \in Int /\ f \in Int /\ H \in Nat
    BY <1>1, <1>2, <1>3
  <2>7. Within354868(Miss((a * H - d * u) * (b * H - e * w), H * (c * H - f * (u + w))), H)
    BY <1>1, <1>5, <2>2, <2>4, <2>5, <2>6, LinesWithin, Zenon
  <2>8. Within354868(Miss(L * M, H * X), H)
    BY <1>6, <2>1, <2>7, Zenon
  <2> QED BY <2>8, Zenon DEF H, L, M, X
<1>8. CASE ~(u + w < H)
  <2> DEFINE u1 == H - u
             w1 == H - w
             d1 == -d
             e1 == -e
             f1 == -ff
  <2>1. X = cc * H - ff * ((u + w) - H)
    <3>1. X = ExtLine(i + j + 1, (u + w) - H)
      <4> DEFINE k == i + j
                 x == u + w
      <4>1. ~(x < H)
        BY <1>8
      <4> HIDE DEF k, x
      <4>2. OnLine(k, x) = ExtLine(k + 1, x - H)
        BY <4>1, Zenon DEF OnLine
      <4> QED BY <4>2, Zenon DEF k, x
    <3> QED BY <3>1, Zenon DEF ExtLine
  <2> HIDE DEF H, a, b, aa, bb, d, e, c, f, cc, ff, ccc, L, M, X
  <2>2. /\ u1 \in Nat /\ w1 \in Nat /\ u1 + w1 <= H
        /\ d1 \in Int /\ e1 \in Int /\ f1 \in Int
    BY <1>1, <1>2, <1>3, <1>8
  <2>3. aa - d1 = a /\ bb - e1 = b /\ ccc - f1 = cc
    BY <1>2, <1>3
  <2>4. L = aa * H - d1 * u1 /\ M = bb * H - e1 * w1
    <3>1. aa = a - d /\ bb = b - e
      BY <1>2
    <3> QED BY <1>1, <1>2, <1>6, <3>1
  <2>5. X = ccc * H - f1 * (u1 + w1)
    <3>1. cc = ccc + ff
      BY <1>3
    <3> QED BY <1>1, <1>3, <2>1, <3>1
  <2>6. SmallDrops(d1 * e1)
    <3>1. d1 * e1 = d * e
      BY <1>2
    <3> QED BY <1>5, <3>1
  <2> HIDE DEF u1, w1, d1, e1, f1
  <2>7. /\ Slight(Miss((aa - d1) * bb, ccc - f1))
        /\ Slight(Miss(aa * (bb - e1), ccc - f1))
    BY <1>4, <2>3, Zenon
  <2>8. Slight(Miss(aa * bb, ccc))
    BY <1>4
  <2>9. aa \in Int /\ bb \in Int /\ ccc \in Int /\ H \in Nat
    BY <1>1, <1>2, <1>3
  <2>10. Within354868(Miss((aa * H - d1 * u1) * (bb * H - e1 * w1),
                           H * (ccc * H - f1 * (u1 + w1))), H)
    BY <2>2, <2>6, <2>7, <2>8, <2>9, LinesWithin, Zenon
  <2>11. Within354868(Miss(L * M, H * X), H)
    BY <2>4, <2>5, <2>10, Zenon
  <2> QED BY <2>11, Zenon DEF H, L, M, X
<1> QED BY <1>7, <1>8

\* A factor is the line between its rows, rounded up.
\* A factor is its line, rounded up.
LEMMA FactorOnLine ==
  ASSUME NEW r \in Rests
  PROVE  LET H == PENALTY_HALF_LIFE_SECS
             L == Line(Step(r), Within(r))
         IN  /\ Factor(r) \in Nat /\ L \in Nat /\ L <= 10000 * H
             /\ L <= Factor(r) * H /\ Factor(r) * H <= L + H
<1> DEFINE H == PENALTY_HALF_LIFE_SECS
           i == Step(r)
           x == Within(r)
           a == Half(i + 1)
           d == Drop(i)
           q == (d * x) \div H
<1>1. H \in Nat \ {0} /\ i \in 0..7 /\ x \in Nat /\ x < H
  BY Units, StepBounds DEF Rests
<1>2. /\ d \in Nat /\ a \in Nat /\ a - d \in Nat /\ a <= 10000
  <2>1. d \in 0..830 /\ a \in Nat /\ Half(i + 2) \in Nat /\ a - d = Half(i + 2)
    <3> HIDE DEF i
    <3>1. Falls(i)
      BY <1>1, RowDrops
    <3> QED BY <3>1 DEF Falls
  <2>2. AtLeastHalf(a)
    <3> DEFINE k == i + 1
    <3>1. k \in 1..9 /\ k <= k
      BY <1>1, SMT
    <3> HIDE DEF k
    <3>2. AtLeastHalf(Half(k))
      BY <3>1, TableFalls
    <3> QED BY <3>2 DEF k
  <2> HIDE DEF a, d, i
  <2> QED BY <2>1, <2>2, SMT DEF AtLeastHalf
<1>3. Factor(r) = a - q /\ Line(i, x) = a * H - d * x
  BY DEF Factor, Line
<1>4. Factor(r) \in Nat
  BY FactorBetween DEF AtLeastHalf
<1> HIDE DEF H, i, x, a, d
<1>5. d * x \in Nat /\ d * x <= d * H /\ a * H \in Nat /\ d * H \in Nat
  <2>1. d <= d /\ x <= H
    BY <1>1, <1>2
  <2> QED BY <1>1, <1>2, <2>1, TimesGrows
<1>6. q \in Nat /\ q * H <= d * x /\ d * x < q * H + H /\ q * H \in Nat
  BY <1>1, <1>5, DivBounds
<1> HIDE DEF q
<1>7. Factor(r) * H = a * H - q * H /\ (a - d) * H = a * H - d * H /\ (a - d) * H \in Nat
  BY <1>1, <1>2, <1>3, <1>6
<1>8. a * H <= 10000 * H
  BY <1>1, <1>2, SMT
<1> DEFINE L == Line(i, x)
           A == a * H
           D == d * x
           E == d * H
           Q == q * H
           T == 10000 * H
<1>9. /\ L = A - D /\ D <= E /\ A - E \in Nat /\ A \in Nat /\ D \in Nat /\ E \in Nat /\ Q \in Nat
      /\ Q <= D /\ D < Q + H /\ Factor(r) * H = A - Q /\ A <= T /\ T \in Nat
  BY <1>1, <1>3, <1>5, <1>6, <1>7, <1>8, SMT
<1> HIDE DEF L, A, D, E, Q, T
<1>10. L \in Nat /\ L <= T /\ L <= Factor(r) * H /\ Factor(r) * H <= L + H
  BY <1>1, <1>9, SMT
<1> QED BY <1>4, <1>10 DEF L, T, H, i, x

\* A number has one quotient and one rest.
\* A number lies between one multiple of H and the next only once.
LEMMA OneQuotient ==
  ASSUME NEW H \in Nat \ {0}, NEW m \in Nat, NEW k \in Nat, NEW y \in Nat, NEW x \in Nat,
         y < H, x < H, m * H + y = k * H + x
  PROVE  m = k /\ y = x
<1>1. ASSUME NEW a \in Nat, NEW b \in Nat, a < b
      PROVE  a * H + H <= b * H /\ a * H \in Nat /\ b * H \in Nat
  <2>1. (a + 1) * H <= b * H
    <3>1. a + 1 <= b /\ H <= H /\ a + 1 \in Nat
      BY <1>1
    <3> QED BY <3>1, TimesGrows
  <2> QED BY <2>1
<1>2. m * H \in Nat /\ k * H \in Nat
  OBVIOUS
<1>3. ~(m < k)
  <2> SUFFICES ASSUME m < k PROVE FALSE
    OBVIOUS
  <2>1. m * H + H <= k * H
    BY <1>1
  <2> QED BY <1>2, <2>1
<1>4. ~(k < m)
  <2> SUFFICES ASSUME k < m PROVE FALSE
    OBVIOUS
  <2>1. k * H + H <= m * H
    BY <1>1
  <2> QED BY <1>2, <2>1
<1>5. m = k
  BY <1>3, <1>4
<1> QED BY <1>2, <1>5

\* The factor of two half-lives, doubled in the first.
ReadOn(x) ==
  IF x < PENALTY_HALF_LIFE_SECS THEN 2 * Factor(x) ELSE Factor(x - PENALTY_HALF_LIFE_SECS)

\* The factor of the whole time is its line, rounded up twice over.
LEMMA ReadOnLine ==
  ASSUME NEW r \in Rests, NEW t \in Rests
  PROVE  LET H == PENALTY_HALF_LIFE_SECS
             X == OnLine(Step(r) + Step(t), Within(r) + Within(t))
         IN  /\ ReadOn(r + t) \in Nat /\ X \in Nat
             /\ X <= ReadOn(r + t) * H /\ ReadOn(r + t) * H <= X + 2 * H
<1> DEFINE H == PENALTY_HALF_LIFE_SECS
           i == Step(r)
           j == Step(t)
           u == Within(r)
           w == Within(t)
           X == OnLine(i + j, u + w)
           G == ReadOn(r + t)
<1>1. /\ H \in Nat \ {0} /\ i \in 0..7 /\ j \in 0..7 /\ u \in Nat /\ u < H /\ w \in Nat /\ w < H
      /\ r \in Nat /\ t \in Nat /\ r < H /\ t < H
  BY Units, StepBounds DEF Rests
<1>2. u = r * 8 - i * H /\ w = t * 8 - j * H
  BY StepBounds
<1>3. /\ u + w < H => X = ExtLine(i + j, u + w)
      /\ ~(u + w < H) => X = ExtLine(i + j + 1, (u + w) - H)
  <2> DEFINE k == i + j
             x == u + w
  <2>1. X = OnLine(k, x)
    OBVIOUS
  <2> HIDE DEF k, x, X
  <2>2. /\ x < H => X = ExtLine(k, x)
        /\ ~(x < H) => X = ExtLine(k + 1, x - H)
    BY <2>1, Zenon DEF OnLine
  <2> QED BY <2>2, Zenon DEF k, x
<1> HIDE DEF X
\* The row and the place in it of the sum.
<1>4. ASSUME NEW K \in Nat, NEW x \in Nat, x < H, (r + t) * 8 = K * H + x
      PROVE  X = ExtLine(K, x)
  <2> HIDE DEF H, i, j, u, w
  <2>0. i * H \in Nat /\ j * H \in Nat /\ (i + j) * H = i * H + j * H /\ (i + j) * H \in Nat
    BY <1>1
  <2>1. (i + j) * H + (u + w) = K * H + x
    BY <1>1, <1>2, <1>4, <2>0
  <2>2. CASE u + w < H
    <3>1. i + j = K /\ u + w = x
      <4> DEFINE m == i + j
                 y == u + w
      <4>1. m \in Nat /\ y \in Nat /\ y < H /\ m * H + y = K * H + x
        BY <1>1, <2>1, <2>2
      <4> HIDE DEF m, y
      <4>2. m = K /\ y = x
        BY <1>1, <1>4, <4>1, OneQuotient
      <4> QED BY <4>2 DEF m, y
    <3> QED BY <1>3, <2>2, <3>1
  <2>3. CASE ~(u + w < H)
    <3>1. i + j + 1 = K /\ (u + w) - H = x
      <4> DEFINE m == i + j + 1
                 y == (u + w) - H
      <4>1. m \in Nat /\ y \in Nat /\ y < H /\ m * H + y = K * H + x
        <5>1. m * H = (i + j) * H + H
          BY <1>1
        <5> HIDE DEF m
        <5> QED BY <1>1, <2>0, <2>1, <2>3, <5>1 DEF m
      <4> HIDE DEF m, y
      <4>2. m = K /\ y = x
        BY <1>1, <1>4, <4>1, OneQuotient
      <4> QED BY <4>2 DEF m, y
    <3> QED BY <1>3, <2>3, <3>1
  <2> QED BY <2>2, <2>3
\* A row of the factor, and the same row read on.
<1>5. ASSUME NEW k \in 0..7, NEW x
      PROVE  /\ Ext(k) = 2 * Half(k + 1) /\ ExtDrop(k) = 2 * Drop(k)
             /\ Ext(k + 8) = Half(k + 1) /\ ExtDrop(k + 8) = Drop(k)
             /\ Half(k + 1) \in Nat /\ Drop(k) \in Nat
  <2>1. k = 0 \/ k = 1 \/ k = 2 \/ k = 3 \/ k = 4 \/ k = 5 \/ k = 6 \/ k = 7
    OBVIOUS
  <2> QED BY <2>1, RowValues, ExtValues, SMT DEF ExtDrop, Drop
<1>6. CASE r + t < H
  <2> DEFINE y == r + t
             k == Step(y)
             x == Within(y)
             L == Line(k, x)
  <2>1. y \in Rests
    BY <1>1, <1>6 DEF Rests
  <2>2. /\ Factor(y) \in Nat /\ L \in Nat /\ L <= Factor(y) * H /\ Factor(y) * H <= L + H
    <3> HIDE DEF y
    <3> QED BY <2>1, FactorOnLine
  <2>3. k \in 0..7 /\ x \in Nat /\ x < H /\ x = y * 8 - k * H
    <3> HIDE DEF y
    <3> QED BY <1>1, <2>1, StepBounds DEF Rests
  <2>4. G = 2 * Factor(y)
    BY <1>6 DEF ReadOn
  <2>5. X = ExtLine(k, x)
    <3>1. (r + t) * 8 = k * H + x
      <4> HIDE DEF k, x, H
      <4>1. k * H \in Nat
        BY <1>1, <2>3
      <4> QED BY <1>1, <2>3, <4>1
    <3> HIDE DEF k, x, H
    <3> QED BY <1>4, <2>3, <3>1
  <2>6. X = 2 * L
    <3> HIDE DEF k, x
    <3>1. /\ Ext(k) = 2 * Half(k + 1) /\ ExtDrop(k) = 2 * Drop(k)
          /\ Half(k + 1) \in Nat /\ Drop(k) \in Nat
      BY <1>5, <2>3
    <3> QED BY <1>1, <2>3, <2>5, <3>1 DEF ExtLine, Line, H
  <2> HIDE DEF L, y, G, H
  <2> DEFINE F == Factor(y) * H
  <2>7. G \in Nat /\ G * H = 2 * F /\ F \in Nat
    BY <1>1, <2>2, <2>4
  <2>8. F <= L + H /\ L <= F
    BY <2>2
  <2> HIDE DEF F
  <2>9. G \in Nat /\ X \in Nat /\ X <= G * H /\ G * H <= X + 2 * H
    BY <1>1, <2>2, <2>6, <2>7, <2>8
  <2> QED BY <2>9 DEF G, X, H, i, j, u, w
<1>7. CASE ~(r + t < H)
  <2> DEFINE y == (r + t) - H
             k == Step(y)
             x == Within(y)
             L == Line(k, x)
  <2>1. y \in Rests
    BY <1>1, <1>7 DEF Rests
  <2>2. /\ Factor(y) \in Nat /\ L \in Nat /\ L <= Factor(y) * H /\ Factor(y) * H <= L + H
    <3> HIDE DEF y
    <3> QED BY <2>1, FactorOnLine
  <2>3. k \in 0..7 /\ x \in Nat /\ x < H /\ x = y * 8 - k * H
    <3> HIDE DEF y
    <3> QED BY <1>1, <2>1, StepBounds DEF Rests
  <2>4. G = Factor(y)
    BY <1>7 DEF ReadOn
  <2>5. X = ExtLine(k + 8, x)
    <3>1. (r + t) * 8 = (k + 8) * H + x /\ k + 8 \in Nat
      <4> HIDE DEF k, x, H
      <4>1. k * H \in Nat /\ (k + 8) * H = k * H + 8 * H
        BY <1>1, <2>3
      <4> QED BY <1>1, <2>3, <4>1
    <3> HIDE DEF k, x, H
    <3> QED BY <1>4, <2>3, <3>1
  <2>6. X = L
    <3> HIDE DEF k, x
    <3>1. Ext(k + 8) = Half(k + 1) /\ ExtDrop(k + 8) = Drop(k)
      BY <1>5, <2>3
    <3> QED BY <2>5, <3>1, Zenon DEF ExtLine, Line
  <2> HIDE DEF L, y, G, H
  <2>7. G \in Nat /\ X \in Nat /\ X <= G * H /\ G * H <= X + 2 * H
    <3> DEFINE F == Factor(y) * H
    <3>1. F \in Nat /\ G * H = F /\ L <= F /\ F <= L + H
      BY <1>1, <2>2, <2>4
    <3> HIDE DEF F
    <3> QED BY <1>1, <2>2, <2>4, <2>6, <3>1
  <2> QED BY <2>7 DEF G, X, H, i, j, u, w
<1> QED BY <1>6, <1>7

\* Within a thousandth: 40 parts in a million below, 400 above.
Near(x) == x \in Int /\ -40000 <= x /\ x <= 400000

\* F times H is L rounded up, and G times H is X.
Rounds(F, L, H) ==
  F \in Nat /\ L \in Nat /\ L <= 10000 * H /\ L <= F * H /\ F * H <= L + H
RoundsOn(G, X, H) ==
  G \in Nat /\ X \in Nat /\ X <= G * H /\ G * H <= X + 2 * H

\* Rounding two lines and the one they are compared with changes little.
LEMMA RoundedLines ==
  ASSUME NEW H \in Nat \ {0}, NEW L, NEW M, NEW X, NEW A, NEW C, NEW G,
         Rounds(A, L, H), Rounds(C, M, H), RoundsOn(G, X, H),
         Within354868(Miss(L * M, H * X), H)
  PROVE  Near(Miss(A * C, G))
<1>0. /\ L \in Nat /\ M \in Nat /\ X \in Nat /\ A \in Nat /\ C \in Nat /\ G \in Nat
      /\ L <= 10000 * H /\ M <= 10000 * H
      /\ L <= A * H /\ A * H <= L + H /\ M <= C * H /\ C * H <= M + H
      /\ X <= G * H /\ G * H <= X + 2 * H
  BY SMT DEF Rounds, RoundsOn
<1> DEFINE a == A * H
           c == C * H
           g == G * H
           S == H * H
           lm == L * M
           hx == H * X
           ac == a * c
           hg == H * g
<1>1. a \in Nat /\ c \in Nat /\ g \in Nat /\ S \in Nat /\ lm \in Nat /\ hx \in Nat
  BY <1>0
<1>2. lm <= ac /\ ac \in Nat
  <2> HIDE DEF a, c
  <2> QED BY <1>0, <1>1, TimesGrows DEF a, c
<1>3. ac <= lm + 20001 * S
  <2>1. ac <= (L + H) * (M + H)
    <3> DEFINE x == L + H
               y == M + H
    <3>1. x \in Nat /\ y \in Nat /\ a <= x /\ c <= y
      BY <1>0
    <3> HIDE DEF a, c, x, y
    <3>2. a * c <= x * y
      BY <1>1, <3>1, TimesGrows
    <3> QED BY <3>2 DEF x, y
  <2>2. (L + H) * (M + H) = lm + L * H + M * H + S
    BY <1>0
  <2>3. L * H <= 10000 * S /\ M * H <= 10000 * S /\ L * H \in Nat /\ M * H \in Nat
    <3> DEFINE T == 10000 * H
    <3>1. T \in Nat /\ T * H = 10000 * S /\ L <= T /\ M <= T /\ H <= H
      BY <1>0, SMT
    <3> HIDE DEF T, S
    <3>2. L * H <= T * H /\ M * H <= T * H /\ L * H \in Nat /\ M * H \in Nat
      BY <1>0, <3>1, TimesGrows
    <3> QED BY <3>1, <3>2, SMT
  <2> DEFINE x == L * H
             y == M * H
  <2>4. /\ ac <= lm + x + y + S /\ x <= 10000 * S /\ y <= 10000 * S /\ x \in Nat /\ y \in Nat
    BY <2>1, <2>2, <2>3
  <2> HIDE DEF ac, lm, S, x, y
  <2> QED BY <1>1, <1>2, <2>4, SMT
<1>4. hx <= hg /\ hg <= hx + 2 * S /\ hg \in Nat
  <2>1. hx <= hg /\ hg \in Nat
    <3> HIDE DEF g
    <3> QED BY <1>0, <1>1, TimesGrows DEF g
  <2>2. hg <= H * (X + 2 * H)
    <3> DEFINE x == X + 2 * H
    <3>1. x \in Nat /\ g <= x /\ H <= H
      BY <1>0
    <3> HIDE DEF g, x
    <3>2. H * g <= H * x
      BY <1>1, <3>1, TimesGrows
    <3> QED BY <3>2 DEF x
  <2>3. H * (X + 2 * H) = hx + 2 * S
    BY <1>0
  <2> QED BY <2>1, <2>2, <2>3
<1>5. Miss(A * C, G) * S = 2 * ac - 10000 * hg
  <2>1. ac = (A * C) * S /\ hg = G * S
    BY <1>0
  <2>2. (2 * (A * C) - 10000 * G) * S = 2 * ((A * C) * S) - 10000 * (G * S)
    BY <1>0, SMT
  <2> HIDE DEF ac, hg, S
  <2> QED BY <2>1, <2>2 DEF Miss
<1>6. 2 * lm - 10000 * hx >= -12088 * S /\ 2 * lm - 10000 * hx <= 354868 * S
  BY SMT DEF Within354868, Miss
<1> DEFINE q == Miss(A * C, G)
<1>7. q \in Int
  BY <1>0, SMT DEF Miss
<1>8. S \in Nat \ {0}
  BY <1>0
<1>9. -40000 * S <= q * S /\ q * S <= 400000 * S
  <2> HIDE DEF ac, hg, S, lm, hx, q
  <2>1. q * S = 2 * ac - 10000 * hg
    BY <1>5 DEF q
  <2> QED BY <1>1, <1>2, <1>3, <1>4, <1>6, <1>8, <2>1, SMT
<1> HIDE DEF S, q
<1>10. -40000 <= q /\ q <= 400000
  <2>1. ASSUME NEW m \in Int, NEW n \in Int, m < n PROVE m * S < n * S
    <3>1. (n - m) \in Nat \ {0} /\ (n - m) * S \in Nat \ {0}
      BY <1>8, <2>1
    <3>2. (n - m) * S = n * S - m * S
      BY <1>8
    <3> QED BY <1>8, <3>1, <3>2
  <2> DEFINE lo == -40000
             hi == 400000
  <2>2. lo \in Int /\ hi \in Int /\ lo * S <= q * S /\ q * S <= hi * S
        /\ lo * S \in Int /\ hi * S \in Int /\ q * S \in Int
    BY <1>7, <1>8, <1>9, SMT
  <2> HIDE DEF lo, hi
  <2>3. ~(q < lo)
    <3> SUFFICES ASSUME q < lo PROVE FALSE
      OBVIOUS
    <3>1. q * S < lo * S
      BY <1>7, <2>1, <2>2
    <3> QED BY <2>2, <3>1
  <2>4. ~(hi < q)
    <3> SUFFICES ASSUME hi < q PROVE FALSE
      OBVIOUS
    <3>1. hi * S < q * S
      BY <1>7, <2>1, <2>2
    <3> QED BY <2>2, <3>1
  <2> QED BY <1>7, <2>2, <2>3, <2>4, SMT DEF lo, hi
<1> QED BY <1>7, <1>10, SMT DEF Near, q

\* Two factors one after the other are the factor of the whole time.
LEMMA FactorsMultiply ==
  ASSUME NEW r \in Rests, NEW t \in Rests
  PROVE  Near(Miss(Factor(r) * Factor(t), ReadOn(r + t)))
<1> DEFINE H == PENALTY_HALF_LIFE_SECS
           L == Line(Step(r), Within(r))
           M == Line(Step(t), Within(t))
           X == OnLine(Step(r) + Step(t), Within(r) + Within(t))
           A == Factor(r)
           C == Factor(t)
           G == ReadOn(r + t)
<1>1. H \in Nat \ {0}
  BY Units
<1>2. A \in Nat /\ L \in Nat /\ L <= 10000 * H /\ L <= A * H /\ A * H <= L + H
  BY FactorOnLine
<1>3. C \in Nat /\ M \in Nat /\ M <= 10000 * H /\ M <= C * H /\ C * H <= M + H
  BY FactorOnLine
<1>4. G \in Nat /\ X \in Nat /\ X <= G * H /\ G * H <= X + 2 * H
  BY ReadOnLine
<1>5. Within354868(Miss(L * M, H * X), H)
  BY StepBounds, LinesMultiply
<1> HIDE DEF H, L, M, X, A, C, G
<1>6. Rounds(A, L, H) /\ Rounds(C, M, H) /\ RoundsOn(G, X, H)
  BY <1>2, <1>3, <1>4, SMT DEF Rounds, RoundsOn
<1>7. Near(Miss(A * C, G))
  BY <1>1, <1>5, <1>6, RoundedLines
<1> QED BY <1>7 DEF A, C, G

\* Each power of two is twice the one before.
LEMMA PowDoubles == \A n \in 0..29 : Pow(n + 1) = 2 * Pow(n)
<1>1. \A i \in 1..30 : Powers[i + 1] = 2 * Powers[i]
  BY SMT DEF Powers
<1> SUFFICES ASSUME NEW n \in 0..29 PROVE Pow(n + 1) = 2 * Pow(n)
  OBVIOUS
<1> DEFINE m == n + 1
<1>2. m \in 1..30 /\ m \in 0..30 /\ n \in 0..30
  OBVIOUS
<1>3. Pow(n) = Powers[m]
  BY <1>2, PowerIsPowers
<1> HIDE DEF m
<1>4. Pow(m) = Powers[m + 1]
  BY <1>2, PowerIsPowers
<1>5. Pow(m) = 2 * Pow(n)
  BY <1>1, <1>2, <1>3, <1>4
<1> QED BY <1>5 DEF m

\* What ShiftRight divides by in all: 2^n.
Scale(n) ==
  (Pow(Smaller(n, 30)) * Pow(Smaller(SatSub(n, 30), 30))) * Pow(SatSub(n, 60))

\* Each further halving divides by two.
LEMMA ScaleDoubles ==
  /\ Scale(0) = 1
  /\ \A n \in 0..63 : Scale(n) \in Nat \ {0}
  /\ \A n \in 0..62 : Scale(n + 1) = 2 * Scale(n)
<1> DEFINE a(n) == Smaller(n, 30)
           b(n) == Smaller(SatSub(n, 30), 30)
           c(n) == SatSub(n, 60)
<1>1. \A n \in 0..63 : a(n) \in 0..30 /\ b(n) \in 0..30 /\ c(n) \in 0..3
  BY SMT DEF Smaller, SatSub
<1>2. a(0) = 0 /\ b(0) = 0 /\ c(0) = 0
  BY SMT DEF Smaller, SatSub
<1>3. \A n \in 0..62 :
        \/ a(n) \in 0..29 /\ a(n + 1) = a(n) + 1 /\ b(n + 1) = b(n) /\ c(n + 1) = c(n)
        \/ b(n) \in 0..29 /\ a(n + 1) = a(n) /\ b(n + 1) = b(n) + 1 /\ c(n + 1) = c(n)
        \/ c(n) \in 0..29 /\ a(n + 1) = a(n) /\ b(n + 1) = b(n) /\ c(n + 1) = c(n) + 1
  BY SMT DEF Smaller, SatSub
<1>4. \A n : Scale(n) = (Pow(a(n)) * Pow(b(n))) * Pow(c(n))
  BY DEF Scale
<1> HIDE DEF a, b, c
<1>5. \A n \in 0..63 : Pow(a(n)) \in Nat \ {0} /\ Pow(b(n)) \in Nat \ {0} /\ Pow(c(n)) \in Nat \ {0}
  <2> SUFFICES ASSUME NEW n \in 0..63
               PROVE  Pow(a(n)) \in Nat \ {0} /\ Pow(b(n)) \in Nat \ {0} /\ Pow(c(n)) \in Nat \ {0}
    OBVIOUS
  <2>1. a(n) \in 0..30 /\ b(n) \in 0..30 /\ c(n) \in 0..30
    BY <1>1, SMT
  <2> QED BY <2>1, PowersGrow
<1>6. Scale(0) = 1
  <2>1. Pow(0) = 1
    BY DEF Pow
  <2> QED BY <1>2, <1>4, <2>1
<1>7. ASSUME NEW n \in 0..63 PROVE Scale(n) \in Nat \ {0}
  <2> DEFINE x == Pow(a(n))
             y == Pow(b(n))
             z == Pow(c(n))
  <2>1. x \in Nat \ {0} /\ y \in Nat \ {0} /\ z \in Nat \ {0} /\ Scale(n) = (x * y) * z
    BY <1>4, <1>5
  <2> HIDE DEF x, y, z
  <2>2. x * y \in Nat \ {0}
    BY <2>1
  <2>3. (x * y) * z \in Nat \ {0}
    BY <2>1, <2>2
  <2> QED BY <2>1, <2>3
<1>8. ASSUME NEW n \in 0..62 PROVE Scale(n + 1) = 2 * Scale(n)
  <2> DEFINE x == Pow(a(n))
             y == Pow(b(n))
             z == Pow(c(n))
  <2>1. x \in Nat /\ y \in Nat /\ z \in Nat /\ Scale(n) = (x * y) * z
    <3>1. n \in 0..63
      BY SMT
    <3> QED BY <1>4, <1>5, <3>1
  <2>2. \/ Scale(n + 1) = ((2 * x) * y) * z
        \/ Scale(n + 1) = (x * (2 * y)) * z
        \/ Scale(n + 1) = (x * y) * (2 * z)
    <3>1. Scale(n + 1) = (Pow(a(n + 1)) * Pow(b(n + 1))) * Pow(c(n + 1))
      BY <1>4
    <3>2. CASE a(n) \in 0..29 /\ a(n + 1) = a(n) + 1 /\ b(n + 1) = b(n) /\ c(n + 1) = c(n)
      <4>1. Pow(a(n) + 1) = 2 * x
        BY <3>2, PowDoubles
      <4> QED BY <3>1, <3>2, <4>1
    <3>3. CASE b(n) \in 0..29 /\ a(n + 1) = a(n) /\ b(n + 1) = b(n) + 1 /\ c(n + 1) = c(n)
      <4>1. Pow(b(n) + 1) = 2 * y
        BY <3>3, PowDoubles
      <4> QED BY <3>1, <3>3, <4>1
    <3>4. CASE c(n) \in 0..29 /\ a(n + 1) = a(n) /\ b(n + 1) = b(n) /\ c(n + 1) = c(n) + 1
      <4>1. Pow(c(n) + 1) = 2 * z
        BY <3>4, PowDoubles
      <4> QED BY <3>1, <3>4, <4>1
    <3> QED BY <1>3, <3>2, <3>3, <3>4
  <2> HIDE DEF x, y, z
  <2>3. /\ ((2 * x) * y) * z = 2 * ((x * y) * z) /\ (x * (2 * y)) * z = 2 * ((x * y) * z)
        /\ (x * y) * (2 * z) = 2 * ((x * y) * z)
    BY <2>1
  <2> QED BY <2>1, <2>2, <2>3
<1> QED BY <1>6, <1>7, <1>8

\* Halving m times and then n times divides by the product.
LEMMA ScaleAdds ==
  ASSUME NEW m \in 0..63, NEW n \in 0..63, m + n <= 63
  PROVE  Scale(m + n) = Scale(m) * Scale(n)
<1> DEFINE Good == {k \in Nat : m + k <= 63 => Scale(m + k) = Scale(m) * Scale(k)}
<1>0. Scale(m) \in Nat
  BY ScaleDoubles
<1>1. 0 \in Good
  <2>1. m + 0 = m /\ Scale(m) * 1 = Scale(m)
    BY <1>0
  <2> QED BY <2>1, ScaleDoubles
<1>2. \A k \in Nat : k \in Good => k + 1 \in Good
  <2> SUFFICES ASSUME NEW k \in Nat, k \in Good, m + (k + 1) <= 63
               PROVE  Scale(m + (k + 1)) = Scale(m) * Scale(k + 1)
    OBVIOUS
  <2>1. m + k \in 0..62 /\ k \in 0..62 /\ m + k <= 63 /\ m + (k + 1) = (m + k) + 1 /\ k \in 0..63
    OBVIOUS
  <2>2. Scale(m + k) = Scale(m) * Scale(k)
    BY <2>1
  <2>3. Scale(k + 1) = 2 * Scale(k) /\ Scale(k) \in Nat
    BY <2>1, ScaleDoubles
  <2>4. Scale(m + (k + 1)) = 2 * Scale(m + k)
    <3> DEFINE j == m + k
    <3>1. j \in 0..62 /\ m + (k + 1) = j + 1
      BY <2>1
    <3> HIDE DEF j
    <3>2. Scale(j + 1) = 2 * Scale(j)
      BY <3>1, ScaleDoubles
    <3> QED BY <3>1, <3>2 DEF j
  <2> DEFINE x == Scale(m)
             y == Scale(k)
  <2>5. x \in Nat /\ y \in Nat /\ Scale(m + (k + 1)) = 2 * (x * y) /\ Scale(k + 1) = 2 * y
    BY <1>0, <2>2, <2>3, <2>4
  <2> HIDE DEF x, y
  <2>6. 2 * (x * y) = x * (2 * y)
    BY <2>5
  <2> QED BY <2>5, <2>6 DEF x
<1>3. Nat \subseteq Good
  <2> HIDE DEF Good
  <2> QED BY <1>1, <1>2, NaturalInduction
<1> QED BY <1>3

\* A quotient of a quotient.
LEMMA DivTwice ==
  ASSUME NEW v \in Nat, NEW x \in Nat \ {0}, NEW y \in Nat \ {0}, NEW q \in Nat, NEW s \in Nat,
         q * x <= v, v < q * x + x, s * y <= q, q < s * y + y
  PROVE  x * y \in Nat \ {0} /\ s * (x * y) <= v /\ v < s * (x * y) + x * y
<1>1. x * y \in Nat \ {0}
  OBVIOUS
<1>2. (s * y) * x <= q * x /\ (s * y) * x \in Nat /\ q * x \in Nat
  <2> DEFINE z == s * y
  <2>1. z \in Nat /\ z <= q /\ x <= x
    OBVIOUS
  <2> HIDE DEF z
  <2> QED BY <2>1, TimesGrows DEF z
<1>3. (s * y) * x = s * (x * y)
  OBVIOUS
<1>4. (q + 1) * x <= (s * y + y) * x
  <2> DEFINE z == s * y + y
  <2>1. z \in Nat /\ q + 1 <= z /\ x <= x /\ q + 1 \in Nat
    OBVIOUS
  <2> HIDE DEF z
  <2>2. (q + 1) * x <= z * x
    BY <2>1, TimesGrows
  <2> QED BY <2>2 DEF z
<1>5. (s * y + y) * x = s * (x * y) + x * y /\ (q + 1) * x = q * x + x
  OBVIOUS
<1> DEFINE A == s * (x * y)
           B == x * y
           C == q * x
<1>6. A <= C /\ C + x <= A + B /\ A \in Nat /\ B \in Nat /\ C \in Nat /\ C <= v /\ v < C + x
  BY <1>1, <1>2, <1>3, <1>4, <1>5
<1> HIDE DEF A, B, C
<1>7. A <= v /\ v < A + B
  BY <1>6
<1> QED BY <1>1, <1>7 DEF A, B

\* A shift is the quotient by that, whatever the steps it is taken in.
LEMMA ShiftScales ==
  ASSUME NEW v \in Nat, NEW n \in 0..63
  PROVE  LET s == ShiftRight(v, n)
         IN  s \in Nat /\ s * Scale(n) <= v /\ v < s * Scale(n) + Scale(n)
<1> DEFINE a == Pow(Smaller(n, 30))
           b == Pow(Smaller(SatSub(n, 30), 30))
           c == Pow(SatSub(n, 60))
           p == v \div a
           q == p \div b
           s == q \div c
<1>1. a \in Nat \ {0} /\ b \in Nat \ {0} /\ c \in Nat \ {0}
  <2>1. /\ Smaller(n, 30) \in 0..30 /\ Smaller(SatSub(n, 30), 30) \in 0..30
        /\ SatSub(n, 60) \in 0..30
    BY SMT DEF Smaller, SatSub
  <2> QED BY <2>1, PowersGrow
<1>2. ShiftRight(v, n) = s /\ Scale(n) = (a * b) * c
  BY DEF ShiftRight, Scale, Pow
<1> HIDE DEF a, b, c
<1>3. p \in Nat /\ p * a <= v /\ v < p * a + a
  BY <1>1, DivBounds
<1> HIDE DEF p
<1>4. q \in Nat /\ q * b <= p /\ p < q * b + b
  BY <1>1, <1>3, DivBounds
<1> HIDE DEF q
<1>5. s \in Nat /\ s * c <= q /\ q < s * c + c
  BY <1>1, <1>4, DivBounds
<1> HIDE DEF s
<1>6. a * b \in Nat \ {0} /\ q * (a * b) <= v /\ v < q * (a * b) + a * b
  BY <1>1, <1>3, <1>4, DivTwice
<1> DEFINE d == a * b
<1>7. d \in Nat \ {0} /\ q * d <= v /\ v < q * d + d
  BY <1>6
<1> HIDE DEF d
<1>8. s * (d * c) <= v /\ v < s * (d * c) + d * c
  BY <1>1, <1>4, <1>5, <1>7, DivTwice
<1> QED BY <1>2, <1>5, <1>8 DEF d

\* What is left of v after a time.
Remains(v, e) == IF Halvings(e) >= 64 THEN 0 ELSE Faded(v, e)

\* X is y / k, but for two roundings.
Rounded(X, k, y) == X \in Nat /\ X * k <= y /\ y < X * k + 2 * k

\* Halving, then taking the factor, is the quotient by the whole scale but for one
\* rounding of each.
LEMMA FadedScales ==
  ASSUME NEW v \in Nat, NEW h \in 0..63, NEW f, AtLeastHalf(f)
  PROVE  Rounded((ShiftRight(v, h) * f) \div BPS, 10000 * Scale(h), v * f)
<1> DEFINE s == ShiftRight(v, h)
           p == Scale(h)
           B == BPS
           X == (s * f) \div B
<1>1. s \in Nat /\ s * p <= v /\ v < s * p + p /\ p \in Nat \ {0}
  BY ShiftScales, ScaleDoubles
<1>2. B \in Nat \ {0} /\ f \in Nat /\ f <= B /\ f # 0
  BY Units, SMT DEF AtLeastHalf
<1> HIDE DEF s, p, B
<1>3. s * f \in Nat
  BY <1>1, <1>2
<1>4. X \in Nat /\ X * B <= s * f /\ s * f < X * B + B
  BY <1>2, <1>3, DivBounds
<1> HIDE DEF X
<1> DEFINE sf == s * f
           sp == s * p
           xb == X * B
           k == B * p
           vf == v * f
           c == sf * p
           d == xb * p
           pf == p * f
<1>5. /\ sf \in Nat /\ sp \in Nat /\ xb \in Nat /\ k \in Nat /\ vf \in Nat /\ c \in Nat /\ d \in Nat
      /\ pf \in Nat
  <2>1. sf \in Nat /\ sp \in Nat /\ xb \in Nat /\ k \in Nat /\ vf \in Nat /\ pf \in Nat
    BY <1>1, <1>2, <1>4
  <2>2. c \in Nat /\ d \in Nat
    <3> HIDE DEF sf, xb
    <3> QED BY <1>1, <2>1
  <2> QED BY <2>1, <2>2
<1>6. d = X * k /\ c = sp * f
  BY <1>1, <1>2, <1>4
<1>7. d <= c
  <2>1. xb <= sf /\ p <= p
    BY <1>1, <1>4
  <2> HIDE DEF xb, sf
  <2> QED BY <1>1, <1>5, <2>1, TimesGrows
<1>8. c <= vf
  <2>1. sp <= v /\ f <= f
    BY <1>1, <1>2
  <2>2. sp * f <= v * f
    <3> HIDE DEF sp
    <3> QED BY <1>2, <1>5, <2>1, TimesGrows
  <2> QED BY <1>6, <2>2
<1>9. vf + f <= c + pf
  <2>1. (v + 1) * f <= (sp + p) * f
    <3> DEFINE x == v + 1
               y == sp + p
    <3>1. x \in Nat /\ y \in Nat /\ x <= y /\ f <= f
      BY <1>1, <1>2, <1>5
    <3> HIDE DEF x, y
    <3>2. x * f <= y * f
      BY <1>2, <3>1, TimesGrows
    <3> QED BY <3>2 DEF x, y
  <2>2. (v + 1) * f = vf + f
    BY <1>2
  <2>3. (sp + p) * f = sp * f + pf
    <3> HIDE DEF sp
    <3> QED BY <1>1, <1>2, <1>5
  <2> QED BY <1>6, <2>1, <2>2, <2>3
<1>10. c + p <= d + k
  <2>1. (sf + 1) * p <= (xb + B) * p
    <3> DEFINE x == sf + 1
               y == xb + B
    <3>1. x \in Nat /\ y \in Nat /\ x <= y /\ p <= p
      BY <1>1, <1>2, <1>4, <1>5
    <3> HIDE DEF x, y
    <3>2. x * p <= y * p
      BY <1>1, <3>1, TimesGrows
    <3> QED BY <3>2 DEF x, y
  <2>2. (sf + 1) * p = c + p /\ (xb + B) * p = d + k
    <3> HIDE DEF sf, xb
    <3> QED BY <1>1, <1>2, <1>5
  <2> QED BY <2>1, <2>2
<1>11. pf <= k
  <2>1. p <= p /\ f <= B
    BY <1>1, <1>2
  <2>2. p * f <= p * B
    BY <1>1, <1>2, <2>1, TimesGrows
  <2> QED BY <1>1, <1>2, <2>2
<1> HIDE DEF c, d, k, vf, pf
<1>12. d <= vf /\ vf < d + 2 * k
  BY <1>2, <1>1, <1>5, <1>7, <1>8, <1>9, <1>10, <1>11
<1>13. Rounded(X, k, vf)
  BY <1>4, <1>6, <1>12 DEF Rounded
<1> QED BY <1>13, Units DEF k, vf, X, s, p, B

\* What is left is that, until the 64th half-life.
LEMMA RemainsScales ==
  ASSUME NEW v \in Nat, NEW e \in Nat, Halvings(e) < 64
  PROVE  Rounded(Remains(v, e), 10000 * Scale(Halvings(e)), v * Factor(Rest(e)))
<1>1. Halvings(e) \in 0..63 /\ Rest(e) \in Rests
  BY ElapsedBounds
<1>2. AtLeastHalf(Factor(Rest(e)))
  BY <1>1, FactorBetween
<1> DEFINE h == Halvings(e)
           f == Factor(Rest(e))
<1>3. Remains(v, e) = (ShiftRight(v, h) * f) \div BPS
  BY <1>1 DEF Remains, Faded
<1> HIDE DEF h, f
<1>4. Rounded((ShiftRight(v, h) * f) \div BPS, 10000 * Scale(h), v * f)
  BY <1>1, <1>2, FadedScales DEF h, f
<1> QED BY <1>3, <1>4 DEF h, f

\* What is left is a natural, and nothing is left of nothing.
LEMMA RemainsNat ==
  ASSUME NEW v \in Nat, NEW e \in Nat
  PROVE  Remains(v, e) \in Nat /\ (v = 0 => Remains(v, e) = 0)
<1>1. Halvings(e) \in Nat
  BY ElapsedBounds
<1>2. CASE Halvings(e) >= 64
  BY <1>2 DEF Remains
<1>3. CASE Halvings(e) < 64
  <2> DEFINE X == Remains(v, e)
             k == 10000 * Scale(Halvings(e))
             f == Factor(Rest(e))
  <2>1. X \in Nat /\ X * k <= v * f
    BY <1>3, RemainsScales DEF Rounded
  <2>2. k \in Nat \ {0} /\ f \in Nat
    <3>1. Halvings(e) \in 0..63 /\ Rest(e) \in Rests
      BY <1>3, ElapsedBounds
    <3>2. Scale(Halvings(e)) \in Nat \ {0}
      BY <3>1, ScaleDoubles
    <3>3. f \in Nat
      BY <3>1, FactorBetween DEF AtLeastHalf
    <3> QED BY <3>2, <3>3, SMT
  <2> HIDE DEF X, k, f
  <2>3. v = 0 => X = 0
    <3> SUFFICES ASSUME v = 0, X >= 1 PROVE FALSE
      BY <2>1
    <3>1. 1 <= X /\ k <= k
      BY <2>2
    <3>2. 1 * k <= X * k
      BY <2>1, <2>2, <3>1, TimesGrows
    <3>3. v * f = 0
      BY <2>2
    <3> QED BY <2>1, <2>2, <3>2, <3>3
  <2> QED BY <2>1, <2>3 DEF X
<1> QED BY <1>1, <1>2, <1>3

\* Two roundings one after the other.
TwoRoundings(X, W, v, f, g, k, l) ==
  /\ v \in Nat /\ f \in Nat /\ g \in Nat /\ k \in Nat /\ l \in Nat /\ g <= l
  /\ Rounded(X, k, v * f) /\ Rounded(W, l, X * g)

\* One quotient after the other is the quotient by the product, rounded twice.
LEMMA RoundedTwice ==
  ASSUME NEW X, NEW W, NEW v, NEW f, NEW g, NEW k, NEW l, TwoRoundings(X, W, v, f, g, k, l)
  PROVE  W * (k * l) <= v * (f * g) /\ v * (f * g) <= (W + 4) * (k * l)
<1>0. v \in Nat /\ f \in Nat /\ g \in Nat /\ k \in Nat /\ l \in Nat /\ g <= l
  BY DEF TwoRoundings
<1>1. X \in Nat /\ X * k <= v * f /\ v * f <= X * k + 2 * k
  BY <1>0 DEF Rounded, TwoRoundings
<1>2. W \in Nat /\ W * l <= X * g /\ X * g <= W * l + 2 * l
  BY <1>0, <1>1 DEF Rounded, TwoRoundings
<1> DEFINE vf == v * f
           xk == X * k
           xg == X * g
           wl == W * l
           kl == k * l
           y == v * (f * g)
           xkg == xk * g
           kg == k * g
           wlk == wl * k
<1>3. /\ vf \in Nat /\ xk \in Nat /\ xg \in Nat /\ wl \in Nat /\ kl \in Nat /\ y \in Nat
      /\ kg \in Nat
  <2>1. f * g \in Nat
    BY <1>0
  <2> QED BY <1>0, <1>1, <1>2, <2>1
<1>4. xkg \in Nat /\ wlk \in Nat /\ y = vf * g /\ xkg = xg * k /\ wlk = W * kl
  <2>1. xkg \in Nat /\ wlk \in Nat
    <3> HIDE DEF xk, wl
    <3> QED BY <1>0, <1>3
  <2> QED BY <1>0, <1>1, <1>2, <2>1
<1>5. xkg <= y
  <2>1. g <= g /\ xk <= vf
    BY <1>0, <1>1
  <2> HIDE DEF xk, vf
  <2>2. xk * g <= vf * g
    BY <1>0, <1>3, <2>1, TimesGrows
  <2> QED BY <1>0, <1>4, <2>2
<1>6. wlk <= xkg
  <2>1. k <= k /\ wl <= xg
    BY <1>0, <1>2
  <2> HIDE DEF wl, xg
  <2>2. wl * k <= xg * k
    BY <1>0, <1>3, <2>1, TimesGrows
  <2> QED BY <1>0, <1>4, <2>2
<1>7. y <= xkg + 2 * kg
  <2> DEFINE x == xk + 2 * k
  <2>1. x \in Nat /\ vf <= x /\ g <= g
    BY <1>0, <1>1, <1>3
  <2> HIDE DEF x, vf
  <2>2. vf * g <= x * g
    BY <1>0, <1>3, <2>1, TimesGrows
  <2>3. x * g = xkg + 2 * kg
    <3> HIDE DEF xk
    <3> QED BY <1>0, <1>3 DEF x
  <2> QED BY <1>0, <1>4, <2>2, <2>3
<1>8. xkg <= wlk + 2 * kl
  <2> DEFINE x == wl + 2 * l
  <2>1. x \in Nat /\ xg <= x /\ k <= k
    BY <1>0, <1>2, <1>3
  <2> HIDE DEF x, xg
  <2>2. xg * k <= x * k
    BY <1>0, <1>3, <2>1, TimesGrows
  <2>3. x * k = wlk + 2 * kl
    <3> HIDE DEF wl
    <3> QED BY <1>0, <1>3 DEF x
  <2> QED BY <1>0, <1>4, <2>2, <2>3
<1>9. kg <= kl
  <2>1. k <= k
    BY <1>0
  <2> QED BY <1>0, <2>1, TimesGrows
<1>10. (W + 4) * kl = wlk + 4 * kl
  <2> HIDE DEF kl
  <2> QED BY <1>0, <1>2, <1>3, <1>4
<1> HIDE DEF kl, y, xkg, kg, wlk
<1>11. W * kl <= y /\ y <= (W + 4) * kl
  BY <1>0, <1>3, <1>4, <1>5, <1>6, <1>7, <1>8, <1>9, <1>10
<1> QED BY <1>0, <1>2, <1>3, <1>11 DEF kl, y

\* What is left after two steps, and after one of the same length.
Close(W, Z, v) ==
  /\ W \in Nat /\ Z \in Nat
  /\ 10000 * W <= 10000 * Z + 20 * v + 20000
  /\ 10000 * Z <= 10000 * W + 20 * v + 40000

\* A multiple of a large number is large.
LEMMA LargeFactor ==
  ASSUME NEW a \in Int, NEW T \in Nat, T >= 200000000, NEW v \in Nat, a * T <= 400000 * v
  PROVE  10000 * a <= 20 * v
<1>1. CASE a <= 0
  BY <1>1, SMT
<1>2. CASE a >= 1
  <2> DEFINE n == 200000000
  <2>1. n \in Nat /\ n <= T /\ a \in Nat /\ a <= a
    BY <1>2, SMT
  <2> HIDE DEF n
  <2>2. a * n <= a * T
    BY <2>1, TimesGrows
  <2>3. a * n = 200000000 * a
    BY SMT DEF n
  <2> DEFINE x == a * T
  <2>4. x \in Int /\ 200000000 * a <= x /\ x <= 400000 * v
    BY <2>2, <2>3
  <2> HIDE DEF x
  <2> QED BY <2>1, <2>4, SMT
<1> QED BY <1>1, <1>2

TwoStepsAndOne(v, F, G, W, P, Z, K) ==
  /\ v \in Nat /\ F \in Nat /\ G \in Nat /\ Near(Miss(F, G))
  /\ W \in Nat /\ P \in Nat /\ W * P <= v * F /\ v * F <= (W + 4) * P
  /\ Z \in Nat /\ K \in Nat /\ K >= 20000 /\ Z * K <= v * G /\ v * G <= (Z + 2) * K
  /\ 2 * P = 10000 * K

\* What the two steps and the one leave, from factors that nearly multiply.
LEMMA StepsCompare ==
  ASSUME NEW v, NEW F, NEW G, NEW W, NEW P, NEW Z, NEW K, TwoStepsAndOne(v, F, G, W, P, Z, K)
  PROVE  Close(W, Z, v)
<1> SUFFICES ASSUME v \in Nat, F \in Nat, G \in Nat, Near(Miss(F, G)),
                    W \in Nat, P \in Nat, W * P <= v * F, v * F <= (W + 4) * P,
                    Z \in Nat, K \in Nat, K >= 20000, Z * K <= v * G, v * G <= (Z + 2) * K,
                    2 * P = 10000 * K
             PROVE  Close(W, Z, v)
  BY SMT DEF TwoStepsAndOne
<1> DEFINE T == 10000 * K
           q == Miss(F, G)
           vf == v * F
           vg == v * G
           vq == v * q
           wp == W * P
           zk == Z * K
           wt == W * T
           zt == Z * T
<1>1. q \in Int /\ -40000 <= q /\ q <= 400000
  BY SMT DEF Near
<1>2. /\ T \in Nat /\ T >= 200000000 /\ vf \in Nat /\ vg \in Nat /\ wp \in Nat /\ zk \in Nat
      /\ T = 2 * P
  BY SMT
<1>3. vq = 2 * vf - 10000 * vg /\ vq \in Int
  <2>1. v * (2 * F - 10000 * G) = 2 * (v * F) - 10000 * (v * G)
    BY SMT
  <2> QED BY <1>1, <2>1, SMT DEF Miss
<1>4. -40000 * v <= vq /\ vq <= 400000 * v
  <2> HIDE DEF q
  <2>1. q + 40000 \in Nat /\ 400000 - q \in Nat
    BY <1>1, SMT
  <2>2. v * (q + 40000) \in Nat /\ v * (400000 - q) \in Nat
    <3> DEFINE x == q + 40000
               y == 400000 - q
    <3>1. x \in Nat /\ y \in Nat
      BY <2>1
    <3> HIDE DEF x, y
    <3>2. v * x \in Nat /\ v * y \in Nat
      BY <3>1
    <3> QED BY <3>2 DEF x, y
  <2>3. v * (q + 40000) = vq + 40000 * v /\ v * (400000 - q) = 400000 * v - vq
    BY <1>1, SMT
  <2> HIDE DEF vq
  <2> QED BY <1>3, <2>2, <2>3, SMT
<1>5. /\ wt = 2 * wp /\ zt = 10000 * zk /\ wt \in Nat /\ zt \in Nat
      /\ (W + 4) * P = wp + 4 * P /\ (Z + 2) * K = zk + 2 * K
  <2>1. W * T = 2 * (W * P)
    <3> HIDE DEF T
    <3> QED BY <1>2
  <2>2. Z * (10000 * K) = 10000 * (Z * K)
    BY SMT
  <2> QED BY <1>2, <2>1, <2>2, SMT
<1>6. /\ wp <= vf /\ vf <= wp + 4 * P /\ zk <= vg /\ vg <= zk + 2 * K /\ T = 10000 * K
  BY <1>5
<1> HIDE DEF T, q, vf, vg, vq, wp, zk, wt, zt
<1>7. wt - zt <= 2 * T + 400000 * v /\ zt - wt <= 4 * T + 40000 * v
  BY <1>2, <1>3, <1>4, <1>5, <1>6, SMT
<1> DEFINE a == W - Z - 2
           b == Z - W - 4
<1>8. a \in Int /\ b \in Int /\ a * T = wt - zt - 2 * T /\ b * T = zt - wt - 4 * T
  BY <1>2 DEF wt, zt
<1>9. a * T <= 400000 * v /\ b * T <= 400000 * v
  <2> HIDE DEF a, b
  <2> QED BY <1>2, <1>5, <1>7, <1>8, SMT
<1>10. 10000 * a <= 20 * v /\ 10000 * b <= 20 * v
  <2> HIDE DEF a, b
  <2> QED BY <1>2, <1>8, <1>9, LargeFactor
<1> QED BY <1>10, SMT DEF Close

\* The half-lives and the rest of two times together.
LEMMA TimesAdd ==
  ASSUME NEW x \in Nat, NEW y \in Nat
  PROVE  LET H == PENALTY_HALF_LIFE_SECS
             rest == Rest(x) + Rest(y)
             whole == Halvings(x) + Halvings(y)
         IN  /\ rest < H => Halvings(x + y) = whole /\ Rest(x + y) = rest
             /\ ~(rest < H) => Halvings(x + y) = whole + 1 /\ Rest(x + y) = rest - H
<1> DEFINE H == PENALTY_HALF_LIFE_SECS
           m == Halvings(x)
           n == Halvings(y)
           r == Rest(x)
           t == Rest(y)
           k == Halvings(x + y)
           s == Rest(x + y)
<1>1. /\ H \in Nat \ {0} /\ m \in Nat /\ n \in Nat /\ k \in Nat
      /\ r \in Nat /\ r < H /\ t \in Nat /\ t < H /\ s \in Nat /\ s < H
      /\ x = m * H + r /\ y = n * H + t
  <2>1. H \in Nat \ {0}
    BY Units
  <2>2. \A e \in Nat : /\ Halvings(e) \in Nat /\ Rest(e) \in Nat /\ Rest(e) < H
                      /\ e = Halvings(e) * H + Rest(e)
    <3> SUFFICES ASSUME NEW e \in Nat
                 PROVE  /\ Halvings(e) \in Nat /\ Rest(e) \in Nat /\ Rest(e) < H
                        /\ e = Halvings(e) * H + Rest(e)
      OBVIOUS
    <3>1. Halvings(e) \in Nat /\ Rest(e) \in Rests /\ e = Halvings(e) * H + Rest(e)
      BY ElapsedBounds
    <3> HIDE DEF H
    <3>2. Rest(e) \in 0..(H - 1)
      BY <3>1 DEF Rests, H
    <3> QED BY <2>1, <3>1, <3>2
  <2> HIDE DEF H
  <2>3. x + y \in Nat
    OBVIOUS
  <2> QED BY <2>1, <2>2, <2>3
<1>2. x + y = k * H + s
  <2> DEFINE e == x + y
  <2>1. e \in Nat
    OBVIOUS
  <2> HIDE DEF e
  <2>2. e = Halvings(e) * H + Rest(e)
    BY <2>1, ElapsedBounds
  <2> QED BY <2>2 DEF e
<1> HIDE DEF H, m, n, r, t, k, s
<1>3. /\ m * H \in Nat /\ n * H \in Nat /\ (m + n) * H = m * H + n * H
      /\ (m + n + 1) * H = m * H + n * H + H
  BY <1>1
<1>4. r + t < H => k = m + n /\ s = r + t
  <2> SUFFICES ASSUME r + t < H PROVE m + n = k /\ r + t = s
    OBVIOUS
  <2> DEFINE a == m + n
             z == r + t
  <2>1. a \in Nat /\ z \in Nat /\ z < H /\ a * H + z = k * H + s
    BY <1>1, <1>2, <1>3
  <2> HIDE DEF a, z
  <2>2. a = k /\ z = s
    BY <1>1, <2>1, OneQuotient
  <2> QED BY <2>2 DEF a, z
<1>5. ~(r + t < H) => k = m + n + 1 /\ s = (r + t) - H
  <2> SUFFICES ASSUME ~(r + t < H) PROVE m + n + 1 = k /\ (r + t) - H = s
    OBVIOUS
  <2> DEFINE a == m + n + 1
             z == (r + t) - H
  <2>1. a \in Nat /\ z \in Nat /\ z < H /\ a * H + z = k * H + s
    <3>1. a \in Nat /\ z \in Nat /\ z < H
      BY <1>1
    <3>2. a * H = m * H + n * H + H
      BY <1>3
    <3> HIDE DEF a
    <3> QED BY <1>1, <1>2, <1>3, <3>1, <3>2
  <2> HIDE DEF a, z
  <2>2. a = k /\ z = s
    BY <1>1, <2>1, OneQuotient
  <2> QED BY <2>2 DEF a, z
<1> QED BY <1>4, <1>5 DEF H, m, n, r, t, k, s

\* Ten halvings leave less than a thousandth.
LEMMA ScaleIsLarge ==
  ASSUME NEW m \in 0..63, NEW n \in 0..63, m + n >= 63
  PROVE  Scale(m) * Scale(n) >= 1024
<1>1. Scale(10) = 1024
  <2>1. Pow(10) = 1024 /\ Pow(0) = 1
    BY SMT DEF Pow
  <2>2. Smaller(10, 30) = 10 /\ SatSub(10, 30) = 0 /\ Smaller(0, 30) = 0 /\ SatSub(10, 60) = 0
    BY SMT DEF Smaller, SatSub
  <2> QED BY <2>1, <2>2, SMT DEF Scale
<1>2. ASSUME NEW k \in 0..63, k >= 10 PROVE Scale(k) >= 1024
  <2> DEFINE j == k - 10
             z == 10
  <2>1. j \in 0..63 /\ z \in 0..63 /\ z + j = k /\ z + j <= 63
    BY <1>2
  <2> HIDE DEF j, z
  <2>2. Scale(z + j) = Scale(z) * Scale(j)
    BY <2>1, ScaleAdds
  <2>3. Scale(j) \in Nat \ {0} /\ Scale(k) = Scale(z) * Scale(j)
    BY <2>1, <2>2, ScaleDoubles
  <2>4. Scale(z) = 1024
    BY <1>1 DEF z
  <2> QED BY <2>3, <2>4, SMT
<1>3. Scale(m) \in Nat \ {0} /\ Scale(n) \in Nat \ {0}
  BY ScaleDoubles
<1> DEFINE a == Scale(m)
           b == Scale(n)
           c == 1024
<1>4. a >= c \/ b >= c
  <2>1. m >= 10 \/ n >= 10
    BY SMT
  <2> QED BY <1>2, <2>1
<1>5. a \in Nat /\ b \in Nat /\ a >= 1 /\ b >= 1 /\ c \in Nat
  BY <1>3
<1> HIDE DEF a, b, c
<1>6. a * b >= c
  <2>1. CASE a >= c
    <3>1. c * 1 <= a * b
      BY <1>5, <2>1, TimesGrows
    <3> QED BY <1>5, <3>1
  <2>2. CASE b >= c
    <3>1. 1 * c <= a * b
      BY <1>5, <2>2, TimesGrows
    <3> QED BY <1>5, <3>1
  <2> QED BY <1>4, <2>1, <2>2
<1> QED BY <1>6 DEF a, b, c

\* Decaying a penalty in two steps, and in one.
LEMMA RemainsSteps ==
  ASSUME NEW v \in Nat, NEW x \in Nat, NEW y \in Nat
  PROVE  Close(Remains(Remains(v, x), y), Remains(v, x + y), v)
<1> DEFINE H == PENALTY_HALF_LIFE_SECS
           m == Halvings(x)
           n == Halvings(y)
           r == Rest(x)
           t == Rest(y)
           e == x + y
           f == Factor(r)
           g == Factor(t)
           X == Remains(v, x)
           W == Remains(X, y)
           Z == Remains(v, e)
           p == Scale(m)
           q == Scale(n)
           k == 10000 * p
           l == 10000 * q
<1>1. m \in Nat /\ n \in Nat /\ r \in Rests /\ t \in Rests /\ e \in Nat /\ Halvings(e) \in Nat
      /\ H \in Nat \ {0} /\ r \in Nat /\ t \in Nat /\ r < H /\ t < H
  <2>1. e \in Nat
    OBVIOUS
  <2> HIDE DEF e
  <2> QED BY <2>1, ElapsedBounds, Units DEF Rests
<1>2. X \in Nat /\ W \in Nat /\ Z \in Nat
  <2> HIDE DEF e
  <2>1. X \in Nat /\ Z \in Nat
    BY <1>1, RemainsNat
  <2> HIDE DEF X
  <2> QED BY <2>1, RemainsNat
<1>3. f \in Nat /\ g \in Nat /\ f <= 10000 /\ g <= 10000
  <2> HIDE DEF r, t
  <2>1. AtLeastHalf(f) /\ AtLeastHalf(g)
    BY <1>1, FactorBetween
  <2> QED BY <2>1, SMT DEF AtLeastHalf
<1>4. /\ r + t < H => Halvings(e) = m + n /\ Rest(e) = r + t
      /\ ~(r + t < H) => Halvings(e) = m + n + 1 /\ Rest(e) = (r + t) - H
  BY TimesAdd
<1> SUFFICES Close(W, Z, v)
  BY DEF e, X, W, Z
\* What two steps of less than 64 half-lives each leave.
<1>5. ASSUME m < 64, n < 64
      PROVE  /\ p \in Nat \ {0} /\ q \in Nat \ {0} /\ k * l = 100000000 * (p * q)
             /\ W * (k * l) <= v * (f * g) /\ v * (f * g) <= (W + 4) * (k * l)
  <2>1. m \in 0..63 /\ n \in 0..63
    BY <1>1, <1>5
  <2>2. p \in Nat \ {0} /\ q \in Nat \ {0}
    <3> HIDE DEF m, n
    <3> QED BY <2>1, ScaleDoubles
  <2>3. Rounded(X, k, v * f)
    BY <1>5, RemainsScales
  <2>4. Rounded(W, l, X * g)
    <3> HIDE DEF X
    <3> QED BY <1>2, <1>5, RemainsScales
  <2> HIDE DEF p, q, X, W, f, g
  <2>5. k \in Nat /\ l \in Nat /\ g <= l
    <3>1. 10000 <= 10000 * q /\ l \in Nat /\ k \in Nat
      BY <2>2, SMT
    <3> QED BY <1>3, <3>1, SMT
  <2>6. k * l = 100000000 * (p * q)
    BY <2>2, SMT
  <2> HIDE DEF k, l
  <2>7. W * (k * l) <= v * (f * g) /\ v * (f * g) <= (W + 4) * (k * l)
    <3>1. TwoRoundings(X, W, v, f, g, k, l)
      <4>1. v \in Nat /\ f \in Nat /\ g \in Nat
        BY <1>3, SMT
      <4> QED BY <2>3, <2>4, <2>5, <4>1, Zenon DEF TwoRoundings
    <3> QED BY <3>1, RoundedTwice, Zenon
  <2> QED BY <2>2, <2>6, <2>7
<1>6. CASE Halvings(e) < 64
  <2>1. m < 64 /\ n < 64 /\ m \in 0..63 /\ n \in 0..63
    BY <1>1, <1>4, <1>6
  <2>2. /\ p \in Nat \ {0} /\ q \in Nat \ {0} /\ k * l = 100000000 * (p * q)
        /\ W * (k * l) <= v * (f * g) /\ v * (f * g) <= (W + 4) * (k * l)
    BY <1>5, <2>1
  <2> DEFINE F == f * g
             G == ReadOn(r + t)
             P == k * l
             u == p * q
             K == 20000 * u
  <2>3. Near(Miss(F, G))
    BY <1>1, FactorsMultiply
  <2>4. u \in Nat \ {0}
    BY <2>2
  <2>5. G \in Nat /\ Z * K <= v * G /\ v * G <= (Z + 2) * K
    <3> DEFINE h == Halvings(e)
               G3 == Factor(Rest(e))
               k3 == 10000 * Scale(h)
    <3>1. Rounded(Z, k3, v * G3)
      <4> HIDE DEF e
      <4> QED BY <1>1, <1>6, RemainsScales
    <3>2. G3 \in Nat
      <4>1. Rest(e) \in Rests
        <5> HIDE DEF e
        <5> QED BY <1>1, ElapsedBounds
      <4> HIDE DEF e
      <4> QED BY <4>1, FactorBetween DEF AtLeastHalf
    <3>3. Scale(m + n) = u
      <4> HIDE DEF m, n
      <4>1. m + n <= 63
        BY <1>1, <1>4, <1>6
      <4> QED BY <2>1, <4>1, ScaleAdds
    <3>4. \/ G = 2 * G3 /\ K = 2 * k3
          \/ G = G3 /\ K = k3
      <4>1. CASE r + t < H
        <5>1. G = 2 * G3
          BY <1>4, <4>1 DEF ReadOn
        <5>2. Scale(h) = u
          BY <1>4, <3>3, <4>1
        <5>3. K = 2 * k3
          BY <2>4, <5>2, SMT
        <5> QED BY <5>1, <5>3
      <4>2. CASE ~(r + t < H)
        <5>1. G = G3
          BY <1>4, <4>2 DEF ReadOn
        <5>2. Scale(h) = 2 * u
          <6> DEFINE j == m + n
          <6>1. j \in 0..62 /\ h = j + 1
            BY <1>1, <1>4, <1>6, <4>2
          <6> HIDE DEF j, h
          <6>2. Scale(h) = 2 * Scale(j)
            BY <6>1, ScaleDoubles
          <6> QED BY <3>3, <6>2 DEF j
        <5>3. K = k3
          BY <2>4, <5>2, SMT
        <5> QED BY <5>1, <5>3
      <4> QED BY <4>1, <4>2
    <3>5. k3 \in Nat
      <4>1. K \in Nat
        BY <2>4, SMT
      <4>2. Halvings(e) \in 0..63
        BY <1>1, <1>6
      <4>3. Scale(h) \in Nat
        <5> HIDE DEF h
        <5> QED BY <4>2, ScaleDoubles DEF h
      <4> QED BY <4>3, SMT
    <3> HIDE DEF G, G3, K, k3, Z
    <3>6. Z * k3 <= v * G3 /\ v * G3 <= Z * k3 + 2 * k3
      <4> DEFINE a == Z * k3
                 b == v * G3
                 c == 2 * k3
      <4>1. a <= b /\ b < a + c
        BY <3>1 DEF Rounded
      <4>2. a \in Nat /\ b \in Nat /\ c \in Nat
        BY <1>2, <3>2, <3>5
      <4> HIDE DEF a, b, c
      <4>3. b <= a + c
        BY <4>1, <4>2
      <4> QED BY <4>1, <4>3 DEF a, b, c
    <3>7. /\ Z * (2 * k3) = 2 * (Z * k3) /\ (Z + 2) * (2 * k3) = 2 * (Z * k3) + 2 * (2 * k3)
          /\ (Z + 2) * k3 = Z * k3 + 2 * k3 /\ v * (2 * G3) = 2 * (v * G3)
          /\ Z * k3 \in Nat /\ v * G3 \in Nat
      BY <1>2, <3>2, <3>5
    <3>8. CASE G = G3 /\ K = k3
      BY <3>2, <3>6, <3>7, <3>8
    <3>9. CASE G = 2 * G3 /\ K = 2 * k3
      <4> DEFINE a == Z * k3
                 b == v * G3
      <4>1. /\ a \in Nat /\ b \in Nat /\ a <= b /\ b <= a + 2 * k3
            /\ Z * K = 2 * a /\ v * G = 2 * b /\ (Z + 2) * K = 2 * a + 2 * (2 * k3)
        BY <3>6, <3>7, <3>9
      <4>2. Z * K <= v * G /\ v * G <= (Z + 2) * K
        <5> HIDE DEF a, b
        <5> QED BY <3>5, <4>1
      <4> QED BY <3>2, <3>9, <4>2
    <3> QED BY <3>4, <3>8, <3>9
  <2> HIDE DEF u
  <2>6. K \in Nat /\ K >= 20000 /\ 2 * P = 10000 * K /\ P \in Nat
    BY <2>2, <2>4, SMT DEF u
  <2>7. F \in Nat /\ W * P <= v * F /\ v * F <= (W + 4) * P
    BY <1>3, <2>2
  <2> HIDE DEF F, G, P, K, W, Z
  <2>8. TwoStepsAndOne(v, F, G, W, P, Z, K)
    BY <1>2, <2>3, <2>5, <2>6, <2>7, SMT DEF TwoStepsAndOne
  <2> QED BY <2>8, StepsCompare, Zenon
<1>7. CASE Halvings(e) >= 64
  <2>1. Z = 0
    BY <1>7 DEF Remains
  <2>2. CASE m >= 64 \/ n >= 64
    <3>1. W = 0
      <4>1. CASE n >= 64
        BY <4>1 DEF Remains
      <4>2. CASE m >= 64
        <5>1. X = 0
          BY <4>2 DEF Remains
        <5> HIDE DEF X
        <5> QED BY <1>2, <5>1, RemainsNat
      <4> QED BY <2>2, <4>1, <4>2
    <3> HIDE DEF W, Z
    <3> QED BY <2>1, <3>1, SMT DEF Close
  <2>3. CASE m < 64 /\ n < 64
    <3>1. /\ p \in Nat \ {0} /\ q \in Nat \ {0} /\ k * l = 100000000 * (p * q)
          /\ W * (k * l) <= v * (f * g)
      BY <1>5, <2>3
    <3>2. p * q >= 1024
      <4>1. m \in 0..63 /\ n \in 0..63 /\ m + n >= 63
        BY <1>1, <1>4, <1>7, <2>3
      <4> HIDE DEF m, n
      <4> QED BY <4>1, ScaleIsLarge
    <3> DEFINE u == p * q
               F == f * g
               z == v * F
               vB == v * 100000000
    <3>3. u \in Nat /\ F \in Nat /\ F <= 100000000 /\ u >= 1024
      <4>1. u \in Nat /\ F \in Nat /\ u >= 1024
        BY <1>3, <3>1, <3>2
      <4>2. F <= 100000000
        <5> DEFINE b == 10000
        <5>1. b \in Nat /\ f <= b /\ g <= b
          BY <1>3, SMT
        <5> HIDE DEF b, f, g
        <5>2. f * g <= b * b
          BY <1>3, <5>1, TimesGrows
        <5> QED BY <5>2, SMT DEF b
      <4> QED BY <4>1, <4>2
    <3>4. z <= vB /\ z \in Nat
      <4> DEFINE b == 100000000
      <4>1. F <= b /\ v <= v /\ b \in Nat
        BY <3>3, SMT
      <4> HIDE DEF F, b
      <4>2. v * F <= v * b /\ v * F \in Nat
        BY <3>3, <4>1, TimesGrows
      <4> QED BY <4>2 DEF b
    <3>5. W * (k * l) = 100000000 * (W * u)
      <4> HIDE DEF W, k, l, u
      <4>1. k * l = 100000000 * u
        BY <3>1 DEF u
      <4>2. W * (100000000 * u) = 100000000 * (W * u)
        BY <1>2, <3>3, SMT
      <4> QED BY <4>1, <4>2
    <3>6. 1024 * W <= W * u /\ W * u \in Nat
      <4> DEFINE b == 1024
      <4>1. b <= u /\ W <= W /\ b \in Nat
        BY <1>2, <3>3, SMT
      <4> HIDE DEF W, u, b
      <4>2. W * b <= W * u /\ W * u \in Nat
        BY <1>2, <3>3, <4>1, TimesGrows
      <4> QED BY <1>2, <4>2, SMT DEF b
    <3> DEFINE wu == W * u
    <3>7. 100000000 * wu <= v * 100000000 /\ wu \in Nat /\ 1024 * W <= wu
      <4>1. 100000000 * wu <= z
        BY <3>1, <3>5
      <4>2. wu \in Nat /\ 1024 * W <= wu
        BY <3>6
      <4> HIDE DEF wu, z
      <4> QED BY <3>4, <4>1, <4>2, SMT
    <3> HIDE DEF wu, W, Z
    <3>8. 10000 * W <= 20 * v
      BY <1>2, <3>7, SMT
    <3> QED BY <1>2, <2>1, <3>8, SMT DEF Close
  <2> QED BY <1>1, <2>2, <2>3
<1> QED BY <1>1, <1>6, <1>7

\* Y is X and U together, but for the rounding.
Together(Y, X, U) == Y \in Nat /\ X \in Nat /\ U \in Nat /\ X + U <= Y + 1 /\ Y <= X + U + 3

\* The quotient of a sum is the sum of the quotients, but for the rounding.
LEMMA RoundedTogether ==
  ASSUME NEW u \in Nat, NEW m \in Nat, NEW f \in Nat, NEW k \in Nat, k # 0,
         NEW Y, NEW X, NEW U,
         Rounded(Y, k, (u + m) * f), Rounded(X, k, u * f), Rounded(U, k, m * f)
  PROVE  Together(Y, X, U)
<1> DEFINE a == (u + m) * f
           b == u * f
           c == m * f
           y == Y * k
           x == X * k
           z == U * k
<1>1. /\ Y \in Nat /\ y <= a /\ a < y + 2 * k
      /\ X \in Nat /\ x <= b /\ b < x + 2 * k
      /\ U \in Nat /\ z <= c /\ c < z + 2 * k
  BY Zenon DEF Rounded
<1>2. /\ a = b + c /\ a \in Nat /\ b \in Nat /\ c \in Nat
      /\ y \in Nat /\ x \in Nat /\ z \in Nat
  BY <1>1
<1>3. x + z < y + 2 * k /\ y < x + z + 4 * k
  <2> HIDE DEF a, b, c, x, y, z
  <2> QED BY <1>1, <1>2
<1> DEFINE d == (X + U) - Y
           e == Y - (X + U)
<1>4. d \in Int /\ e \in Int /\ d * k = (x + z) - y /\ e * k = y - (x + z)
  BY <1>1
<1>5. d < 2 /\ e < 4
  <2>1. ASSUME NEW i \in Int, NEW n \in Nat, i * k < n * k PROVE i < n
    <3> SUFFICES ASSUME n <= i PROVE FALSE
      OBVIOUS
    <3>1. n * k <= i * k
      BY TimesGrows
    <3>2. n * k \in Int /\ i * k \in Int
      OBVIOUS
    <3> QED BY <2>1, <3>1, <3>2
  <2>2. d * k < 2 * k /\ e * k < 4 * k
    <3> HIDE DEF d, e, x, y, z
    <3> QED BY <1>2, <1>3, <1>4
  <2> HIDE DEF d, e
  <2> QED BY <1>4, <2>1, <2>2
<1> QED BY <1>1, <1>5 DEF Together

\* Two penalties decay together as they do apart.
LEMMA RemainsTogether ==
  ASSUME NEW u \in Nat, NEW m \in Nat, NEW e \in Nat
  PROVE  Together(Remains(u + m, e), Remains(u, e), Remains(m, e))
<1>1. Halvings(e) \in Nat /\ Rest(e) \in Rests
  BY ElapsedBounds
<1>2. CASE Halvings(e) >= 64
  BY <1>2 DEF Remains, Together
<1>3. CASE Halvings(e) < 64
  <2> DEFINE k == 10000 * Scale(Halvings(e))
             f == Factor(Rest(e))
             v == u + m
  <2>1. Scale(Halvings(e)) \in Nat \ {0}
    <3>1. Halvings(e) \in 0..63
      BY <1>1, <1>3
    <3> QED BY <3>1, ScaleDoubles
  <2>2. k \in Nat /\ k # 0
    BY <2>1, SMT
  <2>3. f \in Nat
    BY <1>1, FactorBetween, SMT DEF AtLeastHalf
  <2>4. v \in Nat
    OBVIOUS
  <2>5. Rounded(Remains(u, e), k, u * f) /\ Rounded(Remains(m, e), k, m * f)
    BY <1>3, RemainsScales
  <2>6. Rounded(Remains(v, e), k, v * f)
    <3> HIDE DEF v
    <3> QED BY <1>3, <2>4, RemainsScales
  <2> HIDE DEF k, f
  <2> QED BY <2>2, <2>3, <2>5, <2>6, RoundedTogether, Zenon
<1> QED BY <1>1, <1>2, <1>3

\* decay_bps, by the time between its dates.
LEMMA DecayIsRemains ==
  ASSUME NEW v, NEW from, NEW at
  PROVE  DecayBps(v, from, at) = Remains(v, SatSub(at, from))
  BY DecayIsFaded, Zenon DEF Remains

\* How far a re-decayed penalty may drift from the one it was.
Drift(v) == 5 + (20 * v) \div BPS

\* A larger penalty drifts further.
LEMMA DriftGrows ==
  ASSUME NEW v \in Nat, NEW w \in Nat, v <= w
  PROVE  Drift(v) \in Nat /\ Drift(v) <= Drift(w)
<1> DEFINE x == 20 * v
           y == 20 * w
<1>1. x \in Nat /\ y \in Nat /\ x <= y
  OBVIOUS
<1>2. BPS \in Nat \ {0} /\ BPS <= BPS
  BY Units, SMT
<1> HIDE DEF x, y
<1>3. x \div BPS \in Nat /\ y \div BPS \in Nat /\ x \div BPS <= y \div BPS
  BY <1>1, <1>2, DivBounds, DivGrows
<1> DEFINE p == x \div BPS
           q == y \div BPS
<1>4. 5 + p \in Nat /\ 5 + p <= 5 + q
  <2> HIDE DEF p, q
  <2> QED BY <1>3 DEF p, q
<1> QED BY <1>4 DEF Drift, x, y

\* A penalty re-decayed to c when another is added to it, and what the two are
\* later, each decayed from its own day.
LEMMA PenaltyDrifts ==
  ASSUME NEW v \in Nat, NEW m \in Nat, NEW a \in Nat, NEW c \in Nat, NEW t \in Nat, a <= c, c <= t
  PROVE  LET one == DecayBps(DecayBps(v, a, c) + m, c, t)
             each == DecayBps(v, a, t) + DecayBps(m, c, t)
         IN  one \in Nat /\ each \in Nat /\ one <= each + Drift(v) /\ each <= one + Drift(v)
<1> DEFINE x == c - a
           y == t - c
           D == Remains(v, x)
           W == Remains(D, y)
           Z == Remains(v, x + y)
           M == Remains(m, y)
           Y == Remains(D + m, y)
<1>1. x \in Nat /\ y \in Nat /\ SatSub(c, a) = x /\ SatSub(t, c) = y /\ SatSub(t, a) = x + y
  BY DEF SatSub
<1>2. /\ DecayBps(v, a, c) = D /\ DecayBps(v, a, t) = Z /\ DecayBps(m, c, t) = M
      /\ DecayBps(D + m, c, t) = Y
  BY <1>1, DecayIsRemains, Zenon
<1>3. D \in Nat
  <2> HIDE DEF x
  <2> QED BY <1>1, RemainsNat
<1>4. Close(W, Z, v)
  <2> HIDE DEF x, y
  <2> QED BY <1>1, RemainsSteps, Zenon
<1>5. Together(Y, W, M)
  <2> HIDE DEF D, y
  <2> QED BY <1>1, <1>3, RemainsTogether, Zenon
<1> DEFINE q == (20 * v) \div BPS
<1>6. /\ q \in Nat /\ W \in Nat /\ Z \in Nat /\ W <= Z + 2 + q /\ Z <= W + 4 + q
  <2> HIDE DEF W, Z
  <2>1. W \in Nat /\ Z \in Nat
    BY <1>4, SMT DEF Close
  <2> DEFINE g == 20 * v
             b == BPS
             i == W - Z - 2
             j == Z - W - 4
  <2>2. g \in Nat /\ b \in Nat \ {0} /\ i \in Int /\ j \in Int /\ i * b <= g /\ j * b <= g
    BY <1>4, <2>1, Units, SMT DEF Close
  <2> HIDE DEF g, b, i, j
  <2>3. i <= g \div b /\ j <= g \div b /\ g \div b \in Nat
    BY <2>2, DivLargest, DivBounds
  <2>4. q = g \div b
    BY DEF g, b
  <2> HIDE DEF q
  <2> QED BY <2>1, <2>3, <2>4 DEF i, j
<1> HIDE DEF W, Z, M, Y, q
<1>7. Y \in Nat /\ Z + M \in Nat /\ Y <= Z + M + (5 + q) /\ Z + M <= Y + (5 + q)
  BY <1>5, <1>6 DEF Together
<1>8. Drift(v) = 5 + q
  BY DEF Drift, q
<1> HIDE DEF D
<1>9. DecayBps(v, a, c) + m = D + m
  BY <1>2
<1> QED BY <1>2, <1>7, <1>8, <1>9

-----------------------------------------------------------------------------
(* Weights *)

WeightAt(i) == WEIGHT_TABLE[i][2]
PrincipalAt(i) == WEIGHT_TABLE[i][1] * USDC_UNIT
InRow(principal, i) == PrincipalAt(i) <= principal /\ principal < PrincipalAt(i + 1)

LEMMA RowsGrow ==
  ASSUME NEW i \in 1..9
  PROVE  /\ WeightAt(i) \in Nat /\ WeightAt(i + 1) \in Nat /\ WeightAt(i) <= WeightAt(i + 1)
         /\ PrincipalAt(i) \in Nat /\ PrincipalAt(i + 1) \in Nat /\ PrincipalAt(i) < PrincipalAt(i + 1)
<1>1. WeightAt(i) \in Nat /\ WeightAt(i + 1) \in Nat /\ WeightAt(i) <= WeightAt(i + 1)
  BY DEF WeightAt, WEIGHT_TABLE
<1>2. /\ WEIGHT_TABLE[i][1] \in Nat /\ WEIGHT_TABLE[i + 1][1] \in Nat
      /\ WEIGHT_TABLE[i][1] + 1 <= WEIGHT_TABLE[i + 1][1]
  BY DEF WEIGHT_TABLE
<1> DEFINE a == WEIGHT_TABLE[i][1]
           b == WEIGHT_TABLE[i + 1][1]
<1>3. a \in Nat /\ b \in Nat /\ a + 1 <= b
  BY <1>2
<1>4. PrincipalAt(i) = a * USDC_UNIT /\ PrincipalAt(i + 1) = b * USDC_UNIT
  BY DEF PrincipalAt
<1> HIDE DEF a, b
<1>5. USDC_UNIT \in Nat \ {0}
  BY UnitAssumption
<1>6. a * USDC_UNIT \in Nat /\ b * USDC_UNIT \in Nat /\ a * USDC_UNIT < b * USDC_UNIT
  <2>1. (a + 1) * USDC_UNIT <= b * USDC_UNIT
    <3>1. USDC_UNIT <= USDC_UNIT /\ a + 1 \in Nat /\ USDC_UNIT \in Nat
      BY <1>3, <1>5
    <3> QED BY <1>3, <3>1, TimesGrows
  <2>2. (a + 1) * USDC_UNIT = a * USDC_UNIT + USDC_UNIT
    BY <1>3, <1>5
  <2>3. a * USDC_UNIT \in Nat /\ b * USDC_UNIT \in Nat
    BY <1>3, <1>5
  <2> QED BY <1>5, <2>1, <2>2, <2>3
<1> QED BY <1>1, <1>4, <1>6

\* Every principal between the first row and the last falls in a row.
LEMMA SomeRow ==
  ASSUME NEW p \in Nat, PrincipalAt(1) <= p, p < PrincipalAt(10)
  PROVE  \E i \in 1..9 : InRow(p, i)
<1>1. \A i \in 1..10 : PrincipalAt(i) \in Int
  BY UnitAssumption DEF PrincipalAt, WEIGHT_TABLE
<1>2. ~(p < PrincipalAt(1))
  BY <1>1
<1>3. CASE p < PrincipalAt(2)
  BY <1>3 DEF InRow
<1>4. CASE ~(p < PrincipalAt(2)) /\ p < PrincipalAt(3)
  BY <1>1, <1>4 DEF InRow
<1>5. CASE ~(p < PrincipalAt(3)) /\ p < PrincipalAt(4)
  BY <1>1, <1>5 DEF InRow
<1>6. CASE ~(p < PrincipalAt(4)) /\ p < PrincipalAt(5)
  BY <1>1, <1>6 DEF InRow
<1>7. CASE ~(p < PrincipalAt(5)) /\ p < PrincipalAt(6)
  BY <1>1, <1>7 DEF InRow
<1>8. CASE ~(p < PrincipalAt(6)) /\ p < PrincipalAt(7)
  BY <1>1, <1>8 DEF InRow
<1>9. CASE ~(p < PrincipalAt(7)) /\ p < PrincipalAt(8)
  BY <1>1, <1>9 DEF InRow
<1>10. CASE ~(p < PrincipalAt(8)) /\ p < PrincipalAt(9)
  BY <1>1, <1>10 DEF InRow
<1>11. CASE ~(p < PrincipalAt(9))
  BY <1>1, <1>11 DEF InRow
<1> QED BY <1>3, <1>4, <1>5, <1>6, <1>7, <1>8, <1>9, <1>10, <1>11

\* The weight of a principal is a natural number.
LEMMA WeightNat ==
  ASSUME NEW p \in Nat
  PROVE  PrincipalWeightBps(p) \in Nat
<1> DEFINE row == CHOOSE i \in 1..9 : InRow(p, i)
           line == WeightAt(row) + ((p - PrincipalAt(row)) * (WeightAt(row + 1) - WeightAt(row)))
                                     \div (PrincipalAt(row + 1) - PrincipalAt(row))
<1>1. PrincipalWeightBps(p) = IF p < PrincipalAt(1) THEN 0
                              ELSE IF p >= PrincipalAt(10) THEN WeightAt(10) ELSE line
  BY DEF PrincipalWeightBps, WeightAt, PrincipalAt, InRow
<1>2. WeightAt(10) \in Nat /\ PrincipalAt(10) \in Nat /\ PrincipalAt(1) \in Nat
  <2>1. 9 \in 1..9 /\ 1 \in 1..9 /\ 9 + 1 = 10
    OBVIOUS
  <2> QED BY <2>1, RowsGrow
<1>3. ASSUME ~(p < PrincipalAt(1)), ~(p >= PrincipalAt(10)) PROVE line \in Nat
  <2>1. PrincipalAt(1) <= p /\ p < PrincipalAt(10)
    BY <1>2, <1>3
  <2>2. row \in 1..9 /\ InRow(p, row)
    BY <2>1, SomeRow
  <2> DEFINE u == WeightAt(row)
             v == WeightAt(row + 1)
             x == PrincipalAt(row)
             y == PrincipalAt(row + 1)
  <2> HIDE DEF row
  <2>3. u \in Nat /\ v \in Nat /\ u <= v /\ x \in Nat /\ y \in Nat /\ x < y
    BY <2>2, RowsGrow
  <2>4. x <= p
    BY <2>2 DEF InRow
  <2> HIDE DEF u, v, x, y
  <2>5. p - x \in Nat /\ v - u \in Nat /\ y - x \in Nat \ {0}
    BY <2>3, <2>4
  <2>6. (p - x) * (v - u) \in Nat
    BY <2>5
  <2>7. ((p - x) * (v - u)) \div (y - x) \in Nat
    BY <2>5, <2>6, DivBounds
  <2>8. u + ((p - x) * (v - u)) \div (y - x) \in Nat
    BY <2>3, <2>7
  <2> QED BY <2>8 DEF u, v, x, y
<1> QED BY <1>1, <1>2, <1>3

\* A share of a natural number, in basis points.
LEMMA ShareNat ==
  ASSUME NEW a \in Nat, NEW b \in Nat
  PROVE  (a * b) \div BPS \in Nat
<1>1. a * b \in Nat
  OBVIOUS
<1> QED BY <1>1, Units, DivBounds

\* What a record adds is a natural number, whatever dates it carries.
LEMMA ContributionsNat ==
  ASSUME NEW p \in Nat, NEW opened_at \in Nat, NEW closed_at \in Nat, NEW due_at,
         NEW outcome
  PROVE  /\ PlusBps(p, opened_at, closed_at, due_at, outcome) \in Nat
         /\ MinusBps(p, outcome) \in Nat
         /\ ExposureWeightBps(p, opened_at, closed_at, outcome) \in Nat
<1> DEFINE w == PrincipalWeightBps(p)
           held == Smaller(SatSub(closed_at, opened_at), MIN_HOLD_SECS)
           d == DurationBps(opened_at, closed_at)
           f == DueDateFactorBps(due_at)
<1>1. w \in Nat
  BY WeightNat
<1>2. d \in Nat
  <2>1. held \in Nat /\ MIN_HOLD_SECS \in Nat \ {0} /\ BPS \in Nat
    BY Units DEF Smaller, SatSub
  <2> HIDE DEF held
  <2>2. held * BPS \in Nat
    BY <2>1
  <2>3. (held * BPS) \div MIN_HOLD_SECS \in Nat
    BY <2>1, <2>2, DivBounds
  <2> QED BY <2>3 DEF DurationBps, held
<1>3. f \in Nat
  BY DEF DueDateFactorBps
<1> HIDE DEF w, d, f
<1>4. (w * 20000) \div BPS \in Nat /\ (w * 30000) \div BPS \in Nat /\ (w * d) \div BPS \in Nat
  BY <1>1, <1>2, ShareNat
<1>5. MinusBps(p, outcome) \in Nat
  <2>1. MinusBps(p, outcome) =
          IF outcome = LIQUIDATED THEN (w * 20000) \div BPS
          ELSE IF outcome = DEFAULTED THEN (w * 30000) \div BPS ELSE 0
    BY DEF MinusBps, w, LIQUIDATED, DEFAULTED
  <2> QED BY <1>4, <2>1
<1>6. ExposureWeightBps(p, opened_at, closed_at, outcome) \in Nat
  BY <1>1 DEF ExposureWeightBps, w
<1>7. PlusBps(p, opened_at, closed_at, due_at, outcome) \in Nat
  <2> DEFINE h == (w * d) \div BPS
             o == IF outcome = ON_TIME THEN 10000 ELSE 5000
             k == (h * o) \div BPS
  <2>1. PlusBps(p, opened_at, closed_at, due_at, outcome) =
          IF outcome \in {ON_TIME, LATE} THEN (k * f) \div BPS ELSE 0
    BY DEF PlusBps, w, d, f
  <2>2. h \in Nat /\ o \in Nat
    BY <1>4
  <2> HIDE DEF h, o
  <2>3. k \in Nat
    BY <2>2, ShareNat
  <2> HIDE DEF k
  <2>4. (k * f) \div BPS \in Nat
    BY <1>3, <2>3, ShareNat
  <2> QED BY <2>1, <2>4
<1> QED BY <1>5, <1>6, <1>7

-----------------------------------------------------------------------------
(* Scores and tiers *)

UpTo(x, bound) == x \in Nat /\ x <= bound

\* a part of a whole, in units of which there are k in the whole
LEMMA PartBounds ==
  ASSUME NEW a \in Nat, NEW b \in Nat, NEW whole \in Nat \ {0}, NEW k \in Nat,
         a <= b, b <= whole
  PROVE  /\ UpTo((a * k) \div whole, k)
         /\ (a * k) \div whole <= (b * k) \div whole
<1>1. a * k \in Nat /\ b * k \in Nat /\ a * k <= b * k /\ a * k <= whole * k /\ whole * k \in Nat
  <2>1. k <= k /\ a <= whole /\ whole \in Nat
    OBVIOUS
  <2> QED BY <2>1, TimesGrows
<1>2. whole <= whole /\ k * whole = whole * k /\ (whole * k) \div whole = k
  OBVIOUS
<1>3. (a * k) \div whole \in Nat
  BY <1>1, DivBounds
<1>4. (a * k) \div whole <= (b * k) \div whole
  BY <1>1, <1>2, DivGrows
<1>5. (a * k) \div whole <= (whole * k) \div whole
  BY <1>1, <1>2, DivGrows
<1> QED BY <1>2, <1>3, <1>4, <1>5 DEF UpTo

\* The native score is in range, and no less for a smaller penalty.
LEMMA NativeRises ==
  ASSUME NEW plus \in Nat, NEW minus \in Nat, NEW less \in Nat, less <= minus
  PROVE  /\ UpTo(NativeComponent(plus, minus), SCORE_MAX)
         /\ NativeComponent(plus, minus) <= NativeComponent(plus, less)
<1> DEFINE a == SatSub(Smaller(plus, FULL_WEIGHT_BPS), minus)
           b == SatSub(Smaller(plus, FULL_WEIGHT_BPS), less)
<1>1. a \in Nat /\ b \in Nat /\ a <= b /\ b <= FULL_WEIGHT_BPS
  BY DEF SatSub, Smaller, FULL_WEIGHT_BPS
<1>2. FULL_WEIGHT_BPS \in Nat \ {0} /\ SCORE_MAX \in Nat
  BY DEF FULL_WEIGHT_BPS, SCORE_MAX
<1>3. /\ NativeComponent(plus, minus) = (a * SCORE_MAX) \div FULL_WEIGHT_BPS
      /\ NativeComponent(plus, less) = (b * SCORE_MAX) \div FULL_WEIGHT_BPS
  BY DEF NativeComponent
<1> HIDE DEF a, b
<1> QED BY <1>1, <1>2, <1>3, PartBounds

\* The score is in range, and no less for a higher native score.
LEMMA BlendRises ==
  ASSUME NEW native, NEW more, UpTo(native, SCORE_MAX), UpTo(more, SCORE_MAX), native <= more,
         NEW imported, UpTo(imported, SCORE_MAX), NEW exposure \in Nat
  PROVE  /\ UpTo(Blend(native, imported, exposure), SCORE_MAX)
         /\ Blend(native, imported, exposure) <= Blend(more, imported, exposure)
<1> DEFINE x == Smaller(exposure, FULL_WEIGHT_BPS)
           alpha == (x * BPS) \div FULL_WEIGHT_BPS
           rest == BPS - alpha
<1>1. x \in Nat /\ x <= x /\ x <= FULL_WEIGHT_BPS /\ FULL_WEIGHT_BPS \in Nat \ {0} /\ BPS \in Nat \ {0}
  BY DEF Smaller, FULL_WEIGHT_BPS, BPS
<1>2. UpTo(alpha, BPS)
  <2> HIDE DEF x
  <2>1. BPS \in Nat
    BY <1>1
  <2> QED BY <1>1, <2>1, PartBounds
<1>3. /\ Blend(native, imported, exposure) = (native * alpha + imported * rest) \div BPS
      /\ Blend(more, imported, exposure) = (more * alpha + imported * rest) \div BPS
  BY DEF Blend
<1> HIDE DEF x
<1>4. alpha \in Nat /\ rest \in Nat /\ alpha + rest = BPS /\ alpha <= alpha /\ rest <= rest
  BY <1>1, <1>2 DEF UpTo
<1> HIDE DEF alpha, rest
<1>5. /\ native \in Nat /\ more \in Nat /\ imported \in Nat
      /\ native <= SCORE_MAX /\ imported <= SCORE_MAX /\ SCORE_MAX \in Nat
  BY DEF UpTo, SCORE_MAX
<1> DEFINE p == native * alpha
           q == more * alpha
           r == imported * rest
           whole == SCORE_MAX * alpha
           other == SCORE_MAX * rest
<1>6. p \in Nat /\ q \in Nat /\ r \in Nat /\ p <= q
  BY <1>4, <1>5, TimesGrows
<1>7. p <= whole /\ r <= other /\ whole \in Nat /\ other \in Nat
  BY <1>4, <1>5, TimesGrows
<1>8. whole + other = SCORE_MAX * BPS
  <2>1. SCORE_MAX * (alpha + rest) = whole + other
    BY <1>4, <1>5
  <2> QED BY <1>4, <2>1
<1> HIDE DEF p, q, r, whole, other
<1> DEFINE sum == p + r
           total == q + r
<1>9. sum \in Nat /\ total \in Nat /\ sum <= total /\ sum <= SCORE_MAX * BPS
  BY <1>6, <1>7, <1>8
<1>10. Blend(native, imported, exposure) = sum \div BPS /\ Blend(more, imported, exposure) = total \div BPS
  BY <1>3 DEF p, q, r
<1> HIDE DEF sum, total
<1>11. BPS <= BPS /\ SCORE_MAX * BPS \in Nat /\ (SCORE_MAX * BPS) \div BPS = SCORE_MAX
  BY DEF BPS, SCORE_MAX
<1>12. sum \div BPS <= SCORE_MAX /\ sum \div BPS <= total \div BPS /\ sum \div BPS \in Nat
  <2>1. sum \div BPS <= total \div BPS
    BY <1>1, <1>9, <1>11, DivGrows
  <2>2. sum \div BPS <= (SCORE_MAX * BPS) \div BPS
    BY <1>1, <1>9, <1>11, DivGrows
  <2>3. sum \div BPS \in Nat
    BY <1>1, <1>9, DivBounds
  <2> QED BY <1>11, <2>1, <2>2, <2>3
<1> QED BY <1>10, <1>12 DEF UpTo

\* The tier is no less for a higher score at a later time.
LEMMA TierRises ==
  ASSUME NEW score \in Nat, NEW more \in Nat, score <= more, NEW on_time \in Nat,
         NEW weight \in Nat, NEW last \in Nat, NEW at \in Nat, NEW later \in Nat, at <= later
  PROVE  /\ ComputeTier(score, on_time, weight, last, at) \in Tiers
         /\ ComputeTier(score, on_time, weight, last, at)
              <= ComputeTier(more, on_time, weight, last, later)
<1> DEFINE clean(t) == last = 0 \/ t - last >= LIQUIDATION_COOLDOWN_SECS
<1>1. clean(at) => clean(later)
  <2> DEFINE C == LIQUIDATION_COOLDOWN_SECS
  <2>1. C \in Nat
    BY Units
  <2> HIDE DEF C
  <2>2. at - last >= C => later - last >= C
    BY <2>1
  <2> QED BY <2>2 DEF C
<1>2. /\ score >= SILVER_MIN_SCORE => more >= SILVER_MIN_SCORE
      /\ score >= GOLD_MIN_SCORE => more >= GOLD_MIN_SCORE
      /\ GOLD_MIN_SCORE \in Nat /\ SILVER_MIN_SCORE \in Nat
      /\ score # 0 => more # 0
  BY DEF SILVER_MIN_SCORE, GOLD_MIN_SCORE
<1> DEFINE gold(s, t) == /\ clean(t)
                         /\ s >= GOLD_MIN_SCORE
                         /\ on_time >= GOLD_MIN_ON_TIME
                         /\ weight >= GOLD_MIN_WEIGHT_BPS
           silver(s, t) == /\ clean(t)
                           /\ s >= SILVER_MIN_SCORE
                           /\ on_time >= SILVER_MIN_ON_TIME
                           /\ weight >= SILVER_MIN_WEIGHT_BPS
<1>3. \A s, t : ComputeTier(s, on_time, weight, last, t) =
                  IF s = 0 THEN 0 ELSE IF gold(s, t) THEN 3 ELSE IF silver(s, t) THEN 2 ELSE 1
  BY DEF ComputeTier, UNPROVEN, BRONZE, SILVER, GOLD
<1> HIDE DEF clean
<1>4. gold(score, at) => gold(more, later)
  BY <1>1, <1>2
<1>5. silver(score, at) => silver(more, later)
  BY <1>1, <1>2
<1> HIDE DEF gold, silver
<1> QED BY <1>2, <1>3, <1>4, <1>5 DEF Tiers

\* A tier above Bronze is never given within 90 days of the last bad outcome.
LEMMA TierIsClean ==
  ASSUME NEW score, NEW on_time, NEW weight, NEW last, NEW at,
         ComputeTier(score, on_time, weight, last, at) >= SILVER
  PROVE  last = 0 \/ at - last >= LIQUIDATION_COOLDOWN_SECS
<1> SUFFICES ASSUME ~(last = 0 \/ at - last >= LIQUIDATION_COOLDOWN_SECS) PROVE FALSE
  OBVIOUS
<1>1. ComputeTier(score, on_time, weight, last, at) \in {0, 1}
  BY DEF ComputeTier, UNPROVEN, BRONZE
<1> QED BY <1>1 DEF SILVER

\* The native score is no less for more good history.
LEMMA NativeGrows ==
  ASSUME NEW plus \in Nat, NEW more \in Nat, plus <= more, NEW minus \in Nat
  PROVE  NativeComponent(plus, minus) <= NativeComponent(more, minus)
<1> DEFINE a == SatSub(Smaller(plus, FULL_WEIGHT_BPS), minus)
           b == SatSub(Smaller(more, FULL_WEIGHT_BPS), minus)
<1>1. a \in Nat /\ b \in Nat /\ a <= b /\ b <= FULL_WEIGHT_BPS
  BY DEF SatSub, Smaller, FULL_WEIGHT_BPS
<1>2. FULL_WEIGHT_BPS \in Nat \ {0} /\ SCORE_MAX \in Nat
  BY DEF FULL_WEIGHT_BPS, SCORE_MAX
<1>3. /\ NativeComponent(plus, minus) = (a * SCORE_MAX) \div FULL_WEIGHT_BPS
      /\ NativeComponent(more, minus) = (b * SCORE_MAX) \div FULL_WEIGHT_BPS
  BY DEF NativeComponent
<1> HIDE DEF a, b
<1> QED BY <1>1, <1>2, <1>3, PartBounds

\* The part of the native score in the blend, in basis points.
Lean(exposure) == (Smaller(exposure, FULL_WEIGHT_BPS) * BPS) \div FULL_WEIGHT_BPS
Blended(native, imported, alpha) == imported * BPS + (native - imported) * alpha

LEMMA LeanBounds ==
  ASSUME NEW e \in Nat, NEW c, c = Smaller(e, FULL_WEIGHT_BPS)
  PROVE  c \in Nat /\ Lean(e) \in Nat /\ Lean(e) <= BPS
         /\ 8 * Lean(e) <= c /\ c <= 8 * Lean(e) + 7
<1> DEFINE q == (c * 10000) \div 80000
<1>1. c \in Nat /\ c <= 80000
  BY DEF Smaller, FULL_WEIGHT_BPS
<1>2. q \in Nat /\ q * 80000 <= c * 10000 /\ c * 10000 < q * 80000 + 80000
  <2> HIDE DEF q
  <2>1. c * 10000 \in Nat
    BY <1>1
  <2> QED BY <2>1, DivBounds DEF q
<1>3. Lean(e) = q
  BY DEF Lean, BPS, FULL_WEIGHT_BPS
<1> HIDE DEF q
<1>4. q <= 10000 /\ 8 * q <= c /\ c <= 8 * q + 7
  BY <1>1, <1>2
<1> QED BY <1>1, <1>2, <1>3, <1>4 DEF BPS

LEMMA NativeBounds ==
  ASSUME NEW plus \in Nat, NEW minus \in Nat,
         NEW x, x = SatSub(Smaller(plus, FULL_WEIGHT_BPS), minus),
         NEW n, n = NativeComponent(plus, minus)
  PROVE  x \in Nat /\ n \in Nat /\ n <= SCORE_MAX /\ 80 * n <= x /\ x <= 80 * n + 79
<1> DEFINE q == (x * 1000) \div 80000
<1>1. x \in Nat /\ x <= 80000
  BY DEF SatSub, Smaller, FULL_WEIGHT_BPS
<1>2. q \in Nat /\ q * 80000 <= x * 1000 /\ x * 1000 < q * 80000 + 80000
  <2> HIDE DEF q
  <2>1. x * 1000 \in Nat
    BY <1>1
  <2> QED BY <2>1, DivBounds DEF q
<1>3. n = q
  BY DEF NativeComponent, SCORE_MAX, FULL_WEIGHT_BPS
<1> HIDE DEF q
<1>4. q <= 1000 /\ 80 * q <= x /\ x <= 80 * q + 79
  BY <1>1, <1>2
<1> QED BY <1>1, <1>2, <1>3, <1>4 DEF SCORE_MAX

LEMMA BlendIs ==
  ASSUME NEW native \in 0..SCORE_MAX, NEW imported \in 0..SCORE_MAX, NEW exposure \in Nat
  PROVE  /\ Blended(native, imported, Lean(exposure)) \in Nat
         /\ Blend(native, imported, exposure) = Blended(native, imported, Lean(exposure)) \div BPS
<1> DEFINE a == Lean(exposure)
<1>1. a \in Nat /\ a <= BPS
  BY LeanBounds
<1>2. Blend(native, imported, exposure) = (native * a + imported * (BPS - a)) \div BPS
  BY DEF Blend, Lean
<1> HIDE DEF a
<1>3. native \in Nat /\ imported \in Nat /\ a \in Nat /\ BPS - a \in Nat /\ BPS \in Nat
  BY <1>1 DEF BPS, SCORE_MAX
<1>4. native * a \in Nat /\ imported * (BPS - a) \in Nat
  BY <1>3
<1>5. native * a + imported * (BPS - a) = Blended(native, imported, a)
  BY <1>3 DEF Blended
<1> QED BY <1>2, <1>4, <1>5 DEF a

\* The score is no less for more exposure, when the native score is not below
\* the imported one.
LEMMA BlendLeans ==
  ASSUME NEW native \in 0..SCORE_MAX, NEW imported \in 0..SCORE_MAX, imported <= native,
         NEW exposure \in Nat, NEW more \in Nat, exposure <= more
  PROVE  Blend(native, imported, exposure) <= Blend(native, imported, more)
<1> DEFINE a == Lean(exposure)
           b == Lean(more)
           d == native - imported
<1>1. a \in Nat /\ b \in Nat /\ a <= b
  <2>1. Smaller(exposure, FULL_WEIGHT_BPS) <= Smaller(more, FULL_WEIGHT_BPS)
    BY DEF Smaller, FULL_WEIGHT_BPS
  <2> DEFINE c == Smaller(exposure, FULL_WEIGHT_BPS)
             e == Smaller(more, FULL_WEIGHT_BPS)
  <2>2. c \in Nat /\ e \in Nat /\ c <= e /\ BPS \in Nat /\ BPS <= BPS
        /\ FULL_WEIGHT_BPS \in Nat \ {0} /\ FULL_WEIGHT_BPS <= FULL_WEIGHT_BPS
    BY <2>1 DEF Smaller, FULL_WEIGHT_BPS, BPS
  <2>3. a = (c * BPS) \div FULL_WEIGHT_BPS /\ b = (e * BPS) \div FULL_WEIGHT_BPS
    BY DEF Lean
  <2> HIDE DEF c, e
  <2>4. c * BPS \in Nat /\ e * BPS \in Nat /\ c * BPS <= e * BPS
    BY <2>2, TimesGrows
  <2>5. (c * BPS) \div FULL_WEIGHT_BPS <= (e * BPS) \div FULL_WEIGHT_BPS
    BY <2>2, <2>4, DivGrows
  <2>6. a \in Nat /\ b \in Nat
    BY LeanBounds
  <2> QED BY <2>3, <2>5, <2>6
<1> HIDE DEF a, b
<1>2. d \in Nat /\ imported \in Nat
  BY DEF SCORE_MAX
<1> HIDE DEF d
<1>3. d * a <= d * b /\ d * a \in Nat /\ d * b \in Nat
  BY <1>1, <1>2
<1>4. /\ Blended(native, imported, a) \in Nat /\ Blended(native, imported, b) \in Nat
      /\ Blended(native, imported, a) <= Blended(native, imported, b)
  <2>1. imported * BPS \in Nat
    BY <1>2 DEF BPS
  <2> QED BY <1>2, <1>3, <2>1 DEF Blended, d
<1>5. BPS \in Nat \ {0} /\ BPS <= BPS
  BY DEF BPS
<1>6. Blended(native, imported, a) \div BPS <= Blended(native, imported, b) \div BPS
  BY <1>4, <1>5, DivGrows
<1> QED BY <1>6, BlendIs DEF a, b

\* The tier is no less for a higher score and more imported or recorded loans.
LEMMA TierGrows ==
  ASSUME NEW score \in Nat, NEW more \in Nat, score <= more,
         NEW on_time \in Nat, NEW again \in Nat, on_time <= again,
         NEW weight \in Nat, NEW heavier \in Nat, weight <= heavier,
         NEW last \in Nat, NEW at \in Nat
  PROVE  ComputeTier(score, on_time, weight, last, at)
           <= ComputeTier(more, again, heavier, last, at)
<1> DEFINE clean == last = 0 \/ at - last >= LIQUIDATION_COOLDOWN_SECS
           gold(s, n, w) == /\ clean /\ s >= GOLD_MIN_SCORE /\ n >= GOLD_MIN_ON_TIME
                            /\ w >= GOLD_MIN_WEIGHT_BPS
           silver(s, n, w) == /\ clean /\ s >= SILVER_MIN_SCORE /\ n >= SILVER_MIN_ON_TIME
                              /\ w >= SILVER_MIN_WEIGHT_BPS
<1>1. \A s, n, w : ComputeTier(s, n, w, last, at) =
                     IF s = 0 THEN 0 ELSE IF gold(s, n, w) THEN 3
                     ELSE IF silver(s, n, w) THEN 2 ELSE 1
  BY DEF ComputeTier, UNPROVEN, BRONZE, SILVER, GOLD
<1> HIDE DEF clean
<1>2. gold(score, on_time, weight) => gold(more, again, heavier)
  BY DEF GOLD_MIN_SCORE, GOLD_MIN_ON_TIME, GOLD_MIN_WEIGHT_BPS
<1>3. silver(score, on_time, weight) => silver(more, again, heavier)
  BY DEF SILVER_MIN_SCORE, SILVER_MIN_ON_TIME, SILVER_MIN_WEIGHT_BPS
<1>4. score # 0 => more # 0
  OBVIOUS
<1> HIDE DEF gold, silver
<1> QED BY <1>1, <1>2, <1>3, <1>4

\* Within 90 days of a bad outcome the tier is Unproven or Bronze.
LEMMA TierWhenBlocked ==
  ASSUME NEW score, NEW on_time, NEW weight, NEW at \in Nat \ {0}
  PROVE  ComputeTier(score, on_time, weight, at, at) = IF score = 0 THEN UNPROVEN ELSE BRONZE
<1> DEFINE C == LIQUIDATION_COOLDOWN_SECS
<1>1. ~(at = 0 \/ at - at >= C)
  <2>1. C \in Nat \ {0}
    BY Units
  <2> HIDE DEF C
  <2> QED BY <2>1
<1> QED BY <1>1 DEF ComputeTier, C

\* The score does not rise when the native score falls, and by less than a point
\* when rounding hides the fall.
Outweighed(plus, minus, penalized, imported, exposure, exposed) ==
  LET before == NativeComponent(plus, minus)
      after == NativeComponent(plus, penalized)
      P == Blended(before, imported, Lean(exposure))
      Q == Blended(after, imported, Lean(exposed))
  IN  after <= before /\ Q <= P + 5000 /\ (after # before => Q <= P)

\* What a penalty of twice the weight w takes from the native score outweighs
\* the w that its exposure leans the blend.
LEMMA PenaltyOutweighs ==
  ASSUME NEW plus \in Nat, NEW minus \in Nat, NEW penalized \in Nat, NEW w \in Nat,
         NEW imported \in Nat, NEW exposure \in Nat, NEW exposed \in Nat,
         plus <= exposure, exposure <= exposed, exposed <= exposure + w,
         minus <= penalized, penalized >= plus \/ penalized >= minus + 2 * w,
         imported <= NativeComponent(plus, minus)
  PROVE  Outweighed(plus, minus, penalized, imported, exposure, exposed)
<1> DEFINE n == NativeComponent(plus, minus)
           m == NativeComponent(plus, penalized)
           x == SatSub(Smaller(plus, FULL_WEIGHT_BPS), minus)
           y == SatSub(Smaller(plus, FULL_WEIGHT_BPS), penalized)
           c == Smaller(exposure, FULL_WEIGHT_BPS)
           d == Smaller(exposed, FULL_WEIGHT_BPS)
           a == Lean(exposure)
           b == Lean(exposed)
           P == Blended(n, imported, a)
           Q == Blended(m, imported, b)
<1>1. x \in Nat /\ n \in Nat /\ n <= SCORE_MAX /\ 80 * n <= x /\ x <= 80 * n + 79
  BY NativeBounds
<1>2. y \in Nat /\ m \in Nat /\ 80 * m <= y /\ y <= 80 * m + 79
  BY NativeBounds
<1>3. c \in Nat /\ a \in Nat /\ 8 * a <= c /\ c <= 8 * a + 7
  BY LeanBounds
<1>4. d \in Nat /\ b \in Nat /\ 8 * b <= d /\ d <= 8 * b + 7
  BY LeanBounds
<1>5. y <= x /\ x <= c /\ c <= d /\ d <= c + w /\ (y = 0 \/ y + 2 * w <= x)
  BY DEF SatSub, Smaller, FULL_WEIGHT_BPS
<1>6. n <= 1000 /\ imported <= n
  BY <1>1 DEF SCORE_MAX
<1> HIDE DEF n, m, x, y, c, d, a, b
<1> DEFINE k == n - m
           N == n - imported
<1>7. m <= n /\ 10 * n <= a /\ a <= b /\ (m > 0 => b <= a + 5 * k + 5)
  BY <1>1, <1>2, <1>3, <1>4, <1>5
<1>8. k \in Nat /\ N \in Nat /\ N <= 1000 /\ 10 * N <= a
  <2>1. n \in Nat /\ m \in Nat /\ m <= n /\ n <= 1000 /\ imported <= n /\ 10 * n <= a
    BY <1>1, <1>2, <1>6, <1>7
  <2> HIDE DEF P, Q
  <2> QED BY <1>3, <2>1
<1>9. P = imported * BPS + N * a /\ Q = imported * BPS + (N - k) * b
  <2>1. m - imported = N - k
    BY <1>1, <1>2
  <2> QED BY <2>1 DEF Blended
<1>10. ASSUME m <= imported PROVE Q <= P + 5000 /\ (m # n => Q <= P)
  <2>1. N - k <= 0 /\ N - k \in Int
    BY <1>1, <1>2, <1>8, <1>10
  <2> HIDE DEF k, N
  <2>2. (N - k) * b <= 0 /\ 0 <= N * a /\ (N - k) * b \in Int /\ N * a \in Int
    BY <1>3, <1>4, <1>8, <2>1
  <2>3. imported * BPS \in Int
    BY DEF BPS
  <2> HIDE DEF P, Q
  <2>4. Q <= P /\ P \in Int /\ Q \in Int
    BY <1>9, <2>2, <2>3
  <2> QED BY <1>7, <2>4
<1>11. ASSUME m > imported PROVE Q <= P + 5000 /\ (m # n => Q <= P)
  <2>1. N - k \in Nat /\ b <= a + 5 * k + 5
    BY <1>1, <1>2, <1>7, <1>11
  <2> HIDE DEF k, N
  <2>2. (N - k) * b <= (N - k) * (a + 5 * k + 5)
    BY <1>3, <1>4, <1>8, <2>1
  <2>3. (N - k) * (a + 5 * k + 5) = N * a + 5 * (N * k) + 5 * N - k * a - 5 * (k * k) - 5 * k
    BY <1>3, <1>8, <2>1
  <2>4. k * a >= 10 * (N * k) /\ N * k \in Nat /\ k * k \in Nat /\ k * a \in Nat /\ N * a \in Nat
    <3>1. k * a >= k * (10 * N)
      BY <1>3, <1>8
    <3>2. k * (10 * N) = 10 * (N * k)
      BY <1>8
    <3> QED BY <1>3, <1>8, <3>1, <3>2
  <2>5. k > 0 => N * k >= N
    BY <1>8
  <2>6. (N - k) * b \in Int
    BY <1>4, <2>1
  <2>7. (N - k) * b <= N * a + 5000 /\ (k > 0 => (N - k) * b <= N * a)
    BY <1>8, <2>2, <2>3, <2>4, <2>5, <2>6
  <2>8. imported * BPS \in Int
    BY DEF BPS
  <2> HIDE DEF P, Q
  <2>9. P \in Int /\ Q \in Int /\ Q <= P + 5000 /\ (k > 0 => Q <= P)
    BY <1>9, <2>4, <2>6, <2>7, <2>8
  <2>10. m # n => k > 0
    BY <1>1, <1>2, <1>7 DEF k
  <2> QED BY <1>7, <2>9, <2>10
<1>12. m <= n /\ Q <= P + 5000 /\ (m # n => Q <= P)
  <2> HIDE DEF P, Q
  <2>1. imported \in Nat /\ (m <= imported \/ m > imported)
    BY <1>2
  <2> QED BY <1>7, <1>10, <1>11, <2>1
<1> QED BY <1>12 DEF Outweighed, n, m, a, b

-----------------------------------------------------------------------------
(* The invariants *)

\* Every record is of a wallet with an account, which remembers the last bad one.
DatesKept ==
  /\ \A w \in Scored : reputation[w].last_liquidation_date <= now
  /\ \A a \in attestations :
       /\ a.borrower \in Scored
       /\ a.outcome \in {LIQUIDATED, DEFAULTED} =>
            /\ a.closed_at # 0
            /\ a.closed_at <= reputation[a.borrower].last_liquidation_date

\* The inductive invariant.
IInv ==
  /\ TypeOK
  /\ now # 0
  /\ IsFiniteSet(whitelist)
  /\ CacheIsFloor
  /\ DatesKept

-----------------------------------------------------------------------------
(* Accounts *)

LEMMA Constants ==
  /\ SCORE_MAX \in Nat /\ MAX_U16 \in Nat /\ MAX_U64 \in Nat /\ MAX_WRITERS \in Nat
  /\ \A x : UpTo(x, SCORE_MAX) <=> x \in 0..SCORE_MAX
<1>1. SCORE_MAX \in Nat
  BY DEF SCORE_MAX
<1>2. \A x : UpTo(x, SCORE_MAX) <=> x \in 0..SCORE_MAX
  BY <1>1 DEF UpTo
<1> QED BY <1>1, <1>2, TrustTrailAssumption

LEMMA Saturating ==
  /\ \A a, b \in Nat : SatAdd16(a, b) \in 0..MAX_U16
  /\ \A a, b \in Nat : SatAdd64(a, b) \in 0..MAX_U64
  BY Constants DEF SatAdd16, SatAdd64, Smaller

\* What the fields of an account say as numbers.
LEMMA AccountFields ==
  ASSUME NEW r \in UserReputationV2
  PROVE  /\ r.s_plus_bps \in Nat /\ r.s_minus_bps \in Nat /\ r.s_minus_at \in Nat
         /\ r.exposure_bps \in Nat /\ r.total_usdc_repaid \in Nat
         /\ r.meaningful_on_time \in Nat /\ r.meaningful_weight_bps \in Nat
         /\ r.loans_repaid_on_time \in Nat /\ r.late_repaid_loans \in Nat
         /\ r.liquidated_loans \in Nat /\ r.current_on_time_streak \in Nat
         /\ r.last_liquidation_date \in Nat
         /\ UpTo(r.imported_score, SCORE_MAX) /\ r.score \in Nat
<1>1. /\ r.s_plus_bps \in 0..MAX_U64 /\ r.s_minus_bps \in 0..MAX_U64
      /\ r.exposure_bps \in 0..MAX_U64 /\ r.total_usdc_repaid \in 0..MAX_U64
      /\ r.meaningful_on_time \in 0..MAX_U16 /\ r.meaningful_weight_bps \in 0..MAX_U64
      /\ r.loans_repaid_on_time \in 0..MAX_U16 /\ r.late_repaid_loans \in 0..MAX_U16
      /\ r.liquidated_loans \in 0..MAX_U16 /\ r.current_on_time_streak \in 0..MAX_U16
      /\ r.last_liquidation_date \in Nat /\ r.s_minus_at \in Nat
      /\ r.imported_score \in 0..SCORE_MAX /\ r.score \in 0..SCORE_MAX
  BY DEF UserReputationV2
<1> QED BY <1>1, Constants

\* The standing of an account is in range, and time alone never lowers it: the
\* penalty fades and the 90 days only pass.
LEMMA StandingRises ==
  ASSUME NEW r \in UserReputationV2, NEW at \in Nat, NEW later \in Nat, at <= later
  PROVE  /\ Standing(r, at).native \in 0..SCORE_MAX /\ Standing(r, at).score \in 0..SCORE_MAX
         /\ Standing(r, at).tier \in Tiers
         /\ Standing(r, at).score \in Nat /\ Standing(r, later).score \in Nat
         /\ Standing(r, at).score <= Standing(r, later).score
         /\ Standing(r, at).tier <= Standing(r, later).tier
<1> DEFINE m(t) == DecayBps(r.s_minus_bps, r.s_minus_at, t)
           n(t) == NativeComponent(r.s_plus_bps, m(t))
           s(t) == Blend(n(t), r.imported_score, r.exposure_bps)
           k(t) == ComputeTier(s(t), r.meaningful_on_time, r.meaningful_weight_bps,
                               r.last_liquidation_date, t)
<1>1. \A t : Standing(r, t) = [native |-> n(t), score |-> s(t), tier |-> k(t)]
  BY DEF Standing
<1>2. m(at) \in Nat /\ m(later) \in Nat /\ m(later) <= m(at)
  BY AccountFields, DecayNat, DecayFalls
<1> HIDE DEF m
<1>3. m(later) <= m(later)
  BY <1>2
<1>4. UpTo(n(at), SCORE_MAX) /\ UpTo(n(later), SCORE_MAX) /\ n(at) <= n(later)
  BY <1>2, <1>3, AccountFields, NativeRises
<1> HIDE DEF n
<1>5. n(later) <= n(later)
  BY <1>4 DEF UpTo
<1>6. UpTo(s(at), SCORE_MAX) /\ UpTo(s(later), SCORE_MAX) /\ s(at) <= s(later)
  BY <1>4, <1>5, AccountFields, BlendRises
<1> HIDE DEF s
<1>7. s(at) \in Nat /\ s(later) \in Nat
  BY <1>6 DEF UpTo
<1>8. k(at) \in Tiers /\ k(at) <= k(later)
  BY <1>6, <1>7, AccountFields, TierRises
<1> HIDE DEF k
<1> QED BY <1>1, <1>4, <1>6, <1>7, <1>8, Constants

\* A refresh changes nothing the standing is computed from, and caches it.
LEMMA RefreshCaches ==
  ASSUME NEW r \in UserReputationV2, NEW at \in Nat
  PROVE  LET q == Refreshed(r, at)
         IN  /\ q \in UserReputationV2
             /\ Standing(q, at) = Standing(r, at)
             /\ q.score = Standing(r, at).score /\ q.tier = Standing(r, at).tier
             /\ q.last_liquidation_date = r.last_liquidation_date
<1> DEFINE s == Standing(r, at)
           q == Refreshed(r, at)
<1>1. s.native \in 0..SCORE_MAX /\ s.score \in 0..SCORE_MAX /\ s.tier \in Tiers
  <2>1. at <= at
    OBVIOUS
  <2> QED BY <2>1, StandingRises
<1>2. q = [r EXCEPT !.native_score = s.native, !.score = s.score, !.tier = s.tier, !.last_update = at]
  BY DEF Refreshed
<1> HIDE DEF s, q
<1>3. /\ q \in UserReputationV2
      /\ q.score = s.score /\ q.tier = s.tier
      /\ q.s_plus_bps = r.s_plus_bps /\ q.s_minus_bps = r.s_minus_bps
      /\ q.s_minus_at = r.s_minus_at /\ q.imported_score = r.imported_score
      /\ q.exposure_bps = r.exposure_bps /\ q.meaningful_on_time = r.meaningful_on_time
      /\ q.meaningful_weight_bps = r.meaningful_weight_bps
      /\ q.last_liquidation_date = r.last_liquidation_date
  BY <1>1, <1>2 DEF UserReputationV2
<1>4. Standing(q, at) = Standing(r, at)
  BY <1>3 DEF Standing
<1> QED BY <1>3, <1>4 DEF s, q

\* record_event keeps an account an account, and dates a bad outcome.
LEMMA RecordedAccount ==
  ASSUME NEW r \in UserReputationV2, now \in Nat, NEW principal \in Nat,
         NEW opened_at \in Nat, NEW due_at, NEW outcome
  PROVE  LET q == Recorded(r, principal, opened_at, due_at, outcome)
         IN  /\ q \in UserReputationV2
             /\ q.last_liquidation_date =
                  IF outcome \in {ON_TIME, LATE} THEN r.last_liquidation_date ELSE now
<1> DEFINE counts == outcome = ON_TIME /\ MeaningfulLoan(principal, opened_at, now, outcome)
           repaid == outcome \in {ON_TIME, LATE}
           Count(x, when) == IF when THEN SatAdd16(x, 1) ELSE x
           plus == SatAdd64(r.s_plus_bps, PlusBps(principal, opened_at, now, due_at, outcome))
           minus == PenaltyNow(r, principal, outcome)
           exposure == SatAdd64(r.exposure_bps, ExposureWeightBps(principal, opened_at, now, outcome))
           on_time == Count(r.meaningful_on_time, counts)
           weight == IF counts THEN SatAdd64(r.meaningful_weight_bps, PrincipalWeightBps(principal))
                     ELSE r.meaningful_weight_bps
           good == Count(r.loans_repaid_on_time, outcome = ON_TIME)
           late == Count(r.late_repaid_loans, outcome = LATE)
           bad == Count(r.liquidated_loans, ~repaid)
           streak == IF outcome = ON_TIME THEN SatAdd16(r.current_on_time_streak, 1) ELSE 0
           total == IF repaid THEN SatAdd64(r.total_usdc_repaid, principal) ELSE r.total_usdc_repaid
           date == IF repaid THEN r.last_liquidation_date ELSE now
           q == Recorded(r, principal, opened_at, due_at, outcome)
<1>1. /\ PlusBps(principal, opened_at, now, due_at, outcome) \in Nat
      /\ MinusBps(principal, outcome) \in Nat
      /\ ExposureWeightBps(principal, opened_at, now, outcome) \in Nat
      /\ PrincipalWeightBps(principal) \in Nat
  BY ContributionsNat, WeightNat
<1>2. plus \in 0..MAX_U64 /\ exposure \in 0..MAX_U64
  BY <1>1, AccountFields, Saturating
<1>3. minus \in 0..MAX_U64
  <2>1. DecayBps(r.s_minus_bps, r.s_minus_at, now) \in Nat
    BY AccountFields, DecayNat
  <2> QED BY <1>1, <2>1, Saturating DEF PenaltyNow
<1>4. /\ r.meaningful_on_time \in 0..MAX_U16 /\ r.loans_repaid_on_time \in 0..MAX_U16
      /\ r.late_repaid_loans \in 0..MAX_U16 /\ r.liquidated_loans \in 0..MAX_U16
      /\ r.meaningful_weight_bps \in 0..MAX_U64 /\ r.total_usdc_repaid \in 0..MAX_U64
      /\ r.last_liquidation_date \in Nat
  BY DEF UserReputationV2
<1>5. \A x \in 0..MAX_U16 : SatAdd16(x, 1) \in 0..MAX_U16
  <2>1. \A x \in 0..MAX_U16 : x \in Nat /\ 1 \in Nat
    BY Constants
  <2> QED BY <2>1, Saturating
<1>6. on_time \in 0..MAX_U16 /\ good \in 0..MAX_U16 /\ late \in 0..MAX_U16 /\ bad \in 0..MAX_U16
  BY <1>4, <1>5
<1>7. weight \in 0..MAX_U64 /\ total \in 0..MAX_U64
  BY <1>1, <1>4, AccountFields, Saturating
<1>8. streak \in 0..MAX_U16
  <2>1. 0 \in 0..MAX_U16 /\ 1 \in Nat
    BY Constants
  <2> QED BY <2>1, AccountFields, Saturating
<1>9. date \in Nat
  BY <1>4
<1>10. q = [r EXCEPT !.s_plus_bps = plus, !.s_minus_bps = minus, !.s_minus_at = now,
                     !.exposure_bps = exposure, !.meaningful_on_time = on_time,
                     !.meaningful_weight_bps = weight, !.loans_repaid_on_time = good,
                     !.late_repaid_loans = late, !.liquidated_loans = bad,
                     !.current_on_time_streak = streak, !.total_usdc_repaid = total,
                     !.last_liquidation_date = date]
  BY DEF Recorded
<1>11. date = IF outcome \in {ON_TIME, LATE} THEN r.last_liquidation_date ELSE now
  OBVIOUS
<1> HIDE DEF plus, minus, exposure, on_time, weight, good, late, bad, streak, total, date, q
<1>12. q \in UserReputationV2 /\ q.last_liquidation_date = date
  BY <1>2, <1>3, <1>6, <1>7, <1>8, <1>9, <1>10 DEF UserReputationV2
<1> QED BY <1>11, <1>12 DEF q

\* set_imported_score keeps an account an account.
LEMMA ImportedAccount ==
  ASSUME NEW r \in UserReputationV2, now \in Nat,
         NEW import \in [score : Nat, on_time : Nat, weight : Nat], import.score <= SCORE_MAX
  PROVE  /\ Imported(r, import) \in UserReputationV2
         /\ Imported(r, import).last_liquidation_date = r.last_liquidation_date
<1> DEFINE on_time == SatAdd16(r.meaningful_on_time, import.on_time)
           weight == SatAdd64(r.meaningful_weight_bps, import.weight)
           score == import.score
<1>1. on_time \in 0..MAX_U16 /\ weight \in 0..MAX_U64
  BY AccountFields, Saturating
<1>2. score \in 0..SCORE_MAX
  <2>1. score \in Nat
    OBVIOUS
  <2> QED BY <2>1, Constants
<1> DEFINE q == Imported(r, import)
<1>3. q = [r EXCEPT !.imported_score = score, !.import_date = now,
                    !.meaningful_on_time = on_time, !.meaningful_weight_bps = weight]
  BY DEF Imported
<1> HIDE DEF on_time, weight, score, q
<1>4. q \in UserReputationV2
  BY <1>1, <1>2, <1>3 DEF UserReputationV2
<1>5. q.last_liquidation_date = r.last_liquidation_date
  BY <1>3 DEF UserReputationV2
<1> QED BY <1>4, <1>5 DEF q

-----------------------------------------------------------------------------
(* The invariant *)

LEMMA OutcomesSplit ==
  /\ \A o \in {ON_TIME, LATE} : o \notin {LIQUIDATED, DEFAULTED}
  /\ {LIQUIDATED, DEFAULTED} \subseteq Outcomes
  /\ \A o \in {LIQUIDATED, DEFAULTED} : o \notin {ON_TIME, LATE}
BY DEF ON_TIME, LATE, LIQUIDATED, DEFAULTED, Outcomes

LEMMA InitIInv == Init => IInv
<1> SUFFICES ASSUME Init PROVE IInv
  OBVIOUS
<1>1. now \in Nat /\ now # 0
  BY TrustTrailAssumption DEF Init
<1>2. IsFiniteSet(whitelist) /\ Cardinality(whitelist) <= MAX_WRITERS
  BY FS_EmptySet, Constants DEF Init
<1>3. Scored = {} /\ attestations = {} /\ whitelist = {}
  BY DEF Init, Scored
<1>4. reputation \in [Wallets -> UserReputationV2 \cup {NoAccount}]
  BY DEF Init
<1>5. TypeOK
  BY <1>1, <1>2, <1>3, <1>4 DEF TypeOK
<1>6. CacheIsFloor /\ DatesKept
  BY <1>3 DEF CacheIsFloor, DatesKept
<1> QED BY <1>1, <1>2, <1>5, <1>6 DEF IInv

\* An account that exists is one.
LEMMA ScoredAccount ==
  ASSUME TypeOK, NEW w \in Scored
  PROVE  w \in Wallets /\ reputation[w] \in UserReputationV2
  BY DEF TypeOK, Scored

\* What an instruction does that leaves one wallet w with a refreshed account,
\* and the records as they are.
LEMMA RefreshKeeps ==
  ASSUME IInv, NEW w \in Scored, NEW q \in UserReputationV2, now' = now,
         reputation' = [reputation EXCEPT ![w] = Refreshed(q, now)]
  PROVE  /\ Scored' = Scored
         /\ reputation' \in [Wallets -> UserReputationV2 \cup {NoAccount}]
         /\ CacheIsFloor'
         /\ reputation'[w].last_liquidation_date = q.last_liquidation_date
         /\ \A v \in Scored \ {w} : reputation'[v] = reputation[v]
<1> DEFINE f == Refreshed(q, now)
<1>1. /\ w \in Wallets /\ now \in Nat /\ f \in UserReputationV2
      /\ Standing(f, now) = Standing(q, now) /\ f.score = Standing(q, now).score
      /\ f.tier = Standing(q, now).tier /\ f.last_liquidation_date = q.last_liquidation_date
  <2>1. w \in Wallets /\ now \in Nat
    BY ScoredAccount DEF IInv, TypeOK
  <2> QED BY <2>1, RefreshCaches
<1>2. reputation' = [reputation EXCEPT ![w] = f]
  OBVIOUS
<1> HIDE DEF f
<1>3. /\ reputation \in [Wallets -> UserReputationV2 \cup {NoAccount}]
      /\ reputation' \in [Wallets -> UserReputationV2 \cup {NoAccount}]
      /\ reputation'[w] = f /\ \A v \in Wallets \ {w} : reputation'[v] = reputation[v]
  BY <1>1, <1>2 DEF IInv, TypeOK
<1>4. f # NoAccount
  BY <1>1, AccountAssumption
<1>5. Scored' = Scored
  BY <1>3, <1>4 DEF Scored
<1>6. Scored \subseteq Wallets
  BY DEF Scored
<1>7. CacheIsFloor'
  <2> SUFFICES ASSUME NEW v \in Scored
               PROVE  /\ reputation'[v].score <= Standing(reputation'[v], now).score
                      /\ reputation'[v].tier <= Standing(reputation'[v], now).tier
    BY <1>5 DEF CacheIsFloor, Live
  <2>1. CASE v = w
    <3>1. now <= now
      BY <1>1
    <3>2. Standing(q, now).score \in Nat /\ Standing(q, now).tier <= Standing(q, now).tier
      BY <1>1, <3>1, StandingRises
    <3>3. Standing(q, now).score <= Standing(q, now).score
      BY <3>2
    <3> QED BY <1>1, <1>3, <2>1, <3>2, <3>3
  <2>2. CASE v # w
    <3>1. reputation'[v] = reputation[v]
      BY <1>3, <1>6, <2>2
    <3>2. /\ reputation[v].score <= Standing(reputation[v], now).score
          /\ reputation[v].tier <= Standing(reputation[v], now).tier
      BY DEF IInv, CacheIsFloor, Live
    <3> QED BY <3>1, <3>2
  <2> QED BY <2>1, <2>2
<1> QED BY <1>1, <1>3, <1>5, <1>6, <1>7

\* A refreshed account whose date is as it was keeps the invariant.
LEMMA RefreshInv ==
  ASSUME IInv, NEW w \in Scored, NEW q \in UserReputationV2, now' = now,
         reputation' = [reputation EXCEPT ![w] = Refreshed(q, now)],
         UNCHANGED <<whitelist, attestations>>,
         q.last_liquidation_date = reputation[w].last_liquidation_date
  PROVE  IInv'
<1>1. /\ Scored' = Scored /\ CacheIsFloor'
      /\ reputation' \in [Wallets -> UserReputationV2 \cup {NoAccount}]
      /\ \A v \in Scored : reputation'[v].last_liquidation_date = reputation[v].last_liquidation_date
  <2>1. /\ Scored' = Scored /\ CacheIsFloor'
        /\ reputation' \in [Wallets -> UserReputationV2 \cup {NoAccount}]
        /\ reputation'[w].last_liquidation_date = q.last_liquidation_date
        /\ \A v \in Scored \ {w} : reputation'[v] = reputation[v]
    BY RefreshKeeps
  <2> QED BY <2>1
<1>2. TypeOK'
  BY <1>1 DEF IInv, TypeOK
<1>3. DatesKept'
  BY <1>1 DEF IInv, DatesKept
<1> QED BY <1>1, <1>2, <1>3 DEF IInv

LEMMA RecordEventInv ==
  ASSUME IInv, NEW writer \in Writers, NEW w \in Wallets, NEW principal \in Principals,
         NEW opened_at \in OpenDates, NEW due_at \in DueDates, NEW outcome \in Outcomes,
         NEW loan \in LoanKeys,
         RecordEvent(writer, w, principal, opened_at, due_at, outcome, loan)
  PROVE  IInv'
<1> DEFINE q == Recorded(reputation[w], principal, opened_at, due_at, outcome)
           new == [loan |-> loan, borrower |-> w, lender |-> writer, principal |-> principal,
                   opened_at |-> opened_at, due_at |-> due_at, closed_at |-> now,
                   outcome |-> outcome]
           date == reputation[w].last_liquidation_date
<1>1. /\ w \in Scored /\ now' = now /\ whitelist' = whitelist
      /\ attestations' = attestations \cup {new}
      /\ reputation' = [reputation EXCEPT ![w] = Refreshed(q, now)]
  BY DEF RecordEvent
<1>2. /\ principal \in Nat /\ opened_at \in Nat /\ due_at \in Nat
      /\ now \in Nat /\ now # 0 /\ now <= now
  BY TrustTrailAssumption DEF IInv, TypeOK
<1>3. reputation[w] \in UserReputationV2
  BY <1>1, ScoredAccount DEF IInv
<1>4. /\ q \in UserReputationV2
      /\ q.last_liquidation_date = IF outcome \in {ON_TIME, LATE} THEN date ELSE now
  <2> DEFINE r == reputation[w]
  <2>1. r \in UserReputationV2
    BY <1>3
  <2> HIDE DEF r
  <2>2. LET s == Recorded(r, principal, opened_at, due_at, outcome)
        IN  /\ s \in UserReputationV2
            /\ s.last_liquidation_date =
                 IF outcome \in {ON_TIME, LATE} THEN r.last_liquidation_date ELSE now
    BY <1>2, <2>1, RecordedAccount
  <2> QED BY <2>2 DEF r
<1>5. date \in Nat /\ date <= now
  BY <1>1, <1>3, AccountFields DEF IInv, DatesKept
<1>6. new \in Attestation
  BY <1>2 DEF Attestation
<1>7. new.borrower = w /\ new.outcome = outcome /\ new.closed_at = now
  OBVIOUS
<1> HIDE DEF q, new, date
<1>8. /\ Scored' = Scored /\ CacheIsFloor'
      /\ reputation' \in [Wallets -> UserReputationV2 \cup {NoAccount}]
      /\ reputation'[w].last_liquidation_date = q.last_liquidation_date
      /\ \A v \in Scored \ {w} : reputation'[v] = reputation[v]
  BY <1>1, <1>4, RefreshKeeps
<1>9. TypeOK'
  <2>1. attestations' \subseteq Attestation
    BY <1>1, <1>6 DEF IInv, TypeOK
  <2> QED BY <1>1, <1>8, <2>1 DEF IInv, TypeOK
<1>10. /\ date <= reputation'[w].last_liquidation_date
       /\ reputation'[w].last_liquidation_date <= now
       /\ outcome \in {LIQUIDATED, DEFAULTED} => reputation'[w].last_liquidation_date = now
  BY <1>2, <1>4, <1>5, <1>8, OutcomesSplit
<1>11. \A v \in Scored' : reputation'[v].last_liquidation_date <= now'
  BY <1>1, <1>8, <1>10 DEF IInv, DatesKept
<1>12. ASSUME NEW a \in attestations'
       PROVE  /\ a.borrower \in Scored'
              /\ a.outcome \in {LIQUIDATED, DEFAULTED} =>
                   /\ a.closed_at # 0
                   /\ a.closed_at <= reputation'[a.borrower].last_liquidation_date
  <2>1. CASE a = new
    BY <1>1, <1>2, <1>7, <1>8, <1>10, <2>1
  <2>2. CASE a \in attestations
    <3>1. /\ a.borrower \in Scored
          /\ a.outcome \in {LIQUIDATED, DEFAULTED} =>
               /\ a.closed_at # 0
               /\ a.closed_at <= reputation[a.borrower].last_liquidation_date
      BY <2>2 DEF IInv, DatesKept
    <3>2. CASE a.borrower # w
      BY <1>8, <3>1, <3>2
    <3>3. CASE a.borrower = w
      <4>1. a.closed_at \in Nat
        BY <2>2 DEF IInv, TypeOK, Attestation
      <4>2. reputation'[w].last_liquidation_date \in Nat
        BY <1>2, <1>4, <1>5, <1>8
      <4>3. a.outcome \in {LIQUIDATED, DEFAULTED} => a.closed_at <= date
        BY <3>1, <3>3 DEF date
      <4>4. a.outcome \in {LIQUIDATED, DEFAULTED} =>
              a.closed_at <= reputation'[w].last_liquidation_date
        BY <1>5, <1>10, <4>1, <4>2, <4>3
      <4> QED BY <1>8, <3>1, <3>3, <4>4
    <3> QED BY <3>2, <3>3
  <2> QED BY <1>1, <2>1, <2>2
<1>13. DatesKept'
  BY <1>11, <1>12 DEF DatesKept
<1> QED BY <1>1, <1>8, <1>9, <1>13 DEF IInv

LEMMA InitScoreInv ==
  ASSUME IInv, NEW w \in Wallets, InitScore(w)
  PROVE  IInv'
<1> DEFINE new == reputation'[w]
<1>1. /\ w \notin Scored /\ now \in Nat /\ now' = now /\ whitelist' = whitelist
      /\ attestations' = attestations
  BY DEF InitScore, Scored, IInv, TypeOK
<1>2. /\ 0 \in 0..SCORE_MAX /\ 0 \in 0..MAX_U16 /\ 0 \in 0..MAX_U64 /\ UNPROVEN \in Tiers
  BY Constants DEF UNPROVEN, Tiers
<1>3. /\ new \in UserReputationV2
      /\ new.score = 0 /\ new.tier = UNPROVEN /\ new.last_liquidation_date = 0
  BY <1>1, <1>2 DEF InitScore, IInv, TypeOK, UserReputationV2
<1>4. /\ reputation' \in [Wallets -> UserReputationV2 \cup {NoAccount}]
      /\ \A v \in Wallets \ {w} : reputation'[v] = reputation[v]
  <2>1. /\ DOMAIN reputation' = Wallets /\ \A v \in Wallets \ {w} : reputation'[v] = reputation[v]
        /\ reputation \in [Wallets -> UserReputationV2 \cup {NoAccount}]
        /\ reputation' = [v \in Wallets |-> reputation'[v]]
    BY DEF InitScore, IInv, TypeOK
  <2>2. \A v \in Wallets : reputation'[v] \in UserReputationV2 \cup {NoAccount}
    BY <1>3, <2>1
  <2> QED BY <2>1, <2>2
<1> HIDE DEF new
<1>5. Scored' = Scored \cup {w} /\ Scored \subseteq Wallets /\ reputation'[w] = new
  <2>1. new # NoAccount
    BY <1>3, AccountAssumption
  <2> QED BY <1>4, <2>1 DEF Scored, new
<1>6. TypeOK'
  BY <1>1, <1>4 DEF IInv, TypeOK
<1>7. CacheIsFloor'
  <2> SUFFICES ASSUME NEW v \in Scored'
               PROVE  /\ reputation'[v].score <= Standing(reputation'[v], now).score
                      /\ reputation'[v].tier <= Standing(reputation'[v], now).tier
    BY <1>1 DEF CacheIsFloor, Live
  <2>1. CASE v = w
    <3>1. now <= now
      BY <1>1
    <3>2. Standing(new, now).score \in Nat /\ Standing(new, now).tier \in Tiers
      BY <1>1, <1>3, <3>1, StandingRises
    <3> QED BY <1>3, <1>5, <2>1, <3>2 DEF UNPROVEN, Tiers
  <2>2. CASE v # w
    <3>1. v \in Scored /\ reputation'[v] = reputation[v]
      BY <1>4, <1>5, <2>2
    <3>2. /\ reputation[v].score <= Standing(reputation[v], now).score
          /\ reputation[v].tier <= Standing(reputation[v], now).tier
      BY <3>1 DEF IInv, CacheIsFloor, Live
    <3> QED BY <3>1, <3>2
  <2> QED BY <2>1, <2>2
<1>8. DatesKept'
  <2>1. \A v \in Scored : v # w /\ v \in Wallets \ {w} /\ reputation'[v] = reputation[v]
    BY <1>1, <1>4, <1>5
  <2>2. \A v \in Scored' : reputation'[v].last_liquidation_date <= now'
    BY <1>1, <1>3, <1>5, <2>1 DEF IInv, DatesKept
  <2> QED BY <1>1, <1>5, <2>1, <2>2 DEF IInv, DatesKept
<1> QED BY <1>1, <1>6, <1>7, <1>8 DEF IInv

LEMMA SetImportedScoreInv ==
  ASSUME IInv, NEW writer \in Writers, NEW w \in Wallets, NEW import \in Imports,
         SetImportedScore(writer, w, import)
  PROVE  IInv'
<1>1. /\ w \in Scored /\ now' = now /\ UNCHANGED <<whitelist, attestations>>
      /\ import.score <= SCORE_MAX
      /\ reputation' = [reputation EXCEPT ![w] = Refreshed(Imported(reputation[w], import), now)]
  BY DEF SetImportedScore
<1>2. reputation[w] \in UserReputationV2 /\ now \in Nat
  BY <1>1, ScoredAccount DEF IInv, TypeOK
<1>3. import \in [score : Nat, on_time : Nat, weight : Nat]
  BY TrustTrailAssumption
<1>4. /\ Imported(reputation[w], import) \in UserReputationV2
      /\ Imported(reputation[w], import).last_liquidation_date = reputation[w].last_liquidation_date
  BY <1>1, <1>2, <1>3, ImportedAccount
<1> QED BY <1>1, <1>4, RefreshInv

LEMMA SetExposureInv ==
  ASSUME IInv, NEW w \in Wallets, NEW exposure \in Exposures, SetExposure(w, exposure)
  PROVE  IInv'
<1> DEFINE q == [reputation[w] EXCEPT !.exposure_bps = exposure]
<1>1. /\ w \in Scored /\ now' = now /\ UNCHANGED <<whitelist, attestations>>
      /\ exposure <= reputation[w].exposure_bps
      /\ reputation' = [reputation EXCEPT ![w] = Refreshed(q, now)]
  BY DEF SetExposure
<1>2. reputation[w] \in UserReputationV2
  BY <1>1, ScoredAccount DEF IInv
<1>3. exposure \in 0..MAX_U64
  <2>1. exposure \in Nat /\ reputation[w].exposure_bps \in 0..MAX_U64
    BY <1>2, TrustTrailAssumption DEF UserReputationV2
  <2> QED BY <1>1, <2>1, Constants
<1>4. q \in UserReputationV2 /\ q.last_liquidation_date = reputation[w].last_liquidation_date
  BY <1>2, <1>3 DEF UserReputationV2
<1> QED BY <1>1, <1>4, RefreshInv

LEMMA WhitelistInv ==
  ASSUME IInv, NEW writer \in Writers, AddWriter(writer) \/ RemoveWriter(writer)
  PROVE  IInv'
<1>1. now' = now /\ reputation' = reputation /\ attestations' = attestations
  BY DEF AddWriter, RemoveWriter
<1>2. /\ whitelist' \subseteq Writers /\ IsFiniteSet(whitelist')
      /\ Cardinality(whitelist') <= MAX_WRITERS
  <2>1. IsFiniteSet(whitelist) /\ Cardinality(whitelist) \in Nat /\ Cardinality(whitelist) <= MAX_WRITERS
        /\ whitelist \subseteq Writers
    BY FS_CardinalityType DEF IInv, TypeOK
  <2>2. CASE AddWriter(writer)
    <3>1. /\ whitelist' = whitelist \cup {writer} /\ writer \notin whitelist
          /\ Cardinality(whitelist) < MAX_WRITERS
      BY <2>2 DEF AddWriter
    <3>2. IsFiniteSet(whitelist') /\ Cardinality(whitelist') = Cardinality(whitelist) + 1
      BY <2>1, <3>1, FS_AddElement
    <3>3. Cardinality(whitelist') <= MAX_WRITERS
      BY <2>1, <3>1, <3>2, Constants
    <3> QED BY <2>1, <3>1, <3>2, <3>3
  <2>3. CASE RemoveWriter(writer)
    <3>1. whitelist' = whitelist \ {writer} /\ writer \in whitelist
      BY <2>3 DEF RemoveWriter
    <3>2. IsFiniteSet(whitelist') /\ Cardinality(whitelist') = Cardinality(whitelist) - 1
      BY <2>1, <3>1, FS_RemoveElement
    <3>3. Cardinality(whitelist') <= MAX_WRITERS
      BY <2>1, <3>2, Constants
    <3> QED BY <2>1, <3>1, <3>2, <3>3
  <2> QED BY <2>2, <2>3
<1>3. Scored' = Scored
  BY <1>1 DEF Scored
<1>4. CacheIsFloor' /\ DatesKept'
  BY <1>1, <1>3 DEF IInv, CacheIsFloor, Live, DatesKept
<1> QED BY <1>1, <1>2, <1>4 DEF IInv, TypeOK

LEMMA TickInv ==
  ASSUME IInv, Tick
  PROVE  IInv'
<1>1. /\ now \in Nat /\ now' \in Nat /\ now' # 0 /\ now <= now'
      /\ whitelist' = whitelist /\ reputation' = reputation /\ attestations' = attestations
  BY TrustTrailAssumption DEF Tick, IInv, TypeOK
<1>2. Scored' = Scored
  BY <1>1 DEF Scored
<1>3. TypeOK'
  BY <1>1 DEF IInv, TypeOK
<1>4. CacheIsFloor'
  <2> SUFFICES ASSUME NEW w \in Scored
               PROVE  /\ reputation[w].score <= Standing(reputation[w], now').score
                      /\ reputation[w].tier <= Standing(reputation[w], now').tier
    BY <1>1, <1>2 DEF CacheIsFloor, Live
  <2> DEFINE r == reputation[w]
             s == Standing(r, now)
             t == Standing(r, now')
  <2>1. r \in UserReputationV2
    BY ScoredAccount DEF IInv
  <2>2. r.score \in Nat /\ r.tier \in Tiers
    <3>1. r.tier \in Tiers
      BY <2>1 DEF UserReputationV2
    <3> QED BY <2>1, <3>1, AccountFields
  <2>3. r.score <= s.score /\ r.tier <= s.tier
    BY DEF IInv, CacheIsFloor, Live
  <2>4. /\ s.score \in Nat /\ t.score \in Nat /\ s.score <= t.score
        /\ s.tier \in Tiers /\ s.tier <= t.tier
    BY <1>1, <2>1, StandingRises
  <2>5. t.tier \in Tiers
    <3>1. now' <= now'
      BY <1>1
    <3> QED BY <1>1, <2>1, <3>1, StandingRises
  <2> HIDE DEF r, s, t
  <2>6. r.score <= t.score
    BY <2>2, <2>3, <2>4
  <2>7. r.tier <= t.tier
    BY <2>2, <2>3, <2>4, <2>5 DEF Tiers
  <2> QED BY <2>6, <2>7 DEF r, t
<1>5. DatesKept'
  <2>1. \A w \in Scored : reputation[w].last_liquidation_date \in Nat
    BY ScoredAccount, AccountFields DEF IInv
  <2>2. \A w \in Scored : reputation[w].last_liquidation_date <= now'
    BY <1>1, <2>1 DEF IInv, DatesKept
  <2> QED BY <1>1, <1>2, <2>2 DEF IInv, DatesKept
<1> QED BY <1>1, <1>3, <1>4, <1>5 DEF IInv

LEMMA StepIInv == IInv /\ [Next]_vars => IInv'
<1> SUFFICES ASSUME IInv, [Next]_vars PROVE IInv'
  OBVIOUS
<1>1. CASE WhitelistStep
  BY <1>1, WhitelistInv DEF WhitelistStep
<1>2. CASE RecordStep
  BY <1>2, RecordEventInv DEF RecordStep
<1>3. CASE ScoreStep
  <2>1. PICK w \in Wallets :
          \/ InitScore(w)
          \/ \E writer \in Writers, import \in Imports : SetImportedScore(writer, w, import)
          \/ \E exposure \in Exposures : SetExposure(w, exposure)
    BY <1>3 DEF ScoreStep
  <2>2. CASE InitScore(w)
    BY <2>2, InitScoreInv
  <2>3. CASE \E writer \in Writers, import \in Imports : SetImportedScore(writer, w, import)
    BY <2>3, SetImportedScoreInv
  <2>4. CASE \E exposure \in Exposures : SetExposure(w, exposure)
    BY <2>4, SetExposureInv
  <2> QED BY <2>1, <2>2, <2>3, <2>4
<1>4. CASE Tick
  BY <1>4, TickInv
<1>5. CASE UNCHANGED vars
  <2>1. /\ now' = now /\ whitelist' = whitelist /\ reputation' = reputation
        /\ attestations' = attestations
    BY <1>5 DEF vars
  <2>2. Scored' = Scored
    BY <2>1 DEF Scored
  <2> QED BY <2>1, <2>2 DEF IInv, TypeOK, CacheIsFloor, Live, DatesKept
<1> QED BY <1>1, <1>2, <1>3, <1>4, <1>5 DEF Next

\* Whatever instructions run, in whatever order and at whatever times, the
\* invariant holds.
THEOREM Inductive == Spec => []IInv
  BY InitIInv, StepIInv, PTL DEF Spec

-----------------------------------------------------------------------------
(* An account and the records it came from *)

\* One record more: what it adds to a saturating count.
LEMMA CountOneMore ==
  ASSUME NEW S, IsFiniteSet(S), NEW a, a \notin S, NEW outcomes
  PROVE  LET Number(T) == Smaller(Cardinality(WithOutcome(outcomes, T)), MAX_U16)
         IN  Number(S \cup {a}) = IF a.outcome \in outcomes THEN SatAdd16(Number(S), 1)
                                  ELSE Number(S)
<1> DEFINE F(T) == WithOutcome(outcomes, T)
           n == Cardinality(F(S))
<1>1. IsFiniteSet(F(S)) /\ n \in Nat
  BY FS_Subset, FS_CardinalityType DEF WithOutcome
<1>2. CASE a.outcome \notin outcomes
  <2>1. F(S \cup {a}) = F(S)
    BY <1>2 DEF WithOutcome
  <2> QED BY <1>2, <2>1
<1>3. CASE a.outcome \in outcomes
  <2>1. F(S \cup {a}) = F(S) \cup {a} /\ a \notin F(S)
    BY <1>3 DEF WithOutcome
  <2>2. Cardinality(F(S \cup {a})) = n + 1
    BY <1>1, <2>1, FS_AddElement
  <2> HIDE DEF F, n
  <2>3. Smaller(n + 1, MAX_U16) = Smaller(Smaller(n, MAX_U16) + 1, MAX_U16)
    BY <1>1, Constants DEF Smaller
  <2> QED BY <1>3, <2>2, <2>3 DEF F, n, SatAdd16
<1> QED BY <1>2, <1>3

\* One index more, a, adds its term to the sum over T.
AddsTerm(f, g, T, a) ==
  /\ SumFunctionOnSet(f, T) \in Nat
  /\ SumFunctionOnSet(g, T) = SumFunctionOnSet(f, T)
  /\ SumFunctionOnSet(g, T \cup {a}) = SumFunctionOnSet(f, T) + g[a]

\* One record more: what it adds to a sum over the records it is among.
LEMMA SumOneMore ==
  ASSUME NEW S, IsFiniteSet(S), NEW a, a \notin S, NEW T \in SUBSET S,
         NEW f, NEW g, \A x \in S : f[x] \in Nat /\ g[x] = f[x], g[a] \in Nat
  PROVE  AddsTerm(f, g, T, a)
<1>1. IsFiniteSet(T) /\ a \notin T
  BY FS_Subset
<1>2. SumFunctionOnSet(f, T) \in Nat
  BY <1>1, SumNat
<1>3. SumFunctionOnSet(g, T) = SumFunctionOnSet(f, T)
  BY <1>1, SumSame
<1>4. \A y \in T \cup {a} : g[y] \in Int
  OBVIOUS
<1>5. SumFunctionOnSet(g, T \cup {a}) = SumFunctionOnSet(g, T) + g[a]
  BY <1>1, <1>4, SumAdd
<1> QED BY <1>2, <1>3, <1>5 DEF AddsTerm

\* Saturating after each term is saturating the sum.
LEMMA SaturateLate ==
  ASSUME NEW m \in Nat, NEW n \in Nat
  PROVE  SatAdd64(Smaller(m, MAX_U64), n) = Smaller(m + n, MAX_U64)
  BY Constants DEF SatAdd64, Smaller

\* The latest of some dates, when one is no earlier than the others.
LEMMA LatestIs ==
  ASSUME NEW D, NEW d \in D, D \subseteq Nat, \A e \in D : e <= d
  PROVE  Max(D) = d
<1>1. \A y \in D : d >= y
  OBVIOUS
<1>2. \A x \in D : (\A y \in D : x >= y) => x = d
  OBVIOUS
<1> QED BY <1>1, <1>2 DEF Max

\* The fields of an account that its records give, after a record.
LEMMA RecordedFields ==
  ASSUME NEW r \in UserReputationV2, now \in Nat, NEW principal, NEW opened_at, NEW due_at,
         NEW outcome
  PROVE  LET q == Refreshed(Recorded(r, principal, opened_at, due_at, outcome), now)
             repaid == outcome \in {ON_TIME, LATE}
             Count(n, when) == IF when THEN SatAdd16(n, 1) ELSE n
         IN  /\ q.loans_repaid_on_time = Count(r.loans_repaid_on_time, outcome = ON_TIME)
             /\ q.late_repaid_loans = Count(r.late_repaid_loans, outcome = LATE)
             /\ q.liquidated_loans = Count(r.liquidated_loans, ~repaid)
             /\ q.s_plus_bps = SatAdd64(r.s_plus_bps,
                                        PlusBps(principal, opened_at, now, due_at, outcome))
             /\ q.exposure_bps = SatAdd64(r.exposure_bps,
                                  ExposureWeightBps(principal, opened_at, now, outcome))
             /\ q.total_usdc_repaid = (IF repaid THEN SatAdd64(r.total_usdc_repaid, principal)
                                        ELSE r.total_usdc_repaid)
             /\ q.last_liquidation_date = IF repaid THEN r.last_liquidation_date ELSE now
<1> DEFINE q == Recorded(r, principal, opened_at, due_at, outcome)
<1>1. Refreshed(q, now) =
        [q EXCEPT !.native_score = Standing(q, now).native, !.score = Standing(q, now).score,
                  !.tier = Standing(q, now).tier, !.last_update = now]
  BY DEF Refreshed
<1>2. DOMAIN q = DOMAIN r
  BY DEF Recorded
<1> DEFINE f == Refreshed(q, now)
<1>3. /\ f.loans_repaid_on_time = q.loans_repaid_on_time
      /\ f.late_repaid_loans = q.late_repaid_loans /\ f.liquidated_loans = q.liquidated_loans
      /\ f.s_plus_bps = q.s_plus_bps /\ f.exposure_bps = q.exposure_bps
      /\ f.total_usdc_repaid = q.total_usdc_repaid
      /\ f.last_liquidation_date = q.last_liquidation_date
  <2> HIDE DEF q
  <2> QED BY <1>1, <1>2 DEF UserReputationV2
<1> HIDE DEF f
<1> QED BY <1>3 DEF f, Recorded, UserReputationV2

\* A record event keeps the account the one its records give.
LEMMA RecordAttests ==
  ASSUME NEW r \in UserReputationV2, now \in Nat, NEW principal \in Nat, NEW opened_at \in Nat,
         NEW due_at, NEW outcome \in Outcomes,
         NEW S, IsFiniteSet(S), S \subseteq Attestation, AttestedBy(r, S),
         \A a \in WithOutcome({LIQUIDATED, DEFAULTED}, S) : a.closed_at <= now,
         NEW a, a \notin S, a.principal = principal, a.opened_at = opened_at,
         a.due_at = due_at, a.closed_at = now, a.outcome = outcome
  PROVE  AttestedBy(Refreshed(Recorded(r, principal, opened_at, due_at, outcome), now), S \cup {a})
<1> DEFINE q == Refreshed(Recorded(r, principal, opened_at, due_at, outcome), now)
           T == S \cup {a}
           Number(outcomes, U) == Smaller(Cardinality(WithOutcome(outcomes, U)), MAX_U16)
           repaid == outcome \in {ON_TIME, LATE}
<1>1. /\ q.loans_repaid_on_time =
           (IF outcome = ON_TIME THEN SatAdd16(r.loans_repaid_on_time, 1)
            ELSE r.loans_repaid_on_time)
      /\ q.late_repaid_loans =
           (IF outcome = LATE THEN SatAdd16(r.late_repaid_loans, 1) ELSE r.late_repaid_loans)
      /\ q.liquidated_loans =
           (IF ~repaid THEN SatAdd16(r.liquidated_loans, 1) ELSE r.liquidated_loans)
      /\ q.s_plus_bps = SatAdd64(r.s_plus_bps, PlusOf(a))
      /\ q.exposure_bps = SatAdd64(r.exposure_bps, ExposureOf(a))
      /\ q.total_usdc_repaid =
           (IF repaid THEN SatAdd64(r.total_usdc_repaid, principal) ELSE r.total_usdc_repaid)
      /\ q.last_liquidation_date = IF repaid THEN r.last_liquidation_date ELSE now
  BY RecordedFields DEF PlusOf, ExposureOf
<1> HIDE DEF q
<1>2. \A outcomes : Number(outcomes, T) =
         IF outcome \in outcomes THEN SatAdd16(Number(outcomes, S), 1) ELSE Number(outcomes, S)
  BY CountOneMore
<1>3. ~repaid <=> outcome \in {LIQUIDATED, DEFAULTED}
  BY DEF ON_TIME, LATE, LIQUIDATED, DEFAULTED, Outcomes
<1>4. /\ r.loans_repaid_on_time = Number({ON_TIME}, S)
      /\ r.late_repaid_loans = Number({LATE}, S)
      /\ r.liquidated_loans = Number({LIQUIDATED, DEFAULTED}, S)
  BY DEF AttestedBy
<1>5. /\ q.loans_repaid_on_time = Number({ON_TIME}, T)
      /\ q.late_repaid_loans = Number({LATE}, T)
      /\ q.liquidated_loans = Number({LIQUIDATED, DEFAULTED}, T)
  <2> HIDE DEF Number, repaid
  <2> QED BY <1>1, <1>2, <1>3, <1>4
<1>6. \A x \in S : /\ PlusOf(x) \in Nat /\ ExposureOf(x) \in Nat /\ x.principal \in Nat
                   /\ x.closed_at \in Nat
  <2> SUFFICES ASSUME NEW x \in S
               PROVE  /\ PlusOf(x) \in Nat /\ ExposureOf(x) \in Nat /\ x.principal \in Nat
                      /\ x.closed_at \in Nat
    OBVIOUS
  <2>1. x.principal \in Nat /\ x.opened_at \in Nat /\ x.closed_at \in Nat
    BY TrustTrailAssumption DEF Attestation
  <2> QED BY <2>1, ContributionsNat DEF PlusOf, ExposureOf
<1>7. PlusOf(a) \in Nat /\ ExposureOf(a) \in Nat
  BY ContributionsNat DEF PlusOf, ExposureOf
<1>8. q.s_plus_bps = Smaller(SumFunctionOnSet([x \in T |-> PlusOf(x)], T), MAX_U64)
  <2> DEFINE f == [x \in S |-> PlusOf(x)]
             g == [x \in T |-> PlusOf(x)]
  <2>1. (\A x \in S : f[x] \in Nat /\ g[x] = f[x]) /\ g[a] = PlusOf(a) /\ S \in SUBSET S
    BY <1>6
  <2>2. r.s_plus_bps = Smaller(SumFunctionOnSet(f, S), MAX_U64)
    BY DEF AttestedBy
  <2> HIDE DEF f, g
  <2>3. SumFunctionOnSet(f, S) \in Nat
        /\ SumFunctionOnSet(g, T) = SumFunctionOnSet(f, S) + PlusOf(a)
    <3>1. AddsTerm(f, g, S, a)
      BY <1>7, <2>1, SumOneMore
    <3> QED BY <2>1, <3>1 DEF AddsTerm
  <2> QED BY <1>1, <1>7, <2>2, <2>3, SaturateLate DEF g
<1>9. q.exposure_bps <= SumFunctionOnSet([x \in T |-> ExposureOf(x)], T)
  <2> DEFINE f == [x \in S |-> ExposureOf(x)]
             g == [x \in T |-> ExposureOf(x)]
  <2>1. (\A x \in S : f[x] \in Nat /\ g[x] = f[x]) /\ g[a] = ExposureOf(a) /\ S \in SUBSET S
    BY <1>6
  <2>2. r.exposure_bps <= SumFunctionOnSet(f, S) /\ r.exposure_bps \in Nat
    BY AccountFields DEF AttestedBy
  <2> HIDE DEF f, g
  <2>3. SumFunctionOnSet(f, S) \in Nat
        /\ SumFunctionOnSet(g, T) = SumFunctionOnSet(f, S) + ExposureOf(a)
    <3>1. AddsTerm(f, g, S, a)
      BY <1>7, <2>1, SumOneMore
    <3> QED BY <2>1, <3>1 DEF AddsTerm
  <2>4. q.exposure_bps <= r.exposure_bps + ExposureOf(a)
    BY <1>1, <1>7, <2>2, Constants DEF SatAdd64, Smaller
  <2>5. q.exposure_bps \in Nat
    BY <1>1, <1>7, <2>2, Constants DEF SatAdd64, Smaller
  <2>6. q.exposure_bps <= SumFunctionOnSet(g, T)
    BY <1>7, <2>2, <2>3, <2>4, <2>5
  <2> QED BY <2>6 DEF g
<1>10. q.total_usdc_repaid = Smaller(SumFunctionOnSet([x \in T |-> x.principal],
                                      WithOutcome({ON_TIME, LATE}, T)), MAX_U64)
  <2> DEFINE f == [x \in S |-> x.principal]
             g == [x \in T |-> x.principal]
             U == WithOutcome({ON_TIME, LATE}, S)
             V == WithOutcome({ON_TIME, LATE}, T)
  <2>1. (\A x \in S : f[x] \in Nat /\ g[x] = f[x]) /\ g[a] = principal
    BY <1>6
  <2>2. r.total_usdc_repaid = Smaller(SumFunctionOnSet(f, U), MAX_U64)
    BY DEF AttestedBy
  <2>3. U \in SUBSET S /\ (repaid => V = U \cup {a}) /\ (~repaid => V = U)
    BY DEF WithOutcome
  <2> HIDE DEF f, g, U, V
  <2>4. /\ SumFunctionOnSet(f, U) \in Nat
        /\ SumFunctionOnSet(g, U) = SumFunctionOnSet(f, U)
        /\ SumFunctionOnSet(g, U \cup {a}) = SumFunctionOnSet(f, U) + principal
    <3>1. AddsTerm(f, g, U, a)
      BY <2>1, <2>3, SumOneMore
    <3> QED BY <2>1, <3>1 DEF AddsTerm
  <2>5. q.total_usdc_repaid = Smaller(SumFunctionOnSet(g, V), MAX_U64)
    BY <1>1, <2>2, <2>3, <2>4, SaturateLate
  <2> QED BY <2>5 DEF g, V
<1>11. q.last_liquidation_date =
         LET bad == WithOutcome({LIQUIDATED, DEFAULTED}, T)
         IN  IF bad = {} THEN 0 ELSE Max({x.closed_at : x \in bad})
  <2> DEFINE U == WithOutcome({LIQUIDATED, DEFAULTED}, S)
             V == WithOutcome({LIQUIDATED, DEFAULTED}, T)
             D == {x.closed_at : x \in V}
  <2>1. r.last_liquidation_date = IF U = {} THEN 0 ELSE Max({x.closed_at : x \in U})
    BY DEF AttestedBy
  <2>2. (repaid => V = U) /\ (~repaid => V = U \cup {a}) /\ U \subseteq S
    BY <1>3 DEF WithOutcome
  <2>3. \A x \in U : x.closed_at \in Nat /\ x.closed_at <= now
    BY <1>6, <2>2
  <2> HIDE DEF U, V
  <2>4. ASSUME ~repaid PROVE V # {} /\ Max(D) = now
    <3>1. now \in D /\ D \subseteq Nat /\ \A e \in D : e <= now
      <4>1. \A x \in V : x = a \/ x \in U
        BY <2>2, <2>4
      <4>2. a \in V
        BY <2>2, <2>4
      <4> QED BY <2>3, <4>1, <4>2
    <3> HIDE DEF D
    <3> QED BY <2>2, <2>4, <3>1, LatestIs
  <2> QED BY <1>1, <2>1, <2>2, <2>4 DEF V
<1> HIDE DEF T
<1>12. AttestedBy(q, T)
  BY <1>5, <1>8, <1>9, <1>10, <1>11, Zenon DEF AttestedBy
<1> QED BY <1>12 DEF q, T

\* An account whose history fields are kept, the exposure perhaps lowered, is
\* still the one its records give.
LEMMA SameHistory ==
  ASSUME NEW S, IsFiniteSet(S), S \subseteq Attestation, NEW r, AttestedBy(r, S), NEW q,
         q.loans_repaid_on_time = r.loans_repaid_on_time,
         q.late_repaid_loans = r.late_repaid_loans, q.liquidated_loans = r.liquidated_loans,
         q.s_plus_bps = r.s_plus_bps, q.total_usdc_repaid = r.total_usdc_repaid,
         q.last_liquidation_date = r.last_liquidation_date,
         q.exposure_bps \in Nat, r.exposure_bps \in Nat, q.exposure_bps <= r.exposure_bps
  PROVE  AttestedBy(q, S)
<1> DEFINE E == SumFunctionOnSet([a \in S |-> ExposureOf(a)], S)
<1>1. E \in Nat
  <2>1. \A a \in S : a.principal \in Nat /\ a.opened_at \in Nat /\ a.closed_at \in Nat
    BY DEF Attestation
  <2>2. \A a \in S : [x \in S |-> ExposureOf(x)][a] \in Nat
    BY <2>1, ContributionsNat DEF ExposureOf
  <2> QED BY <2>2, SumNat
<1>2. r.exposure_bps <= E
  BY Zenon DEF AttestedBy
<1>3. q.exposure_bps <= E
  <2> HIDE DEF E
  <2> QED BY <1>1, <1>2
<1> QED BY <1>3, Zenon DEF AttestedBy

\* An account is the one no record gives when it is created.
LEMMA NoHistory ==
  ASSUME NEW r, r.loans_repaid_on_time = 0, r.late_repaid_loans = 0, r.liquidated_loans = 0,
         r.s_plus_bps = 0, r.total_usdc_repaid = 0, r.last_liquidation_date = 0,
         r.exposure_bps = 0
  PROVE  AttestedBy(r, {})
<1>1. \A outcomes : WithOutcome(outcomes, {}) = {}
  BY DEF WithOutcome
<1>2. Cardinality({}) = 0 /\ Smaller(0, MAX_U16) = 0 /\ Smaller(0, MAX_U64) = 0
  BY FS_EmptySet, Constants DEF Smaller
<1>3. \A f : SumFunctionOnSet(f, {}) = 0
  BY SumEmpty
<1>4. 0 <= 0
  OBVIOUS
<1> QED BY <1>1, <1>2, <1>3, <1>4, Zenon DEF AttestedBy

\* The inductive invariant of the history: with IInv, it is kept by every step.
History == IsFiniteSet(attestations) /\ HistoryAttested

LEMMA RecordsFinite ==
  ASSUME IInv, History, NEW w
  PROVE  IsFiniteSet(RecordsOf(w)) /\ RecordsOf(w) \subseteq Attestation
  BY FS_Subset DEF IInv, TypeOK, History, RecordsOf

LEMMA RecordHistory ==
  ASSUME IInv, History, NEW writer \in Writers, NEW w \in Wallets, NEW principal \in Principals,
         NEW opened_at \in OpenDates, NEW due_at \in DueDates, NEW outcome \in Outcomes,
         NEW loan \in LoanKeys,
         RecordEvent(writer, w, principal, opened_at, due_at, outcome, loan)
  PROVE  History'
<1> DEFINE q == Recorded(reputation[w], principal, opened_at, due_at, outcome)
           new == [loan |-> loan, borrower |-> w, lender |-> writer, principal |-> principal,
                   opened_at |-> opened_at, due_at |-> due_at, closed_at |-> now,
                   outcome |-> outcome]
<1>1. /\ w \in Scored /\ now' = now /\ new \notin attestations
      /\ attestations' = attestations \cup {new}
      /\ reputation' = [reputation EXCEPT ![w] = Refreshed(q, now)]
  BY DEF RecordEvent
<1>2. principal \in Nat /\ opened_at \in Nat /\ now \in Nat
  BY TrustTrailAssumption DEF IInv, TypeOK
<1>3. reputation[w] \in UserReputationV2
  BY <1>1, ScoredAccount DEF IInv
<1>4. /\ new.borrower = w /\ new.principal = principal /\ new.opened_at = opened_at
      /\ new.due_at = due_at /\ new.closed_at = now /\ new.outcome = outcome
  OBVIOUS
<1>5. IsFiniteSet(attestations')
  BY <1>1, FS_AddElement DEF History
<1> HIDE DEF new
<1>6. /\ RecordsOf(w)' = RecordsOf(w) \cup {new} /\ new \notin RecordsOf(w)
      /\ \A v : v # w => RecordsOf(v)' = RecordsOf(v)
  BY <1>1, <1>4 DEF RecordsOf
<1>7. \A a \in WithOutcome({LIQUIDATED, DEFAULTED}, RecordsOf(w)) : a.closed_at <= now
  <2> SUFFICES ASSUME NEW a \in attestations, a.borrower = w, a.outcome \in {LIQUIDATED, DEFAULTED}
               PROVE  a.closed_at <= now
    BY DEF WithOutcome, RecordsOf
  <2> DEFINE date == reputation[w].last_liquidation_date
  <2>1. a.closed_at <= date /\ date <= now
    BY <1>1 DEF IInv, DatesKept
  <2>2. a.closed_at \in Nat /\ date \in Nat
    BY <1>3, AccountFields DEF IInv, TypeOK, Attestation
  <2> HIDE DEF date
  <2> QED BY <1>2, <2>1, <2>2
<1>8. AttestedBy(reputation[w], RecordsOf(w))
  BY <1>1 DEF History, HistoryAttested
<1>9. AttestedBy(Refreshed(q, now), RecordsOf(w) \cup {new})
  <2> DEFINE r == reputation[w]
             S == RecordsOf(w)
  <2>1. /\ r \in UserReputationV2 /\ AttestedBy(r, S) /\ IsFiniteSet(S)
        /\ S \subseteq Attestation /\ new \notin S
        /\ \A a \in WithOutcome({LIQUIDATED, DEFAULTED}, S) : a.closed_at <= now
    BY <1>3, <1>6, <1>7, <1>8, RecordsFinite
  <2> HIDE DEF r, S
  <2>2. AttestedBy(Refreshed(Recorded(r, principal, opened_at, due_at, outcome), now), S \cup {new})
    BY <1>2, <1>4, <2>1, RecordAttests
  <2> QED BY <2>2 DEF r, S
<1>10. HistoryAttested'
  <2>1. q \in UserReputationV2
    <3> DEFINE r == reputation[w]
    <3>1. r \in UserReputationV2
      BY <1>3
    <3> HIDE DEF r
    <3>2. LET p == Recorded(r, principal, opened_at, due_at, outcome)
          IN  /\ p \in UserReputationV2
              /\ p.last_liquidation_date =
                   IF outcome \in {ON_TIME, LATE} THEN r.last_liquidation_date ELSE now
      BY <1>2, <3>1, RecordedAccount
    <3> QED BY <3>2 DEF r
  <2> HIDE DEF q
  <2>2. Scored' = Scored /\ \A v \in Scored \ {w} : reputation'[v] = reputation[v]
    BY <1>1, <2>1, RefreshKeeps
  <2>3. reputation'[w] = Refreshed(q, now)
    BY <1>1, ScoredAccount DEF IInv, TypeOK
  <2> SUFFICES ASSUME NEW v \in Scored' PROVE AttestedBy(reputation'[v], RecordsOf(v)')
    BY DEF HistoryAttested
  <2>4. CASE v = w
    BY <1>6, <1>9, <2>3, <2>4
  <2>5. CASE v # w
    BY <1>6, <2>2, <2>5 DEF History, HistoryAttested
  <2> QED BY <2>4, <2>5
<1> QED BY <1>5, <1>10 DEF History

\* An instruction that leaves one wallet w with a refreshed account of the same
\* history, and the records as they are.
LEMMA RefreshHistory ==
  ASSUME IInv, History, NEW w \in Scored, NEW q \in UserReputationV2, now' = now,
         reputation' = [reputation EXCEPT ![w] = Refreshed(q, now)], attestations' = attestations,
         AttestedBy(q, RecordsOf(w))
  PROVE  History'
<1>1. Scored' = Scored /\ \A v \in Scored \ {w} : reputation'[v] = reputation[v]
  BY RefreshKeeps
<1> DEFINE f == Refreshed(q, now)
<1>2. reputation'[w] = f
  BY ScoredAccount DEF IInv, TypeOK
<1>3. \A v : RecordsOf(v)' = RecordsOf(v)
  BY DEF RecordsOf
<1>4. /\ f.loans_repaid_on_time = q.loans_repaid_on_time
      /\ f.late_repaid_loans = q.late_repaid_loans /\ f.liquidated_loans = q.liquidated_loans
      /\ f.s_plus_bps = q.s_plus_bps /\ f.total_usdc_repaid = q.total_usdc_repaid
      /\ f.last_liquidation_date = q.last_liquidation_date
      /\ f.exposure_bps = q.exposure_bps
  BY DEF Refreshed, UserReputationV2
<1>5. q.exposure_bps \in Nat /\ q.exposure_bps <= q.exposure_bps
  BY AccountFields
<1> HIDE DEF f
<1>6. AttestedBy(f, RecordsOf(w))
  <2> DEFINE S == RecordsOf(w)
  <2>1. IsFiniteSet(S) /\ S \subseteq Attestation /\ AttestedBy(q, S)
    BY RecordsFinite
  <2> HIDE DEF S
  <2>2. AttestedBy(f, S)
    BY <1>4, <1>5, <2>1, SameHistory
  <2> QED BY <2>2 DEF S
<1>7. HistoryAttested'
  <2> SUFFICES ASSUME NEW v \in Scored PROVE AttestedBy(reputation'[v], RecordsOf(v))
    BY <1>1, <1>3 DEF HistoryAttested
  <2>1. CASE v = w
    BY <1>2, <1>6, <2>1
  <2>2. CASE v # w
    BY <1>1, <2>2 DEF History, HistoryAttested
  <2> QED BY <2>1, <2>2
<1> QED BY <1>7 DEF History

LEMMA ImportHistory ==
  ASSUME IInv, History, NEW writer \in Writers, NEW w \in Wallets, NEW import \in Imports,
         SetImportedScore(writer, w, import)
  PROVE  History'
<1> DEFINE r == reputation[w]
           q == Imported(r, import)
<1>1. /\ w \in Scored /\ now' = now /\ attestations' = attestations
      /\ import.score <= SCORE_MAX
      /\ reputation' = [reputation EXCEPT ![w] = Refreshed(q, now)]
  BY DEF SetImportedScore
<1>2. r \in UserReputationV2 /\ now \in Nat /\ AttestedBy(r, RecordsOf(w))
  BY <1>1, ScoredAccount DEF IInv, TypeOK, History, HistoryAttested
<1>3. import \in [score : Nat, on_time : Nat, weight : Nat]
  BY TrustTrailAssumption
<1> HIDE DEF r
<1>4. q \in UserReputationV2
  BY <1>1, <1>2, <1>3, ImportedAccount
<1>5. /\ q.loans_repaid_on_time = r.loans_repaid_on_time
      /\ q.late_repaid_loans = r.late_repaid_loans /\ q.liquidated_loans = r.liquidated_loans
      /\ q.s_plus_bps = r.s_plus_bps /\ q.total_usdc_repaid = r.total_usdc_repaid
      /\ q.last_liquidation_date = r.last_liquidation_date
      /\ q.exposure_bps = r.exposure_bps
  BY <1>2 DEF Imported, UserReputationV2
<1>6. r.exposure_bps \in Nat /\ r.exposure_bps <= r.exposure_bps
  BY <1>2, AccountFields
<1> HIDE DEF q
<1>7. AttestedBy(q, RecordsOf(w))
  BY <1>2, <1>5, <1>6, RecordsFinite, SameHistory
<1> QED BY <1>1, <1>4, <1>7, RefreshHistory

LEMMA ExposureHistory ==
  ASSUME IInv, History, NEW w \in Wallets, NEW exposure \in Exposures, SetExposure(w, exposure)
  PROVE  History'
<1> DEFINE r == reputation[w]
           q == [r EXCEPT !.exposure_bps = exposure]
<1>1. /\ w \in Scored /\ now' = now /\ attestations' = attestations
      /\ exposure <= r.exposure_bps
      /\ reputation' = [reputation EXCEPT ![w] = Refreshed(q, now)]
  BY DEF SetExposure
<1>2. r \in UserReputationV2 /\ AttestedBy(r, RecordsOf(w))
  BY <1>1, ScoredAccount DEF IInv, History, HistoryAttested
<1>3. exposure \in Nat
  BY TrustTrailAssumption
<1> HIDE DEF r
<1>4. q \in UserReputationV2
  <2>1. exposure \in 0..MAX_U64
    <3>1. r.exposure_bps \in 0..MAX_U64
      BY <1>2 DEF UserReputationV2
    <3> QED BY <1>1, <1>3, <3>1, Constants
  <2> QED BY <1>2, <2>1 DEF UserReputationV2
<1>5. /\ q.loans_repaid_on_time = r.loans_repaid_on_time
      /\ q.late_repaid_loans = r.late_repaid_loans /\ q.liquidated_loans = r.liquidated_loans
      /\ q.s_plus_bps = r.s_plus_bps /\ q.total_usdc_repaid = r.total_usdc_repaid
      /\ q.last_liquidation_date = r.last_liquidation_date
      /\ q.exposure_bps = exposure
  BY <1>2 DEF UserReputationV2
<1>6. r.exposure_bps \in Nat
  BY <1>2, AccountFields
<1> HIDE DEF q
<1>7. AttestedBy(q, RecordsOf(w))
  BY <1>1, <1>2, <1>3, <1>5, <1>6, RecordsFinite, SameHistory
<1> QED BY <1>1, <1>4, <1>7, RefreshHistory

LEMMA InitScoreHistory ==
  ASSUME IInv, History, NEW w \in Wallets, InitScore(w)
  PROVE  History'
<1> DEFINE new == reputation'[w]
<1>1. w \notin Scored /\ attestations' = attestations
  BY DEF InitScore, Scored
<1>2. /\ new.loans_repaid_on_time = 0 /\ new.late_repaid_loans = 0 /\ new.liquidated_loans = 0
      /\ new.s_plus_bps = 0 /\ new.total_usdc_repaid = 0 /\ new.last_liquidation_date = 0
      /\ new.exposure_bps = 0
  BY DEF InitScore, IInv, TypeOK
<1>3. AttestedBy(new, {})
  <2> HIDE DEF new
  <2> QED BY <1>2, NoHistory
<1>4. RecordsOf(w) = {}
  BY <1>1 DEF RecordsOf, IInv, DatesKept
<1>5. \A v \in Wallets \ {w} : reputation'[v] = reputation[v]
  BY DEF InitScore, IInv, TypeOK
<1>6. \A v : RecordsOf(v)' = RecordsOf(v)
  BY <1>1 DEF RecordsOf
<1>7. HistoryAttested'
  <2> SUFFICES ASSUME NEW v \in Scored' PROVE AttestedBy(reputation'[v], RecordsOf(v))
    BY <1>6 DEF HistoryAttested
  <2>1. v \in Wallets /\ reputation'[v] # NoAccount
    BY DEF Scored
  <2>2. CASE v = w
    BY <1>3, <1>4, <2>2
  <2>3. CASE v # w
    <3>1. v \in Scored /\ reputation'[v] = reputation[v]
      BY <1>5, <2>1, <2>3 DEF Scored
    <3> QED BY <3>1 DEF History, HistoryAttested
  <2> QED BY <2>2, <2>3
<1> QED BY <1>1, <1>7 DEF History

LEMMA StepHistory == IInv /\ History /\ [Next]_vars => History'
<1> SUFFICES ASSUME IInv, History, [Next]_vars PROVE History'
  OBVIOUS
<1>1. ASSUME reputation' = reputation, attestations' = attestations PROVE History'
  <2>1. Scored' = Scored /\ \A v : RecordsOf(v)' = RecordsOf(v)
    BY <1>1 DEF Scored, RecordsOf
  <2> QED BY <1>1, <2>1 DEF History, HistoryAttested
<1>2. CASE RecordStep
  BY <1>2, RecordHistory DEF RecordStep
<1>3. CASE ScoreStep
  <2>1. PICK w \in Wallets :
          \/ InitScore(w)
          \/ \E writer \in Writers, import \in Imports : SetImportedScore(writer, w, import)
          \/ \E exposure \in Exposures : SetExposure(w, exposure)
    BY <1>3 DEF ScoreStep
  <2>2. CASE InitScore(w)
    BY <2>2, InitScoreHistory
  <2>3. CASE \E writer \in Writers, import \in Imports : SetImportedScore(writer, w, import)
    BY <2>3, ImportHistory
  <2>4. CASE \E exposure \in Exposures : SetExposure(w, exposure)
    BY <2>4, ExposureHistory
  <2> QED BY <2>1, <2>2, <2>3, <2>4
<1>4. CASE WhitelistStep
  BY <1>1, <1>4 DEF WhitelistStep, AddWriter, RemoveWriter
<1>5. CASE Tick \/ UNCHANGED vars
  BY <1>1, <1>5 DEF Tick, vars
<1> QED BY <1>2, <1>3, <1>4, <1>5 DEF Next

-----------------------------------------------------------------------------
(* The penalty and the counted loans an account keeps.                       *)
(*                                                                           *)
(* History gives the counts and the sums that never fade.  The penalty does, *)
(* and a record re-dates it, so the invariant says of every later time what  *)
(* the penalty will be (Follows), within a slack that grows by a Drift with  *)
(* each record.                                                              *)

\* The account's penalty follows those of its records, from now on.
Follows(rep, S, t) ==
  LET live == DecayBps(rep.s_minus_bps, rep.s_minus_at, t)
      once == FadedPenalty(S, t)
      slack == PenaltySlack(S)
  IN  live <= once + slack /\ once <= live + slack
PenaltyHeld(rep, S, at) ==
  /\ rep.s_minus_at <= at
  /\ rep.s_minus_bps <= FullPenalty(S)
  /\ FullPenalty(S) <= MAX_U64 => \A t \in Nat : at <= t => Follows(rep, S, t)

\* The loans its gates count are those of its records, until it imports others.
Counted(S) ==
  {a \in S : a.outcome = ON_TIME /\ MeaningfulLoan(a.principal, a.opened_at, a.closed_at, a.outcome)}
CountedWeight(S) == SumFunctionOnSet([a \in S |-> PrincipalWeightBps(a.principal)], Counted(S))
GatesHeld(rep, S) ==
  rep.import_date = 0 =>
    /\ rep.meaningful_on_time = Smaller(Cardinality(Counted(S)), MAX_U16)
    /\ rep.meaningful_weight_bps = Smaller(CountedWeight(S), MAX_U64)

\* The invariant of the penalty and of the counted loans, beside History.
SumsKept ==
  \A w \in Scored :
    PenaltyHeld(reputation[w], RecordsOf(w), now) /\ GatesHeld(reputation[w], RecordsOf(w))

\* The sums over records are naturals.
LEMMA PenaltySums ==
  ASSUME NEW S, IsFiniteSet(S), S \subseteq Attestation
  PROVE  /\ FullPenalty(S) \in Nat /\ PenaltySlack(S) \in Nat /\ Cardinality(S) \in Nat
         /\ PenaltySlack(S) = Cardinality(S) * Drift(FullPenalty(S))
         /\ \A t \in Nat : FadedPenalty(S, t) \in Nat
         /\ \A a \in S : MinusOf(a) \in Nat /\ a.closed_at \in Nat /\ a.principal \in Nat
<1>1. \A a \in S : MinusOf(a) \in Nat /\ a.closed_at \in Nat /\ a.principal \in Nat
  <2> SUFFICES ASSUME NEW a \in S
               PROVE  MinusOf(a) \in Nat /\ a.closed_at \in Nat /\ a.principal \in Nat
    OBVIOUS
  <2>1. a.principal \in Nat /\ a.opened_at \in Nat /\ a.closed_at \in Nat
    BY DEF Attestation
  <2> QED BY <2>1, ContributionsNat DEF MinusOf
<1>2. FullPenalty(S) \in Nat
  <2> DEFINE f == [a \in S |-> MinusOf(a)]
  <2>1. \A a \in S : f[a] \in Nat
    BY <1>1
  <2> HIDE DEF f
  <2>2. SumFunctionOnSet(f, S) \in Nat
    BY <2>1, SumNat
  <2> QED BY <2>2 DEF FullPenalty, f
<1>3. ASSUME NEW t \in Nat PROVE FadedPenalty(S, t) \in Nat
  <2> DEFINE f == [a \in S |-> DecayBps(MinusOf(a), a.closed_at, t)]
  <2>1. \A a \in S : f[a] \in Nat
    BY <1>1, DecayNat
  <2> HIDE DEF f
  <2>2. SumFunctionOnSet(f, S) \in Nat
    BY <2>1, SumNat
  <2> QED BY <2>2 DEF FadedPenalty, f
<1>4. Cardinality(S) \in Nat
  BY FS_CardinalityType
<1>5. PenaltySlack(S) = Cardinality(S) * Drift(FullPenalty(S))
  BY DEF PenaltySlack, Drift
<1>6. Drift(FullPenalty(S)) \in Nat
  <2>1. FullPenalty(S) <= FullPenalty(S)
    BY <1>2
  <2> QED BY <1>2, <2>1, DriftGrows
<1>7. PenaltySlack(S) \in Nat
  BY <1>4, <1>5, <1>6
<1> QED BY <1>1, <1>2, <1>3, <1>4, <1>5, <1>7

\* One record more.
LEMMA PenaltyOneMore ==
  ASSUME NEW S, IsFiniteSet(S), S \subseteq Attestation, NEW a, a \notin S, MinusOf(a) \in Nat,
         a.closed_at \in Nat
  PROVE  /\ FullPenalty(S \cup {a}) = FullPenalty(S) + MinusOf(a)
         /\ \A t \in Nat : FadedPenalty(S \cup {a}, t) =
                             FadedPenalty(S, t) + DecayBps(MinusOf(a), a.closed_at, t)
         /\ PenaltySlack(S \cup {a}) \in Nat
         /\ PenaltySlack(S) + Drift(FullPenalty(S)) <= PenaltySlack(S \cup {a})
<1> DEFINE T == S \cup {a}
<1>0. S \in SUBSET S /\ \A x \in S : MinusOf(x) \in Nat /\ x.closed_at \in Nat
  BY PenaltySums
<1>1. FullPenalty(T) = FullPenalty(S) + MinusOf(a)
  <2> DEFINE f == [x \in S |-> MinusOf(x)]
             g == [x \in T |-> MinusOf(x)]
  <2>1. (\A x \in S : f[x] \in Nat /\ g[x] = f[x]) /\ g[a] \in Nat /\ g[a] = MinusOf(a)
    BY <1>0
  <2> HIDE DEF f, g
  <2>2. AddsTerm(f, g, S, a)
    BY <1>0, <2>1, SumOneMore
  <2> QED BY <2>1, <2>2 DEF AddsTerm, FullPenalty, f, g
<1>2. ASSUME NEW t \in Nat
      PROVE  FadedPenalty(T, t) = FadedPenalty(S, t) + DecayBps(MinusOf(a), a.closed_at, t)
  <2> DEFINE f == [x \in S |-> DecayBps(MinusOf(x), x.closed_at, t)]
             g == [x \in T |-> DecayBps(MinusOf(x), x.closed_at, t)]
  <2>1. (\A x \in S : f[x] \in Nat /\ g[x] = f[x]) /\ g[a] \in Nat
        /\ g[a] = DecayBps(MinusOf(a), a.closed_at, t)
    BY <1>0, DecayNat
  <2> HIDE DEF f, g
  <2>2. AddsTerm(f, g, S, a)
    BY <1>0, <2>1, SumOneMore
  <2> QED BY <2>1, <2>2 DEF AddsTerm, FadedPenalty, f, g
<1>3. Cardinality(T) = Cardinality(S) + 1 /\ Cardinality(S) \in Nat
  BY FS_AddElement, FS_CardinalityType
<1> DEFINE n == Cardinality(S)
           d == Drift(FullPenalty(S))
           e == Drift(FullPenalty(T))
<1>4. d \in Nat /\ e \in Nat /\ d <= e
  <2>1. FullPenalty(S) \in Nat
    BY PenaltySums
  <2>2. FullPenalty(T) \in Nat /\ FullPenalty(S) <= FullPenalty(T) /\ FullPenalty(T) <= FullPenalty(T)
    BY <1>1, <2>1
  <2> HIDE DEF T
  <2> QED BY <2>1, <2>2, DriftGrows
<1>5. PenaltySlack(S) = n * d /\ PenaltySlack(T) = (n + 1) * e
  BY <1>3 DEF PenaltySlack, Drift
<1>6. n \in Nat
  BY <1>3
<1> HIDE DEF n, d, e, T
<1>7. n * d + d <= (n + 1) * e /\ (n + 1) * e \in Nat
  <2> DEFINE m == n + 1
  <2>1. m \in Nat /\ m <= m /\ m * d = n * d + d
    BY <1>4, <1>6
  <2> HIDE DEF m
  <2>2. m * d <= m * e /\ m * e \in Nat
    BY <1>4, <2>1, TimesGrows
  <2> QED BY <2>1, <2>2 DEF m
<1> QED BY <1>1, <1>2, <1>5, <1>7 DEF T, d

\* The penalty after a record follows those of the records.
LEMMA RecordFollows ==
  ASSUME NEW c \in Nat, NEW v \in Nat, NEW from \in Nat, from <= c,
         NEW S, IsFiniteSet(S), S \subseteq Attestation, NEW a, a \notin S, MinusOf(a) \in Nat,
         a.closed_at = c, v <= FullPenalty(S),
         NEW t \in Nat, c <= t,
         DecayBps(v, from, t) <= FadedPenalty(S, t) + PenaltySlack(S),
         FadedPenalty(S, t) <= DecayBps(v, from, t) + PenaltySlack(S)
  PROVE  LET one == DecayBps(DecayBps(v, from, c) + MinusOf(a), c, t)
             once == FadedPenalty(S \cup {a}, t)
             slack == PenaltySlack(S \cup {a})
         IN  one <= once + slack /\ once <= one + slack
<1> DEFINE m == MinusOf(a)
           one == DecayBps(DecayBps(v, from, c) + m, c, t)
           live == DecayBps(v, from, t)
           new == DecayBps(m, c, t)
           F == FullPenalty(S)
<1>1. one \in Nat /\ live + new \in Nat /\ one <= live + new + Drift(v)
      /\ live + new <= one + Drift(v)
  BY PenaltyDrifts
<1>2. live \in Nat /\ new \in Nat /\ F \in Nat /\ FadedPenalty(S, t) \in Nat /\ PenaltySlack(S) \in Nat
  BY DecayNat, PenaltySums
<1>3. Drift(v) \in Nat /\ Drift(F) \in Nat /\ Drift(v) <= Drift(F)
  <2>1. F <= F
    BY <1>2
  <2> HIDE DEF F
  <2> QED BY <1>2, <2>1, DriftGrows DEF F
<1>4. /\ FadedPenalty(S \cup {a}, t) = FadedPenalty(S, t) + new
      /\ PenaltySlack(S \cup {a}) \in Nat
      /\ PenaltySlack(S) + Drift(F) <= PenaltySlack(S \cup {a})
  BY PenaltyOneMore
<1> HIDE DEF one, live, new, F
<1>5. /\ one <= FadedPenalty(S \cup {a}, t) + PenaltySlack(S \cup {a})
      /\ FadedPenalty(S \cup {a}, t) <= one + PenaltySlack(S \cup {a})
  BY <1>1, <1>2, <1>3, <1>4 DEF live
<1> QED BY <1>5 DEF one, m

\* What a record event leaves in the penalty and in the counts.
LEMMA RecordedSums ==
  ASSUME NEW r \in UserReputationV2, now \in Nat, NEW principal, NEW opened_at, NEW due_at,
         NEW outcome
  PROVE  LET q == Refreshed(Recorded(r, principal, opened_at, due_at, outcome), now)
             counts == outcome = ON_TIME /\ MeaningfulLoan(principal, opened_at, now, outcome)
         IN  /\ q.s_minus_bps = PenaltyNow(r, principal, outcome) /\ q.s_minus_at = now
             /\ q.import_date = r.import_date
             /\ q.meaningful_on_time =
                  (IF counts THEN SatAdd16(r.meaningful_on_time, 1) ELSE r.meaningful_on_time)
             /\ q.meaningful_weight_bps =
                  IF counts THEN SatAdd64(r.meaningful_weight_bps, PrincipalWeightBps(principal))
                  ELSE r.meaningful_weight_bps
<1> DEFINE q == Recorded(r, principal, opened_at, due_at, outcome)
<1>1. Refreshed(q, now) =
        [q EXCEPT !.native_score = Standing(q, now).native, !.score = Standing(q, now).score,
                  !.tier = Standing(q, now).tier, !.last_update = now]
  BY DEF Refreshed
<1>2. DOMAIN q = DOMAIN r
  BY DEF Recorded
<1> DEFINE f == Refreshed(q, now)
<1>3. /\ f.s_minus_bps = q.s_minus_bps /\ f.s_minus_at = q.s_minus_at
      /\ f.import_date = q.import_date /\ f.meaningful_on_time = q.meaningful_on_time
      /\ f.meaningful_weight_bps = q.meaningful_weight_bps
  <2> HIDE DEF q
  <2> QED BY <1>1, <1>2 DEF UserReputationV2
<1> HIDE DEF f
<1> QED BY <1>3 DEF f, Recorded, UserReputationV2

\* A record event keeps the penalty that of the records.
LEMMA RecordPenalty ==
  ASSUME NEW r \in UserReputationV2, now \in Nat, NEW principal \in Nat, NEW opened_at,
         NEW due_at, NEW outcome,
         NEW S, IsFiniteSet(S), S \subseteq Attestation, PenaltyHeld(r, S, now),
         NEW a, a \notin S, a.principal = principal, a.closed_at = now, a.outcome = outcome
  PROVE  PenaltyHeld(Refreshed(Recorded(r, principal, opened_at, due_at, outcome), now),
                     S \cup {a}, now)
<1> DEFINE q == Refreshed(Recorded(r, principal, opened_at, due_at, outcome), now)
           T == S \cup {a}
           v == r.s_minus_bps
           from == r.s_minus_at
           D == DecayBps(v, from, now)
           m == MinusOf(a)
           F == FullPenalty(S)
<1>1. q.s_minus_bps = SatAdd64(D, m) /\ q.s_minus_at = now
  BY RecordedSums DEF PenaltyNow, MinusOf
<1>2. v \in Nat /\ from \in Nat /\ from <= now /\ v <= F
  BY AccountFields DEF PenaltyHeld
<1>3. m \in Nat
  <2>1. MinusBps(principal, outcome) \in Nat
    BY ContributionsNat
  <2> QED BY <2>1 DEF MinusOf
<1>4. D \in Nat /\ D <= v
  BY <1>2, DecayNat, DecayStarts
<1>5. F \in Nat /\ FullPenalty(T) = F + m
  BY <1>3, PenaltySums, PenaltyOneMore
<1>6. q.s_minus_bps <= FullPenalty(T)
  <2> HIDE DEF q, T, v, D, m, F
  <2> QED BY <1>1, <1>2, <1>3, <1>4, <1>5, Constants DEF SatAdd64, Smaller
<1>7. ASSUME FullPenalty(T) <= MAX_U64, NEW t \in Nat, now <= t PROVE Follows(q, T, t)
  <2>1. q.s_minus_bps = D + m
    <3> HIDE DEF q, T, v, D, m, F
    <3> QED BY <1>1, <1>2, <1>3, <1>4, <1>5, <1>7, Constants DEF SatAdd64, Smaller
  <2>2. F <= MAX_U64
    <3> HIDE DEF T, m, F
    <3> QED BY <1>3, <1>5, <1>7, Constants
  <2>3. Follows(r, S, t)
    BY <1>7, <2>2 DEF PenaltyHeld
  <2>4. /\ DecayBps(v, from, t) <= FadedPenalty(S, t) + PenaltySlack(S)
        /\ FadedPenalty(S, t) <= DecayBps(v, from, t) + PenaltySlack(S)
    BY <2>3 DEF Follows
  <2>5. LET one == DecayBps(D + m, now, t)
        IN  /\ one <= FadedPenalty(T, t) + PenaltySlack(T)
            /\ FadedPenalty(T, t) <= one + PenaltySlack(T)
    <3> HIDE DEF v, from
    <3> QED BY <1>2, <1>3, <1>7, <2>4, RecordFollows DEF F
  <2> HIDE DEF q
  <2> QED BY <1>1, <2>1, <2>5 DEF Follows
<1>8. now <= now
  OBVIOUS
<1> HIDE DEF q, T
<1>9. PenaltyHeld(q, T, now)
  BY <1>1, <1>6, <1>7, <1>8 DEF PenaltyHeld
<1> QED BY <1>9 DEF q, T

\* A record event keeps the counted loans those of the records.
LEMMA RecordGates ==
  ASSUME NEW r \in UserReputationV2, now \in Nat, NEW principal \in Nat, NEW opened_at,
         NEW due_at, NEW outcome,
         NEW S, IsFiniteSet(S), S \subseteq Attestation, GatesHeld(r, S),
         NEW a, a \notin S, a.principal = principal, a.opened_at = opened_at,
         a.closed_at = now, a.outcome = outcome
  PROVE  GatesHeld(Refreshed(Recorded(r, principal, opened_at, due_at, outcome), now), S \cup {a})
<1> DEFINE q == Refreshed(Recorded(r, principal, opened_at, due_at, outcome), now)
           T == S \cup {a}
           counts == outcome = ON_TIME /\ MeaningfulLoan(principal, opened_at, now, outcome)
           w == PrincipalWeightBps(principal)
<1>1. /\ q.import_date = r.import_date
      /\ q.meaningful_on_time =
           (IF counts THEN SatAdd16(r.meaningful_on_time, 1) ELSE r.meaningful_on_time)
      /\ q.meaningful_weight_bps =
           IF counts THEN SatAdd64(r.meaningful_weight_bps, w) ELSE r.meaningful_weight_bps
  BY RecordedSums
<1>2. Counted(T) = (IF counts THEN Counted(S) \cup {a} ELSE Counted(S)) /\ Counted(S) \in SUBSET S /\ a \notin Counted(S)
  BY DEF Counted
<1> HIDE DEF counts, q
<1>3. IsFiniteSet(Counted(S)) /\ Cardinality(Counted(S)) \in Nat
  BY <1>2, FS_Subset, FS_CardinalityType
<1>4. Cardinality(Counted(T)) = IF counts THEN Cardinality(Counted(S)) + 1 ELSE Cardinality(Counted(S))
  BY <1>2, <1>3, FS_AddElement
<1>5. w \in Nat /\ \A x \in S : PrincipalWeightBps(x.principal) \in Nat
  <2>1. \A x \in S : x.principal \in Nat
    BY DEF Attestation
  <2> QED BY <2>1, WeightNat
<1>6. CountedWeight(S) \in Nat
      /\ CountedWeight(T) = IF counts THEN CountedWeight(S) + w ELSE CountedWeight(S)
  <2> DEFINE f == [x \in S |-> PrincipalWeightBps(x.principal)]
             g == [x \in T |-> PrincipalWeightBps(x.principal)]
             G == Counted(S)
  <2>1. (\A x \in S : f[x] \in Nat /\ g[x] = f[x]) /\ g[a] \in Nat /\ g[a] = w
    BY <1>5
  <2>2. CountedWeight(S) = SumFunctionOnSet(f, G) /\ CountedWeight(T) = SumFunctionOnSet(g, Counted(T))
    BY DEF CountedWeight
  <2>3. Counted(T) = (IF counts THEN G \cup {a} ELSE G) /\ G \in SUBSET S
    BY <1>2
  <2> HIDE DEF f, g, G, T
  <2>4. AddsTerm(f, g, G, a)
    BY <2>1, <2>3, SumOneMore
  <2> QED BY <2>1, <2>2, <2>3, <2>4 DEF AddsTerm
<1> HIDE DEF T, w
<1>7. GatesHeld(q, T)
  <2> SUFFICES ASSUME q.import_date = 0
               PROVE  /\ q.meaningful_on_time = Smaller(Cardinality(Counted(T)), MAX_U16)
                      /\ q.meaningful_weight_bps = Smaller(CountedWeight(T), MAX_U64)
    BY DEF GatesHeld
  <2>1. /\ r.meaningful_on_time = Smaller(Cardinality(Counted(S)), MAX_U16)
        /\ r.meaningful_weight_bps = Smaller(CountedWeight(S), MAX_U64)
    BY <1>1 DEF GatesHeld
  <2> DEFINE n == Cardinality(Counted(S))
  <2>2. SatAdd16(Smaller(n, MAX_U16), 1) = Smaller(n + 1, MAX_U16)
    <3> HIDE DEF n
    <3> QED BY <1>3, Constants DEF SatAdd16, Smaller, n
  <2>3. SatAdd64(Smaller(CountedWeight(S), MAX_U64), w) = Smaller(CountedWeight(S) + w, MAX_U64)
    BY <1>5, <1>6, SaturateLate
  <2> QED BY <1>1, <1>4, <1>6, <2>1, <2>2, <2>3
<1> QED BY <1>7 DEF q, T

\* An account whose penalty and counted loans are kept, at a time no earlier.
LEMMA SamePenalty ==
  ASSUME NEW S, NEW r, NEW q, NEW at \in Nat, NEW later \in Nat, at <= later,
         r.s_minus_at \in Nat, PenaltyHeld(r, S, at),
         q.s_minus_bps = r.s_minus_bps, q.s_minus_at = r.s_minus_at
  PROVE  PenaltyHeld(q, S, later)
<1>1. q.s_minus_at <= later
  BY DEF PenaltyHeld
<1>2. ASSUME FullPenalty(S) <= MAX_U64, NEW t \in Nat, later <= t PROVE Follows(q, S, t)
  <2>1. at <= t
    BY <1>2
  <2>2. Follows(r, S, t)
    BY <1>2, <2>1 DEF PenaltyHeld
  <2> QED BY <2>2, Zenon DEF Follows
<1> QED BY <1>1, <1>2 DEF PenaltyHeld

\* The same of the counted loans, which an import may free from the records.
LEMMA SameGates ==
  ASSUME NEW S, NEW r, NEW q, GatesHeld(r, S),
         q.import_date = 0 =>
           /\ r.import_date = 0
           /\ q.meaningful_on_time = r.meaningful_on_time
           /\ q.meaningful_weight_bps = r.meaningful_weight_bps
  PROVE  GatesHeld(q, S)
  BY DEF GatesHeld

\* A new account owes nothing and counts nothing.
LEMMA NewSums ==
  ASSUME NEW r, r.s_minus_bps = 0, r.s_minus_at = 0, r.import_date = 0,
         r.meaningful_on_time = 0, r.meaningful_weight_bps = 0, NEW at \in Nat
  PROVE  PenaltyHeld(r, {}, at) /\ GatesHeld(r, {})
<1>1. Counted({}) = {} /\ Cardinality({}) = 0 /\ Smaller(0, MAX_U16) = 0 /\ Smaller(0, MAX_U64) = 0
  BY FS_EmptySet, Constants DEF Smaller, Counted
<1>2. \A f : SumFunctionOnSet(f, {}) = 0
  BY SumEmpty
<1>3. CountedWeight({}) = 0 /\ FullPenalty({}) = 0 /\ \A t : FadedPenalty({}, t) = 0
  BY <1>1, <1>2 DEF CountedWeight, FullPenalty, FadedPenalty
<1>4. PenaltySlack({}) \in Nat
  BY FS_EmptySet, PenaltySums
<1>5. ASSUME NEW t \in Nat PROVE DecayBps(0, 0, t) = 0
  <2>1. DecayBps(0, 0, t) \in Nat /\ DecayBps(0, 0, t) <= 0
    BY DecayNat, DecayStarts
  <2> QED BY <2>1
<1>6. ASSUME NEW t \in Nat PROVE Follows(r, {}, t)
  <2>1. DecayBps(r.s_minus_bps, r.s_minus_at, t) = 0
    BY <1>5
  <2> QED BY <1>3, <1>4, <2>1 DEF Follows
<1>7. PenaltyHeld(r, {}, at)
  BY <1>3, <1>6 DEF PenaltyHeld
<1> QED BY <1>1, <1>3, <1>7 DEF GatesHeld

\* record_event keeps the sums: the wallet's own records grow by one, and no other
\* wallet's do.
LEMMA RecordKeepsSums ==
  ASSUME IInv, History, SumsKept, NEW writer \in Writers, NEW w \in Wallets,
         NEW principal \in Principals, NEW opened_at \in OpenDates, NEW due_at \in DueDates,
         NEW outcome \in Outcomes, NEW loan \in LoanKeys,
         RecordEvent(writer, w, principal, opened_at, due_at, outcome, loan)
  PROVE  SumsKept'
<1> DEFINE q == Recorded(reputation[w], principal, opened_at, due_at, outcome)
           new == [loan |-> loan, borrower |-> w, lender |-> writer, principal |-> principal,
                   opened_at |-> opened_at, due_at |-> due_at, closed_at |-> now,
                   outcome |-> outcome]
<1>1. /\ w \in Scored /\ now' = now /\ new \notin attestations
      /\ attestations' = attestations \cup {new}
      /\ reputation' = [reputation EXCEPT ![w] = Refreshed(q, now)]
  BY DEF RecordEvent
<1>2. principal \in Nat /\ opened_at \in Nat /\ now \in Nat
  BY TrustTrailAssumption DEF IInv, TypeOK
<1>3. reputation[w] \in UserReputationV2
  BY <1>1, ScoredAccount DEF IInv
<1>4. /\ new.borrower = w /\ new.principal = principal /\ new.opened_at = opened_at
      /\ new.closed_at = now /\ new.outcome = outcome
  OBVIOUS
<1> HIDE DEF new
<1>5. /\ RecordsOf(w)' = RecordsOf(w) \cup {new} /\ new \notin RecordsOf(w)
      /\ \A v : v # w => RecordsOf(v)' = RecordsOf(v)
  BY <1>1, <1>4 DEF RecordsOf
<1> DEFINE S == RecordsOf(w)
<1>6. /\ PenaltyHeld(Refreshed(q, now), S \cup {new}, now)
      /\ GatesHeld(Refreshed(q, now), S \cup {new})
  <2> DEFINE r == reputation[w]
  <2>1. /\ r \in UserReputationV2 /\ IsFiniteSet(S) /\ S \subseteq Attestation /\ new \notin S
        /\ PenaltyHeld(r, S, now) /\ GatesHeld(r, S)
    BY <1>1, <1>3, <1>5, RecordsFinite DEF SumsKept
  <2> HIDE DEF r, S
  <2>2. /\ PenaltyHeld(Refreshed(Recorded(r, principal, opened_at, due_at, outcome), now),
                       S \cup {new}, now)
        /\ GatesHeld(Refreshed(Recorded(r, principal, opened_at, due_at, outcome), now),
                     S \cup {new})
    BY <1>2, <1>4, <2>1, RecordPenalty, RecordGates
  <2> QED BY <2>2 DEF r
<1>7. q \in UserReputationV2
  <2> DEFINE r == reputation[w]
  <2>1. r \in UserReputationV2
    BY <1>3
  <2> HIDE DEF r
  <2>2. LET p == Recorded(r, principal, opened_at, due_at, outcome)
        IN  /\ p \in UserReputationV2
            /\ p.last_liquidation_date =
                 IF outcome \in {ON_TIME, LATE} THEN r.last_liquidation_date ELSE now
    BY <1>2, <2>1, RecordedAccount
  <2> QED BY <2>2 DEF r
<1> HIDE DEF q
<1>8. Scored' = Scored /\ \A v \in Scored \ {w} : reputation'[v] = reputation[v]
  BY <1>1, <1>7, RefreshKeeps
<1>9. reputation'[w] = Refreshed(q, now)
  BY <1>1, ScoredAccount DEF IInv, TypeOK
<1> SUFFICES ASSUME NEW v \in Scored'
             PROVE  PenaltyHeld(reputation'[v], RecordsOf(v)', now')
                    /\ GatesHeld(reputation'[v], RecordsOf(v)')
  BY DEF SumsKept
<1>10. CASE v = w
  BY <1>1, <1>5, <1>6, <1>9, <1>10
<1>11. CASE v # w
  BY <1>1, <1>5, <1>8, <1>11 DEF SumsKept
<1> QED BY <1>10, <1>11

\* An instruction that leaves one wallet w with a refreshed account of the same
\* penalty and counted loans, and the records as they are.
LEMMA RefreshKeepsSums ==
  ASSUME IInv, SumsKept, NEW w \in Scored, NEW q \in UserReputationV2, now' = now,
         reputation' = [reputation EXCEPT ![w] = Refreshed(q, now)], attestations' = attestations,
         PenaltyHeld(q, RecordsOf(w), now), GatesHeld(q, RecordsOf(w))
  PROVE  SumsKept'
<1>1. Scored' = Scored /\ \A v \in Scored \ {w} : reputation'[v] = reputation[v]
  BY RefreshKeeps
<1> DEFINE f == Refreshed(q, now)
<1>2. reputation'[w] = f
  BY ScoredAccount DEF IInv, TypeOK
<1>3. \A v : RecordsOf(v)' = RecordsOf(v)
  BY DEF RecordsOf
<1>4. /\ f.s_minus_bps = q.s_minus_bps /\ f.s_minus_at = q.s_minus_at
      /\ f.import_date = q.import_date /\ f.meaningful_on_time = q.meaningful_on_time
      /\ f.meaningful_weight_bps = q.meaningful_weight_bps
  BY DEF Refreshed, UserReputationV2
<1>5. q.s_minus_at \in Nat /\ now \in Nat /\ now <= now
  BY AccountFields DEF IInv, TypeOK
<1> HIDE DEF f
<1>6. PenaltyHeld(f, RecordsOf(w), now) /\ GatesHeld(f, RecordsOf(w))
  BY <1>4, <1>5, SamePenalty, SameGates
<1> SUFFICES ASSUME NEW v \in Scored
             PROVE  PenaltyHeld(reputation'[v], RecordsOf(v), now)
                    /\ GatesHeld(reputation'[v], RecordsOf(v))
  BY <1>1, <1>3 DEF SumsKept
<1>7. CASE v = w
  BY <1>2, <1>6, <1>7
<1>8. CASE v # w
  BY <1>1, <1>8 DEF SumsKept
<1> QED BY <1>7, <1>8

\* set_imported_score leaves the penalty, and frees the counts once it has a date.
LEMMA ImportKeepsSums ==
  ASSUME IInv, SumsKept, NEW writer \in Writers, NEW w \in Wallets, NEW import \in Imports,
         SetImportedScore(writer, w, import)
  PROVE  SumsKept'
<1> DEFINE r == reputation[w]
           q == Imported(r, import)
<1>1. /\ w \in Scored /\ now' = now /\ attestations' = attestations
      /\ import.score <= SCORE_MAX
      /\ reputation' = [reputation EXCEPT ![w] = Refreshed(q, now)]
  BY DEF SetImportedScore
<1>2. /\ r \in UserReputationV2 /\ now \in Nat /\ now # 0
      /\ PenaltyHeld(r, RecordsOf(w), now) /\ GatesHeld(r, RecordsOf(w))
  BY <1>1, ScoredAccount DEF IInv, TypeOK, SumsKept
<1>3. import \in [score : Nat, on_time : Nat, weight : Nat]
  BY TrustTrailAssumption
<1> HIDE DEF r
<1>4. q \in UserReputationV2
  BY <1>1, <1>2, <1>3, ImportedAccount
<1>5. q.s_minus_bps = r.s_minus_bps /\ q.s_minus_at = r.s_minus_at /\ q.import_date = now
  BY <1>2 DEF Imported, UserReputationV2
<1>6. r.s_minus_at \in Nat /\ now <= now
  BY <1>2, AccountFields
<1> HIDE DEF q
<1>7. PenaltyHeld(q, RecordsOf(w), now) /\ GatesHeld(q, RecordsOf(w))
  BY <1>2, <1>5, <1>6, SamePenalty, SameGates
<1> QED BY <1>1, <1>4, <1>7, RefreshKeepsSums

\* set_exposure touches neither.
LEMMA ExposureKeepsSums ==
  ASSUME IInv, SumsKept, NEW w \in Wallets, NEW exposure \in Exposures, SetExposure(w, exposure)
  PROVE  SumsKept'
<1> DEFINE r == reputation[w]
           q == [r EXCEPT !.exposure_bps = exposure]
<1>1. /\ w \in Scored /\ now' = now /\ attestations' = attestations
      /\ exposure <= r.exposure_bps
      /\ reputation' = [reputation EXCEPT ![w] = Refreshed(q, now)]
  BY DEF SetExposure
<1>2. /\ r \in UserReputationV2 /\ now \in Nat
      /\ PenaltyHeld(r, RecordsOf(w), now) /\ GatesHeld(r, RecordsOf(w))
  BY <1>1, ScoredAccount DEF IInv, TypeOK, SumsKept
<1>3. exposure \in Nat
  BY TrustTrailAssumption
<1> HIDE DEF r
<1>4. q \in UserReputationV2
  <2>1. exposure \in 0..MAX_U64
    <3>1. r.exposure_bps \in 0..MAX_U64
      BY <1>2 DEF UserReputationV2
    <3> QED BY <1>1, <1>3, <3>1, Constants
  <2> QED BY <1>2, <2>1 DEF UserReputationV2
<1>5. /\ q.s_minus_bps = r.s_minus_bps /\ q.s_minus_at = r.s_minus_at
      /\ q.import_date = r.import_date /\ q.meaningful_on_time = r.meaningful_on_time
      /\ q.meaningful_weight_bps = r.meaningful_weight_bps
  BY <1>2 DEF UserReputationV2
<1>6. r.s_minus_at \in Nat /\ now <= now
  BY <1>2, AccountFields
<1> HIDE DEF q
<1>7. PenaltyHeld(q, RecordsOf(w), now) /\ GatesHeld(q, RecordsOf(w))
  BY <1>2, <1>5, <1>6, SamePenalty, SameGates
<1> QED BY <1>1, <1>4, <1>7, RefreshKeepsSums

\* init_score starts from nothing, for a wallet without records.
LEMMA InitScoreKeepsSums ==
  ASSUME IInv, SumsKept, NEW w \in Wallets, InitScore(w)
  PROVE  SumsKept'
<1> DEFINE new == reputation'[w]
<1>1. w \notin Scored /\ attestations' = attestations /\ now' = now
  BY DEF InitScore, Scored
<1>2. /\ new.s_minus_bps = 0 /\ new.s_minus_at = 0 /\ new.import_date = 0
      /\ new.meaningful_on_time = 0 /\ new.meaningful_weight_bps = 0
  BY DEF InitScore, IInv, TypeOK
<1>3. PenaltyHeld(new, {}, now) /\ GatesHeld(new, {})
  <2>1. now \in Nat
    BY DEF IInv, TypeOK
  <2> HIDE DEF new
  <2> QED BY <1>2, <2>1, NewSums
<1>4. RecordsOf(w) = {}
  BY <1>1 DEF RecordsOf, IInv, DatesKept
<1>5. \A v \in Wallets \ {w} : reputation'[v] = reputation[v]
  BY DEF InitScore, IInv, TypeOK
<1>6. \A v : RecordsOf(v)' = RecordsOf(v)
  BY <1>1 DEF RecordsOf
<1> SUFFICES ASSUME NEW v \in Scored'
             PROVE  PenaltyHeld(reputation'[v], RecordsOf(v), now)
                    /\ GatesHeld(reputation'[v], RecordsOf(v))
  BY <1>1, <1>6 DEF SumsKept
<1>7. v \in Wallets /\ reputation'[v] # NoAccount
  BY DEF Scored
<1>8. CASE v = w
  BY <1>3, <1>4, <1>8
<1>9. CASE v # w
  <2>1. v \in Scored /\ reputation'[v] = reputation[v]
    BY <1>5, <1>7, <1>9 DEF Scored
  <2> QED BY <2>1 DEF SumsKept
<1> QED BY <1>8, <1>9

\* SumsKept is inductive, beside IInv and History.
LEMMA StepKeepsSums == IInv /\ History /\ SumsKept /\ [Next]_vars => SumsKept'
<1> SUFFICES ASSUME IInv, History, SumsKept, [Next]_vars PROVE SumsKept'
  OBVIOUS
<1>1. ASSUME reputation' = reputation, attestations' = attestations, now' \in Nat, now <= now'
      PROVE  SumsKept'
  <2>1. Scored' = Scored /\ \A v : RecordsOf(v)' = RecordsOf(v)
    BY <1>1 DEF Scored, RecordsOf
  <2> SUFFICES ASSUME NEW v \in Scored
               PROVE  PenaltyHeld(reputation[v], RecordsOf(v), now')
                      /\ GatesHeld(reputation[v], RecordsOf(v))
    BY <1>1, <2>1 DEF SumsKept
  <2>2. now \in Nat /\ reputation[v].s_minus_at \in Nat
    BY ScoredAccount, AccountFields DEF IInv, TypeOK
  <2>3. PenaltyHeld(reputation[v], RecordsOf(v), now) /\ GatesHeld(reputation[v], RecordsOf(v))
    BY DEF SumsKept
  <2> QED BY <1>1, <2>2, <2>3, SamePenalty
<1>2. CASE RecordStep
  BY <1>2, RecordKeepsSums DEF RecordStep
<1>3. CASE ScoreStep
  <2>1. PICK w \in Wallets :
          \/ InitScore(w)
          \/ \E writer \in Writers, import \in Imports : SetImportedScore(writer, w, import)
          \/ \E exposure \in Exposures : SetExposure(w, exposure)
    BY <1>3 DEF ScoreStep
  <2>2. CASE InitScore(w)
    BY <2>2, InitScoreKeepsSums
  <2>3. CASE \E writer \in Writers, import \in Imports : SetImportedScore(writer, w, import)
    BY <2>3, ImportKeepsSums
  <2>4. CASE \E exposure \in Exposures : SetExposure(w, exposure)
    BY <2>4, ExposureKeepsSums
  <2> QED BY <2>1, <2>2, <2>3, <2>4
<1>4. now \in Nat
  BY DEF IInv, TypeOK
<1>5. CASE WhitelistStep
  BY <1>1, <1>4, <1>5 DEF WhitelistStep, AddWriter, RemoveWriter
<1>6. CASE Tick
  <2>1. now' \in Nat /\ now <= now'
    BY <1>4, <1>6, TrustTrailAssumption DEF Tick
  <2> QED BY <1>1, <1>6, <2>1 DEF Tick
<1>7. CASE UNCHANGED vars
  BY <1>1, <1>4, <1>7 DEF vars
<1> QED BY <1>2, <1>3, <1>5, <1>6, <1>7 DEF Next


-----------------------------------------------------------------------------
(* What a record does to the live standing *)

\* The standing right after a record: the penalty has just been dated, so it has
\* not faded since.
LEMMA RecordedStanding ==
  ASSUME NEW r \in UserReputationV2, now \in Nat, NEW principal \in Nat,
         NEW opened_at \in Nat, NEW due_at, NEW outcome
  PROVE  LET q == Refreshed(Recorded(r, principal, opened_at, due_at, outcome), now)
             s == Standing(q, now)
             counts == outcome = ON_TIME /\ MeaningfulLoan(principal, opened_at, now, outcome)
         IN  /\ s.native = NativeComponent(
                  SatAdd64(r.s_plus_bps, PlusBps(principal, opened_at, now, due_at, outcome)),
                  PenaltyNow(r, principal, outcome))
             /\ s.score = Blend(s.native, r.imported_score, SatAdd64(r.exposure_bps,
                                  ExposureWeightBps(principal, opened_at, now, outcome)))
             /\ s.tier = ComputeTier(s.score,
                  IF counts THEN SatAdd16(r.meaningful_on_time, 1) ELSE r.meaningful_on_time,
                  IF counts THEN SatAdd64(r.meaningful_weight_bps, PrincipalWeightBps(principal))
                  ELSE r.meaningful_weight_bps,
                  IF outcome \in {ON_TIME, LATE} THEN r.last_liquidation_date ELSE now, now)
<1> DEFINE q == Recorded(r, principal, opened_at, due_at, outcome)
           f == Refreshed(q, now)
           p == PenaltyNow(r, principal, outcome)
<1>1. q \in UserReputationV2
  BY RecordedAccount
<1>2. Standing(f, now) = Standing(q, now)
  <2> HIDE DEF q
  <2> QED BY <1>1, RefreshCaches
<1>3. p \in Nat
  <2>1. MinusBps(principal, outcome) \in Nat /\ DecayBps(r.s_minus_bps, r.s_minus_at, now) \in Nat
    BY ContributionsNat, DecayNat, AccountFields
  <2>2. p \in 0..MAX_U64
    BY <2>1, Saturating DEF PenaltyNow
  <2> QED BY <2>2
<1>4. q.s_minus_bps = p /\ q.s_minus_at = now /\ q.imported_score = r.imported_score
  BY DEF Recorded, UserReputationV2
<1>5. DecayBps(q.s_minus_bps, q.s_minus_at, now) = p
  <2> HIDE DEF p, q
  <2>1. now <= now
    OBVIOUS
  <2> QED BY <1>3, <1>4, <2>1, DecayStarts
<1> DEFINE s == Standing(q, now)
<1>6. /\ s.native = NativeComponent(q.s_plus_bps, p)
      /\ s.score = Blend(s.native, q.imported_score, q.exposure_bps)
      /\ s.tier = ComputeTier(s.score, q.meaningful_on_time, q.meaningful_weight_bps,
                              q.last_liquidation_date, now)
  <2> HIDE DEF p, q
  <2> QED BY <1>5 DEF Standing
<1>7. /\ q.s_plus_bps = SatAdd64(r.s_plus_bps, PlusBps(principal, opened_at, now, due_at, outcome))
      /\ q.exposure_bps = SatAdd64(r.exposure_bps,
                            ExposureWeightBps(principal, opened_at, now, outcome))
      /\ q.last_liquidation_date =
           IF outcome \in {ON_TIME, LATE} THEN r.last_liquidation_date ELSE now
  BY DEF Recorded, UserReputationV2
<1> DEFINE counts == outcome = ON_TIME /\ MeaningfulLoan(principal, opened_at, now, outcome)
<1>8. /\ q.meaningful_on_time =
           (IF counts THEN SatAdd16(r.meaningful_on_time, 1) ELSE r.meaningful_on_time)
      /\ q.meaningful_weight_bps =
           (IF counts THEN SatAdd64(r.meaningful_weight_bps, PrincipalWeightBps(principal))
            ELSE r.meaningful_weight_bps)
  BY DEF Recorded, UserReputationV2
<1> HIDE DEF s, q, p, counts
<1>9. Standing(f, now) = s
  BY <1>2 DEF s
<1> QED BY <1>4, <1>6, <1>7, <1>8, <1>9 DEF f, q, p, counts

\* The standing of an account at a moment, in its parts.
LEMMA StandingParts ==
  ASSUME NEW r \in UserReputationV2, NEW at
  PROVE  LET s == Standing(r, at)
         IN  /\ s.native = NativeComponent(r.s_plus_bps,
                                           DecayBps(r.s_minus_bps, r.s_minus_at, at))
             /\ s.score = Blend(s.native, r.imported_score, r.exposure_bps)
             /\ s.tier = ComputeTier(s.score, r.meaningful_on_time, r.meaningful_weight_bps,
                                     r.last_liquidation_date, at)
  BY DEF Standing

\* Only a record changes what an account counts of the loans closed.
LEMMA OnlyRecords ==
  ASSUME IInv, [Next]_vars, NEW w \in Scored
  PROVE  \/ /\ reputation'[w].loans_repaid_on_time = reputation[w].loans_repaid_on_time
            /\ reputation'[w].liquidated_loans = reputation[w].liquidated_loans
         \/ /\ now' = now
            /\ \E principal \in Nat, opened_at \in Nat, due_at \in Nat, outcome \in Outcomes :
                 reputation'[w] =
                   Refreshed(Recorded(reputation[w], principal, opened_at, due_at, outcome), now)
<1> DEFINE same == /\ reputation'[w].loans_repaid_on_time = reputation[w].loans_repaid_on_time
                   /\ reputation'[w].liquidated_loans = reputation[w].liquidated_loans
           r == reputation[w]
<1>1. w \in Wallets /\ r \in UserReputationV2 /\ reputation \in [Wallets -> UserReputationV2 \cup {NoAccount}]
  BY ScoredAccount DEF IInv, TypeOK
<1>2. CASE reputation' = reputation
  BY <1>2
<1>3. ASSUME NEW v \in Wallets, NEW q, reputation' = [reputation EXCEPT ![v] = q], v # w
      PROVE  same
  BY <1>1, <1>3
<1>4. CASE RecordStep
  <2>1. PICK writer \in Writers, v \in Wallets, principal \in Principals, opened_at \in OpenDates,
             due_at \in DueDates, outcome \in Outcomes, loan \in LoanKeys :
          RecordEvent(writer, v, principal, opened_at, due_at, outcome, loan)
    BY <1>4 DEF RecordStep
  <2>2. /\ now' = now
        /\ reputation' = [reputation EXCEPT ![v] =
             Refreshed(Recorded(reputation[v], principal, opened_at, due_at, outcome), now)]
    BY <2>1 DEF RecordEvent
  <2>3. principal \in Nat /\ opened_at \in Nat /\ due_at \in Nat
    BY TrustTrailAssumption
  <2>4. CASE v # w
    BY <1>3, <2>2, <2>4
  <2>5. CASE v = w
    <3>1. reputation'[w] =
            Refreshed(Recorded(reputation[w], principal, opened_at, due_at, outcome), now)
      BY <1>1, <2>2, <2>5
    <3> QED BY <2>2, <2>3, <3>1
  <2> QED BY <2>4, <2>5
<1>5. CASE ScoreStep
  <2>1. PICK v \in Wallets :
          \/ InitScore(v)
          \/ \E writer \in Writers, import \in Imports : SetImportedScore(writer, v, import)
          \/ \E exposure \in Exposures : SetExposure(v, exposure)
    BY <1>5 DEF ScoreStep
  <2>2. CASE InitScore(v)
    BY <1>3, <2>2 DEF InitScore, Scored
  <2>3. CASE \E writer \in Writers, import \in Imports : SetImportedScore(writer, v, import)
    <3>1. PICK import \in Imports :
            reputation' = [reputation EXCEPT ![v] = Refreshed(Imported(reputation[v], import), now)]
      BY <2>3 DEF SetImportedScore
    <3>2. CASE v = w
      <4>1. reputation'[w] = Refreshed(Imported(r, import), now)
        BY <1>1, <3>1, <3>2
      <4> QED BY <1>1, <4>1 DEF Refreshed, Imported, UserReputationV2
    <3> QED BY <1>3, <3>1, <3>2
  <2>4. CASE \E exposure \in Exposures : SetExposure(v, exposure)
    <3>1. PICK exposure \in Exposures :
            reputation' = [reputation EXCEPT ![v] =
              Refreshed([reputation[v] EXCEPT !.exposure_bps = exposure], now)]
      BY <2>4 DEF SetExposure
    <3>2. CASE v = w
      <4>1. reputation'[w] = Refreshed([r EXCEPT !.exposure_bps = exposure], now)
        BY <1>1, <3>1, <3>2
      <4> QED BY <1>1, <4>1 DEF Refreshed, UserReputationV2
    <3> QED BY <1>3, <3>1, <3>2
  <2> QED BY <2>1, <2>2, <2>3, <2>4
<1>6. CASE WhitelistStep
  BY <1>2, <1>6 DEF WhitelistStep, AddWriter, RemoveWriter
<1>7. CASE Tick \/ UNCHANGED vars
  BY <1>2, <1>7 DEF Tick, vars
<1> QED BY <1>4, <1>5, <1>6, <1>7 DEF Next

\* An on-time loan: the good history and the exposure grow, the penalty is as it
\* was, so the blend rises and leans to the side that is not lower.
LEMMA OnTimeRaises ==
  ASSUME NEW r \in UserReputationV2, now \in Nat, NEW principal \in Nat,
         NEW opened_at \in Nat, NEW due_at,
         NEW before, before = Standing(r, now), NEW after,
         after = Standing(Refreshed(Recorded(r, principal, opened_at, due_at, ON_TIME), now), now),
         r.imported_score <= after.native
  PROVE  before.score <= after.score /\ before.tier <= after.tier
<1> DEFINE i == r.imported_score
           m == DecayBps(r.s_minus_bps, r.s_minus_at, now)
           S == r.s_plus_bps
           T == SatAdd64(S, PlusBps(principal, opened_at, now, due_at, ON_TIME))
           E == r.exposure_bps
           F == SatAdd64(E, ExposureWeightBps(principal, opened_at, now, ON_TIME))
           counts == MeaningfulLoan(principal, opened_at, now, ON_TIME)
           h == IF counts THEN SatAdd16(r.meaningful_on_time, 1) ELSE r.meaningful_on_time
           w == IF counts THEN SatAdd64(r.meaningful_weight_bps, PrincipalWeightBps(principal))
                ELSE r.meaningful_weight_bps
           last == r.last_liquidation_date
<1>1. /\ r.s_plus_bps \in 0..MAX_U64 /\ r.s_minus_bps \in 0..MAX_U64
      /\ r.exposure_bps \in 0..MAX_U64 /\ r.meaningful_on_time \in 0..MAX_U16
      /\ r.meaningful_weight_bps \in 0..MAX_U64 /\ i \in 0..SCORE_MAX
      /\ r.s_minus_at \in Nat /\ last \in Nat
  BY DEF UserReputationV2
<1>2. m \in Nat /\ m <= MAX_U64
  <2>1. r.s_minus_bps \in Nat
    BY <1>1
  <2>2. m \in Nat /\ m <= r.s_minus_bps
    BY <1>1, <2>1, DecayNat, DecayStarts
  <2> HIDE DEF m
  <2> QED BY <1>1, <2>2, Constants
<1>3. PenaltyNow(r, principal, ON_TIME) = m
  <2>1. MinusBps(principal, ON_TIME) = 0
    BY DEF MinusBps, ON_TIME, LIQUIDATED, DEFAULTED
  <2> HIDE DEF m
  <2>2. SatAdd64(m, 0) = m
    BY <1>2, Constants DEF SatAdd64, Smaller
  <2> QED BY <2>1, <2>2 DEF PenaltyNow, m
<1>4. /\ before.native = NativeComponent(S, m) /\ before.score = Blend(before.native, i, E)
      /\ before.tier = ComputeTier(before.score, r.meaningful_on_time, r.meaningful_weight_bps,
                                   last, now)
  BY StandingParts
<1>5. /\ after.native = NativeComponent(T, m) /\ after.score = Blend(after.native, i, F)
      /\ after.tier = ComputeTier(after.score, h, w, last, now)
  <2> HIDE DEF m
  <2>1. /\ after.native = NativeComponent(T, PenaltyNow(r, principal, ON_TIME))
        /\ after.score = Blend(after.native, i, F)
        /\ after.tier = ComputeTier(after.score, h, w,
             IF ON_TIME \in {ON_TIME, LATE} THEN last ELSE now, now)
    BY RecordedStanding
  <2> QED BY <1>3, <2>1
<1>6. /\ PlusBps(principal, opened_at, now, due_at, ON_TIME) \in Nat
      /\ ExposureWeightBps(principal, opened_at, now, ON_TIME) \in Nat
      /\ PrincipalWeightBps(principal) \in Nat
  BY ContributionsNat, WeightNat
<1>7. /\ S \in Nat /\ T \in Nat /\ S <= T /\ E \in Nat /\ F \in Nat /\ E <= F
  BY <1>1, <1>6, Constants DEF SatAdd64, Smaller
<1>8. /\ r.meaningful_on_time \in Nat /\ h \in Nat /\ r.meaningful_on_time <= h
      /\ r.meaningful_weight_bps \in Nat /\ w \in Nat /\ r.meaningful_weight_bps <= w
  <2>1. \A a \in 0..MAX_U16 : a \in Nat /\ SatAdd16(a, 1) \in Nat /\ a <= SatAdd16(a, 1)
    BY Constants DEF SatAdd16, Smaller
  <2>2. \A a \in 0..MAX_U64, b \in Nat : a \in Nat /\ SatAdd64(a, b) \in Nat /\ a <= SatAdd64(a, b)
    BY Constants DEF SatAdd64, Smaller
  <2> QED BY <1>1, <1>6, <2>1, <2>2
<1>9. i \in Nat /\ UpTo(i, SCORE_MAX)
  BY <1>1, Constants
<1> DEFINE n == before.native
           k == after.native
<1>10. UpTo(n, SCORE_MAX) /\ UpTo(k, SCORE_MAX) /\ n <= k
  <2>1. m <= m
    BY <1>2
  <2> HIDE DEF m, S, T
  <2>2. UpTo(NativeComponent(S, m), SCORE_MAX) /\ UpTo(NativeComponent(T, m), SCORE_MAX)
    BY <1>2, <1>7, <2>1, NativeRises
  <2>3. NativeComponent(S, m) <= NativeComponent(T, m)
    BY <1>2, <1>7, NativeGrows
  <2> QED BY <1>4, <1>5, <2>2, <2>3
<1> HIDE DEF i, m, S, T, E, F, h, w, last, n, k
<1>11. /\ UpTo(Blend(n, i, E), SCORE_MAX) /\ UpTo(Blend(k, i, F), SCORE_MAX)
       /\ Blend(n, i, E) <= Blend(k, i, E) /\ UpTo(Blend(k, i, E), SCORE_MAX)
  <2>1. k <= k
    BY <1>10 DEF UpTo
  <2> QED BY <1>7, <1>9, <1>10, <2>1, BlendRises
<1>12. Blend(k, i, E) <= Blend(k, i, F)
  <2>1. k \in 0..SCORE_MAX /\ i \in 0..SCORE_MAX
    BY <1>9, <1>10, Constants
  <2>2. i <= k
    BY DEF i, k
  <2> QED BY <1>7, <2>1, <2>2, BlendLeans
<1>13. before.score \in Nat /\ after.score \in Nat /\ before.score <= after.score
  BY <1>4, <1>5, <1>11, <1>12 DEF UpTo, n, k
<1>14. last \in Nat
  BY <1>1 DEF last
<1>15. before.tier <= after.tier
  <2> DEFINE s == before.score
             t == after.score
             g == r.meaningful_on_time
             v == r.meaningful_weight_bps
  <2>1. /\ s \in Nat /\ t \in Nat /\ s <= t /\ g \in Nat /\ h \in Nat /\ g <= h
        /\ v \in Nat /\ w \in Nat /\ v <= w /\ last \in Nat
    BY <1>8, <1>13, <1>14
  <2> HIDE DEF s, t, g, v
  <2>2. ComputeTier(s, g, v, last, now) <= ComputeTier(t, h, w, last, now)
    BY <2>1, TierGrows
  <2> QED BY <1>4, <1>5, <2>2 DEF s, t, g, v
<1> QED BY <1>13, <1>15

\* A bad outcome: the penalty is at least twice the weight that the exposure
\* grows by, and the tier is blocked.
LEMMA BadOutcomeLowers ==
  ASSUME NEW r \in UserReputationV2, now \in Nat \ {0}, NEW principal \in Nat,
         NEW opened_at \in Nat, NEW due_at, NEW outcome \in {LIQUIDATED, DEFAULTED},
         NEW before, before = Standing(r, now), NEW after,
         after = Standing(Refreshed(Recorded(r, principal, opened_at, due_at, outcome), now), now),
         r.s_plus_bps <= r.exposure_bps, r.imported_score <= before.native
  PROVE  \/ after.score <= before.score /\ after.tier <= before.tier
         \/ /\ after.native = before.native
            /\ after.score = before.score + 1 /\ after.tier <= BRONZE
<1> DEFINE i == r.imported_score
           m == DecayBps(r.s_minus_bps, r.s_minus_at, now)
           p == PenaltyNow(r, principal, outcome)
           w == PrincipalWeightBps(principal)
           S == r.s_plus_bps
           E == r.exposure_bps
           F == SatAdd64(E, w)
<1>1. /\ S \in 0..MAX_U64 /\ r.s_minus_bps \in 0..MAX_U64 /\ E \in 0..MAX_U64
      /\ r.s_minus_at \in Nat /\ i \in 0..SCORE_MAX
  BY DEF UserReputationV2
<1>2. m \in Nat /\ m <= MAX_U64 /\ w \in Nat /\ S \in Nat /\ E \in Nat /\ i \in Nat
  <2>1. r.s_minus_bps \in Nat
    BY <1>1
  <2>2. m \in Nat /\ m <= r.s_minus_bps
    BY <1>1, <2>1, DecayNat, DecayStarts
  <2>3. w \in Nat
    BY WeightNat
  <2> HIDE DEF m, w, S, E, i
  <2> QED BY <1>1, <2>2, <2>3, Constants
<1>3. MinusBps(principal, outcome) \in Nat /\ MinusBps(principal, outcome) >= 2 * w
  <2> HIDE DEF w
  <2>1. (w * 20000) \div BPS = 2 * w /\ (w * 30000) \div BPS = 3 * w
    <3>1. w * 20000 = (2 * w) * 10000 /\ w * 30000 = (3 * w) * 10000
      BY <1>2
    <3>2. \A x \in Nat : (x * 10000) \div 10000 = x
      OBVIOUS
    <3> QED BY <1>2, <3>1, <3>2 DEF BPS
  <2>2. MinusBps(principal, outcome) \in {2 * w, 3 * w}
    BY <2>1 DEF MinusBps, LIQUIDATED, DEFAULTED, w
  <2> QED BY <1>2, <2>2
<1>4. p \in Nat /\ m <= p /\ (p >= S \/ p >= m + 2 * w)
  <2> HIDE DEF m, w, S
  <2> DEFINE b == MinusBps(principal, outcome)
  <2>1. p = SatAdd64(m, b)
    BY DEF PenaltyNow, m
  <2> HIDE DEF b, p
  <2>2. b \in Nat /\ b >= 2 * w
    BY <1>3 DEF b
  <2> QED BY <1>1, <1>2, <2>1, <2>2, Constants DEF SatAdd64, Smaller
<1>5. F \in Nat /\ E <= F /\ F <= E + w
  <2> HIDE DEF w, E
  <2> QED BY <1>1, <1>2, Constants DEF SatAdd64, Smaller
<1>6. /\ before.native = NativeComponent(S, m) /\ before.score = Blend(before.native, i, E)
      /\ before.tier = ComputeTier(before.score, r.meaningful_on_time, r.meaningful_weight_bps,
                                   r.last_liquidation_date, now)
  BY StandingParts
<1>7. /\ after.native = NativeComponent(S, p) /\ after.score = Blend(after.native, i, F)
      /\ after.tier = IF after.score = 0 THEN UNPROVEN ELSE BRONZE
  <2>1. outcome \notin {ON_TIME, LATE}
    BY DEF ON_TIME, LATE, LIQUIDATED, DEFAULTED
  <2>2. PlusBps(principal, opened_at, now, due_at, outcome) = 0
    BY <2>1 DEF PlusBps
  <2>3. ExposureWeightBps(principal, opened_at, now, outcome) = w
    BY DEF ExposureWeightBps
  <2>4. SatAdd64(S, 0) = S
    <3> HIDE DEF S
    <3> QED BY <1>1, Constants DEF SatAdd64, Smaller
  <2> DEFINE q == Refreshed(Recorded(r, principal, opened_at, due_at, outcome), now)
             counts == outcome = ON_TIME /\ MeaningfulLoan(principal, opened_at, now, outcome)
             h == IF counts THEN SatAdd16(r.meaningful_on_time, 1) ELSE r.meaningful_on_time
             u == IF counts THEN SatAdd64(r.meaningful_weight_bps, PrincipalWeightBps(principal))
                  ELSE r.meaningful_weight_bps
  <2>5. /\ after.native = NativeComponent(
             SatAdd64(S, PlusBps(principal, opened_at, now, due_at, outcome)), p)
        /\ after.score = Blend(after.native, i, SatAdd64(E,
                            ExposureWeightBps(principal, opened_at, now, outcome)))
        /\ after.tier = ComputeTier(after.score, h, u,
             IF outcome \in {ON_TIME, LATE} THEN r.last_liquidation_date ELSE now, now)
    <3> HIDE DEF p
    <3> QED BY RecordedStanding DEF p
  <2> HIDE DEF h, u, p, w
  <2>6. after.tier = ComputeTier(after.score, h, u, now, now)
    BY <2>1, <2>5
  <2> QED BY <2>2, <2>3, <2>4, <2>5, <2>6, TierWhenBlocked
<1> DEFINE n == before.native
           k == after.native
<1>8. n \in 0..SCORE_MAX /\ k \in 0..SCORE_MAX
  <2> HIDE DEF m, p, S
  <2>1. NativeComponent(S, m) \in 0..SCORE_MAX /\ NativeComponent(S, p) \in 0..SCORE_MAX
    <3>1. m <= m /\ p <= p
      BY <1>2, <1>4
    <3>2. UpTo(NativeComponent(S, m), SCORE_MAX) /\ UpTo(NativeComponent(S, p), SCORE_MAX)
      BY <1>2, <1>4, <3>1, NativeRises
    <3> QED BY <3>2, Constants
  <2> QED BY <1>6, <1>7, <2>1
<1> HIDE DEF i, m, p, w, S, E, F
<1> DEFINE P == Blended(n, i, Lean(E))
           Q == Blended(k, i, Lean(F))
<1>9. Q <= P + 5000 /\ (k # n => Q <= P)
  <2>1. i <= NativeComponent(S, m) /\ S <= E
    BY <1>6 DEF i, S, E
  <2>2. Outweighed(S, m, p, i, E, F)
    BY <1>2, <1>4, <1>5, <2>1, PenaltyOutweighs
  <2> QED BY <1>6, <1>7, <2>2 DEF Outweighed
<1>10. /\ P \in Nat /\ before.score = P \div 10000
       /\ Q \in Nat /\ after.score = Q \div 10000
  <2>1. i \in 0..SCORE_MAX
    BY <1>1
  <2> HIDE DEF n, k
  <2>2. P \in Nat /\ Blend(n, i, E) = P \div BPS /\ Q \in Nat /\ Blend(k, i, F) = Q \div BPS
    BY <1>2, <1>5, <1>8, <2>1, BlendIs
  <2> QED BY <1>6, <1>7, <2>2 DEF BPS, n, k
<1> HIDE DEF P, Q, n, k
<1>11. after.score \in Nat /\ before.score \in Nat /\ after.score <= before.score + 1
       /\ (k # n => after.score <= before.score)
  <2> DEFINE a == P \div 10000
             b == Q \div 10000
  <2>1. a \in Nat /\ a * 10000 <= P /\ P < a * 10000 + 10000
    BY <1>10, DivBounds
  <2>2. b \in Nat /\ b * 10000 <= Q /\ Q < b * 10000 + 10000
    BY <1>10, DivBounds
  <2> HIDE DEF a, b
  <2>3. b <= a + 1 /\ (k # n => b <= a)
    BY <1>9, <1>10, <2>1, <2>2
  <2> QED BY <1>10, <2>1, <2>2, <2>3 DEF a, b
<1>12. after.tier <= BRONZE
  BY <1>7 DEF UNPROVEN, BRONZE
<1>13. CASE after.score <= before.score
  <2>1. before.tier \in Tiers /\ (before.score # 0 => before.tier >= 1)
    BY <1>6 DEF ComputeTier, UNPROVEN, BRONZE, SILVER, GOLD, Tiers
  <2>2. after.score # 0 => before.score # 0
    BY <1>11, <1>13
  <2>3. after.tier <= before.tier
    BY <1>7, <2>1, <2>2 DEF UNPROVEN, BRONZE, Tiers
  <2> QED BY <1>13, <2>3
<1>14. CASE ~(after.score <= before.score)
  <2>1. after.score = before.score + 1
    BY <1>11, <1>14
  <2> QED BY <1>11, <1>12, <1>14, <2>1 DEF n, k
<1> QED BY <1>13, <1>14

\* The parts of OnTimeHelps and BadOutcomeHurts that a step says of one wallet.
Helped(w) ==
  LET before == Live(w)
      after == Live(w)'
  IN  /\ reputation'[w].loans_repaid_on_time > reputation[w].loans_repaid_on_time
      /\ reputation[w].imported_score <= after.native
      => after.score >= before.score /\ after.tier >= before.tier

Hurt(w) ==
  LET rep == reputation[w]
      before == Live(w)
      after == Live(w)'
  IN  /\ rep.liquidated_loans < reputation'[w].liquidated_loans
      /\ rep.s_plus_bps <= rep.exposure_bps
      /\ rep.imported_score <= before.native
      => \/ after.score <= before.score /\ after.tier <= before.tier
         \/ /\ after.native = before.native
            /\ after.score = before.score + 1 /\ after.tier <= BRONZE

LEMMA StepHelpsHurts ==
  ASSUME IInv, [Next]_vars, NEW w \in Scored
  PROVE  Helped(w) /\ Hurt(w)
<1> DEFINE r == reputation[w]
           q == reputation'[w]
           before == Standing(r, now)
<1>1. r \in UserReputationV2 /\ now \in Nat \ {0}
  BY ScoredAccount DEF IInv, TypeOK
<1>2. r.loans_repaid_on_time \in Nat /\ r.liquidated_loans \in Nat
  BY <1>1, AccountFields
<1>3. CASE q.loans_repaid_on_time = r.loans_repaid_on_time
           /\ q.liquidated_loans = r.liquidated_loans
  <2>1. ~(q.loans_repaid_on_time > r.loans_repaid_on_time)
        /\ ~(r.liquidated_loans < q.liquidated_loans)
    BY <1>2, <1>3
  <2> QED BY <2>1 DEF Helped, Hurt
<1>4. CASE /\ now' = now
           /\ \E principal \in Nat, opened_at \in Nat, due_at \in Nat, outcome \in Outcomes :
                q = Refreshed(Recorded(r, principal, opened_at, due_at, outcome), now)
  <2>1. PICK principal \in Nat, opened_at \in Nat, due_at \in Nat, outcome \in Outcomes :
          q = Refreshed(Recorded(r, principal, opened_at, due_at, outcome), now)
    BY <1>4
  <2> DEFINE f == Refreshed(Recorded(r, principal, opened_at, due_at, outcome), now)
             after == Standing(f, now)
  <2>2. Live(w) = before /\ Live(w)' = after
    BY <1>4, <2>1 DEF Live
  <2>3. /\ q.loans_repaid_on_time = (IF outcome = ON_TIME THEN SatAdd16(r.loans_repaid_on_time, 1)
                                     ELSE r.loans_repaid_on_time)
        /\ q.liquidated_loans = (IF outcome \notin {ON_TIME, LATE}
                                 THEN SatAdd16(r.liquidated_loans, 1) ELSE r.liquidated_loans)
    <3> HIDE DEF r, q
    <3> QED BY <1>1, <2>1, RecordedFields
  <2> HIDE DEF r, q
  <2>4. ASSUME q.loans_repaid_on_time > r.loans_repaid_on_time, r.imported_score <= after.native
        PROVE  after.score >= before.score /\ after.tier >= before.tier
    <3>1. outcome = ON_TIME
      BY <1>2, <2>3, <2>4
    <3> DEFINE old == before
               new == after
    <3>2. old = Standing(r, now) /\ r.imported_score <= new.native
          /\ new = Standing(Refreshed(Recorded(r, principal, opened_at, due_at, ON_TIME), now), now)
      BY <2>4, <3>1
    <3> HIDE DEF old, new
    <3>3. old.score <= new.score /\ old.tier <= new.tier
      BY <1>1, <3>2, OnTimeRaises
    <3>4. old.score \in Nat /\ new.score \in Nat /\ old.tier \in Int /\ new.tier \in Int
      <4>1. Recorded(r, principal, opened_at, due_at, outcome) \in UserReputationV2
        BY <1>1, RecordedAccount
      <4>2. f \in UserReputationV2
        BY <1>1, <4>1, RefreshCaches
      <4> HIDE DEF f
      <4>3. now <= now
        BY <1>1
      <4>4. before.score \in Nat /\ before.tier \in Tiers
        BY <1>1, <4>3, StandingRises
      <4>5. after.score \in Nat /\ after.tier \in Tiers
        BY <1>1, <4>2, <4>3, StandingRises
      <4> QED BY <4>4, <4>5 DEF old, new, Tiers
    <3>5. new.score >= old.score /\ new.tier >= old.tier
      BY <3>3, <3>4
    <3> QED BY <3>5 DEF old, new
  <2>5. ASSUME r.liquidated_loans < q.liquidated_loans, r.s_plus_bps <= r.exposure_bps,
               r.imported_score <= before.native
        PROVE  \/ after.score <= before.score /\ after.tier <= before.tier
               \/ /\ after.native = before.native
                  /\ after.score = before.score + 1 /\ after.tier <= BRONZE
    <3>1. outcome \in {LIQUIDATED, DEFAULTED}
      <4>1. outcome \notin {ON_TIME, LATE}
        BY <1>2, <2>3, <2>5
      <4> QED BY <4>1 DEF ON_TIME, LATE, LIQUIDATED, DEFAULTED, Outcomes
    <3> DEFINE old == before
               new == after
    <3>2. old = Standing(r, now) /\ r.imported_score <= old.native
          /\ new = Standing(Refreshed(Recorded(r, principal, opened_at, due_at, outcome), now), now)
      BY <2>5
    <3> HIDE DEF old, new
    <3>3. \/ new.score <= old.score /\ new.tier <= old.tier
          \/ /\ new.native = old.native
             /\ new.score = old.score + 1 /\ new.tier <= BRONZE
      BY <1>1, <2>5, <3>1, <3>2, BadOutcomeLowers
    <3> QED BY <3>3 DEF old, new
  <2> HIDE DEF before, after
  <2>6. Helped(w)
    BY <2>2, <2>4 DEF Helped, r, q
  <2>7. Hurt(w)
    BY <2>2, <2>5 DEF Hurt, r, q
  <2> QED BY <2>6, <2>7
<1> QED BY <1>3, <1>4, OnlyRecords

-----------------------------------------------------------------------------
(* The score page computes the program's standing in a second language.     *)

LEMMA DecayAgrees ==
  ASSUME NEW v, NEW from \in Nat, NEW at \in Nat
  PROVE  decayBps(v, from, at) = DecayBps(v, from, at)
<1>1. Larger(at - from, 0) = SatSub(at, from)
  BY DEF Larger, SatSub
<1>2. halfStepTable = HALF_STEP_TABLE
  BY DEF halfStepTable, HALF_STEP_TABLE
<1> QED BY <1>1, <1>2, Zenon DEF decayBps, DecayBps

LEMMA NativeAgrees ==
  ASSUME NEW plus \in Nat, NEW minus \in Nat
  PROVE  nativeComponent(plus, minus) = NativeComponent(plus, minus)
<1> DEFINE good == Smaller(plus, FULL_WEIGHT_BPS)
           net == IF good > minus THEN good - minus ELSE 0
<1>1. good \in Nat
  BY DEF Smaller, FULL_WEIGHT_BPS
<1> HIDE DEF good
<1>2. net = SatSub(good, minus)
  BY <1>1 DEF SatSub
<1> QED BY <1>2 DEF nativeComponent, NativeComponent, good

LEMMA BlendAgrees ==
  \A native, imported, exposure :
    blend(native, imported, exposure) = Blend(native, imported, exposure)
  BY DEF blend, nativeShareBps, Blend

LEMMA MaxIs ==
  ASSUME NEW S, S \subseteq Int, NEW m \in S, \A y \in S : m >= y
  PROVE  Max(S) = m
<1>1. \E x \in S : \A y \in S : x >= y
  OBVIOUS
<1>2. Max(S) \in S /\ \A y \in S : Max(S) >= y
  BY <1>1 DEF Max
<1>3. Max(S) \in Int /\ m \in Int /\ Max(S) >= m /\ m >= Max(S)
  BY <1>2
<1> QED BY <1>3

\* The gates a standing passes, as computeTier filters them.
Passed(score, on_time, weight, last, at) ==
  {tier \in {SILVER, GOLD} :
     /\ liquidationClean(last, at)
     /\ score >= tierGates[tier].score
     /\ on_time >= tierGates[tier].on_time
     /\ weight >= tierGates[tier].weight}

LEMMA TierAgrees ==
  ASSUME NEW score \in Nat, NEW on_time \in Nat, NEW weight \in Nat,
         NEW last \in Nat, NEW at \in Nat
  PROVE  /\ computeTier(score, on_time, weight, last, at)
              = ComputeTier(score, on_time, weight, last, at)
         /\ score # 0 =>
              LET tier == ComputeTier(score, on_time, weight, last, at)
              IN  tier \in {BRONZE, SILVER, GOLD}
                  /\ (tier < GOLD => tier + 1 \notin Passed(score, on_time, weight, last, at))
                  /\ (tier = SILVER => liquidationClean(last, at))
<1> DEFINE passed == Passed(score, on_time, weight, last, at)
           tier == ComputeTier(score, on_time, weight, last, at)
           clean == liquidationClean(last, at)
           silver == clean /\ score >= 500 /\ on_time >= 3 /\ weight >= 30000
           gold == clean /\ score >= 750 /\ on_time >= 8 /\ weight >= 80000
<1>1. /\ tierGates[2] = [score |-> 500, on_time |-> 3, weight |-> 30000]
      /\ tierGates[3] = [score |-> 750, on_time |-> 8, weight |-> 80000]
  BY DEF tierGates, SILVER, GOLD
<1>2. /\ 2 \in passed <=> silver
      /\ 3 \in passed <=> gold
      /\ passed \subseteq {2, 3}
  BY <1>1 DEF Passed, SILVER, GOLD
<1>3. gold => silver
  OBVIOUS
<1>4. tier = IF score = 0 THEN 0 ELSE IF gold THEN 3 ELSE IF silver THEN 2 ELSE 1
  BY DEF ComputeTier, liquidationClean, UNPROVEN, BRONZE, SILVER, GOLD, SILVER_MIN_SCORE,
    SILVER_MIN_ON_TIME, SILVER_MIN_WEIGHT_BPS, GOLD_MIN_SCORE, GOLD_MIN_ON_TIME,
    GOLD_MIN_WEIGHT_BPS
<1>5. computeTier(score, on_time, weight, last, at)
        = IF score = 0 THEN 0 ELSE Max(passed \cup {1})
  BY DEF computeTier, Passed, UNPROVEN, BRONZE
<1> HIDE DEF passed, tier, silver, gold
<1>6. Max(passed \cup {1}) = IF gold THEN 3 ELSE IF silver THEN 2 ELSE 1
  <2> DEFINE S == passed \cup {1}
             m == IF gold THEN 3 ELSE IF silver THEN 2 ELSE 1
  <2>1. S \subseteq Int /\ m \in S /\ \A y \in S : m >= y
    BY <1>2, <1>3
  <2> HIDE DEF S, m
  <2>2. Max(S) = m
    BY <2>1, MaxIs
  <2> QED BY <2>2 DEF S, m
<1>7. score # 0 => /\ tier \in {1, 2, 3}
                   /\ tier < 3 => tier + 1 \notin passed
                   /\ tier = 2 => clean
  <2>1. silver => clean
    BY DEF silver
  <2> QED BY <1>2, <1>3, <1>4, <2>1
<1> QED BY <1>4, <1>5, <1>6, <1>7 DEF passed, tier, BRONZE, SILVER, GOLD

\* An account that the instructions can produce, as the page reads it.
LEMMA StandingAgrees ==
  ASSUME NEW r \in UserReputationV2, NEW at \in Nat
  PROVE  standing(r, at) = Standing(r, at)
<1>1. /\ r.s_plus_bps \in Nat /\ r.s_minus_bps \in Nat /\ r.s_minus_at \in Nat
      /\ r.exposure_bps \in Nat /\ UpTo(r.imported_score, SCORE_MAX)
      /\ r.meaningful_on_time \in Nat /\ r.meaningful_weight_bps \in Nat
      /\ r.last_liquidation_date \in Nat
  BY AccountFields
<1> DEFINE minus == DecayBps(r.s_minus_bps, r.s_minus_at, at)
           native == NativeComponent(r.s_plus_bps, minus)
           score == Blend(native, r.imported_score, r.exposure_bps)
<1>2. minus \in Nat
  BY <1>1, DecayNat
<1>3. decayBps(r.s_minus_bps, r.s_minus_at, at) = minus
  BY <1>1, DecayAgrees
<1> HIDE DEF minus
<1>4. native \in 0..SCORE_MAX
  BY <1>1, <1>2, NativeBounds, Constants DEF UpTo
<1>5. nativeComponent(r.s_plus_bps, minus) = native
  BY <1>1, <1>2, NativeAgrees
<1> HIDE DEF native
<1>6. score \in Nat
  <2>1. Standing(r, at).score = score
    BY StandingParts DEF score, native, minus
  <2>2. at <= at
    OBVIOUS
  <2> QED BY <2>1, <2>2, StandingRises
<1>7. blend(native, r.imported_score, r.exposure_bps) = score
  BY BlendAgrees
<1> HIDE DEF score
<1>8. computeTier(score, r.meaningful_on_time, r.meaningful_weight_bps,
                  r.last_liquidation_date, at)
        = ComputeTier(score, r.meaningful_on_time, r.meaningful_weight_bps,
                      r.last_liquidation_date, at)
  BY <1>1, <1>6, TierAgrees
<1> QED BY <1>3, <1>5, <1>7, <1>8, Zenon DEF standing, Standing, minus, native, score

\* A wallet without an account stands at zero.
LEMMA EmptyStanding ==
  ASSUME NEW at \in Nat
  PROVE  standing(emptyReputation, at) = [native |-> 0, score |-> 0, tier |-> UNPROVEN]
<1> DEFINE minus == DecayBps(0, 0, at)
<1>1. minus \in Nat /\ decayBps(0, 0, at) = minus
  BY DecayNat, DecayAgrees
<1> HIDE DEF minus
<1>2. nativeComponent(0, minus) = 0
  BY <1>1 DEF nativeComponent, Smaller, FULL_WEIGHT_BPS, SCORE_MAX
<1>3. blend(0, 0, 0) = 0
  <2>1. nativeShareBps(0) = 0
    BY DEF nativeShareBps, Smaller, FULL_WEIGHT_BPS, BPS
  <2> QED BY <2>1 DEF blend, BPS
<1>4. computeTier(0, 0, 0, 0, at) = UNPROVEN
  BY DEF computeTier
<1> QED BY <1>1, <1>2, <1>3, <1>4 DEF standing, emptyReputation

\* A wallet below Gold is shown a gate of the next tier that it does not pass.
LEMMA GateNamed ==
  ASSUME NEW r \in UserReputationV2, NEW at \in Nat, Standing(r, at).tier < GOLD
  PROVE  \E g \in nextTier(r, Standing(r, at), at) : g.have < g.need
<1> DEFINE s == Standing(r, at)
           last == r.last_liquidation_date
           gate(name, have, need) == [gate |-> name, have |-> have, need |-> need]
<1>1. /\ r.meaningful_on_time \in Nat /\ r.meaningful_weight_bps \in Nat /\ last \in Nat
      /\ r.s_plus_bps \in Nat /\ r.s_minus_bps \in Nat /\ r.s_minus_at \in Nat
      /\ r.exposure_bps \in Nat /\ UpTo(r.imported_score, SCORE_MAX)
  BY AccountFields
<1>2. s.score \in Nat
  <2>1. at <= at
    OBVIOUS
  <2> QED BY <2>1, StandingRises
<1>3. s.tier = ComputeTier(s.score, r.meaningful_on_time, r.meaningful_weight_bps, last, at)
  BY StandingParts
<1> HIDE DEF s, last
<1>4. CASE s.score = 0
  <2>1. s.tier = UNPROVEN
    BY <1>3, <1>4 DEF ComputeTier
  <2>2. nextTier(r, s, at) = {gate("score", s.score, 1)}
    BY <2>1 DEF nextTier, UNPROVEN, GOLD
  <2>3. gate("score", s.score, 1).have < gate("score", s.score, 1).need
    BY <1>4
  <2> QED BY <2>2, <2>3 DEF s
<1>5. CASE s.score # 0
  <2> DEFINE g == tierGates[s.tier + 1]
             score == gate("score", s.score, g.score)
             on_time == gate("meaningfulOnTime", r.meaningful_on_time, g.on_time)
             weight == gate("meaningfulWeightBps", r.meaningful_weight_bps, g.weight)
             block == gate("noLiquidationFor90Days", at, blockedUntil(r, at))
  <2>1. /\ s.tier \in {BRONZE, SILVER}
        /\ s.tier + 1 \notin Passed(s.score, r.meaningful_on_time, r.meaningful_weight_bps, last, at)
    <3>1. s.tier < GOLD
      BY DEF s
    <3> DEFINE n == r.meaningful_on_time
               weighs == r.meaningful_weight_bps
               tier == ComputeTier(s.score, n, weighs, last, at)
    <3>2. /\ tier \in {BRONZE, SILVER, GOLD}
          /\ tier < GOLD => tier + 1 \notin Passed(s.score, n, weighs, last, at)
      BY <1>1, <1>2, <1>5, TierAgrees
    <3> HIDE DEF tier
    <3>3. s.tier = tier
      BY <1>3 DEF tier
    <3> QED BY <3>1, <3>2, <3>3 DEF BRONZE, SILVER, GOLD
  <2>2. nextTier(r, s, at) = {score, on_time, weight, block}
    BY <2>1 DEF nextTier, UNPROVEN, BRONZE, SILVER, GOLD
  <2>3. s.tier + 1 \in {SILVER, GOLD} /\ g.score \in Nat /\ g.on_time \in Nat /\ g.weight \in Nat
    BY <2>1 DEF tierGates, BRONZE, SILVER, GOLD
  <2>4. \/ ~liquidationClean(last, at)
        \/ s.score < g.score \/ r.meaningful_on_time < g.on_time
        \/ r.meaningful_weight_bps < g.weight
    <3> HIDE DEF g
    <3>1. ~(/\ liquidationClean(last, at) /\ s.score >= g.score
            /\ r.meaningful_on_time >= g.on_time /\ r.meaningful_weight_bps >= g.weight)
      BY <2>1, <2>3, Zenon DEF Passed, g
    <3> QED BY <1>1, <1>2, <2>3, <3>1
  <2>5. CASE ~liquidationClean(last, at)
    <3>1. blockedUntil(r, at) = last + LIQUIDATION_COOLDOWN_SECS
      BY <2>5 DEF blockedUntil, last
    <3>2. at < last + LIQUIDATION_COOLDOWN_SECS
      BY <1>1, <2>5, UnitAssumption DEF liquidationClean, LIQUIDATION_COOLDOWN_SECS
    <3>3. block.have < block.need
      BY <3>1, <3>2
    <3> QED BY <2>2, <3>3 DEF s
  <2>6. CASE s.score < g.score
    <3>1. score.have < score.need
      BY <2>6
    <3> QED BY <2>2, <3>1 DEF s
  <2>7. CASE r.meaningful_on_time < g.on_time
    <3>1. on_time.have < on_time.need
      BY <2>7
    <3> QED BY <2>2, <3>1 DEF s
  <2>8. CASE r.meaningful_weight_bps < g.weight
    <3>1. weight.have < weight.need
      BY <2>8
    <3> QED BY <2>2, <3>1 DEF s
  <2> QED BY <2>4, <2>5, <2>6, <2>7, <2>8
<1> QED BY <1>4, <1>5

-----------------------------------------------------------------------------
(* The records on the page *)

LEMMA WeightAgrees ==
  ASSUME NEW principal \in Nat
  PROVE  principalWeightBps(principal) = PrincipalWeightBps(principal)
<1> DEFINE p(i) == weightTable.principal[i] * USDC_UNIT
           w(i) == weightTable.weight[i]
<1>1. /\ weightTable.principal = <<100, 150, 200, 300, 500, 740, 2500, 10000, 50000, 108000>>
      /\ weightTable.weight = <<0, 2026, 3463, 5489, 8041, 10000, 10244, 10522, 10845, 11000>>
  BY DEF weightTable
<1>2. \A i \in 1..10 : p(i) = PrincipalAt(i) /\ w(i) = WeightAt(i)
  <2> SUFFICES ASSUME NEW i \in 1..10
               PROVE  /\ weightTable.principal[i] = WEIGHT_TABLE[i][1]
                      /\ weightTable.weight[i] = WEIGHT_TABLE[i][2]
    BY DEF PrincipalAt, WeightAt
  <2> QED BY <1>1 DEF WEIGHT_TABLE
<1> DEFINE i == CHOOSE k \in 1..9 : principal < p(k + 1) /\ (k = 1 \/ principal >= p(k))
           row == CHOOSE k \in 1..9 : PrincipalAt(k) <= principal
                                      /\ principal < PrincipalAt(k + 1)
<1>3. principalWeightBps(principal)
        = IF principal < p(1) THEN 0 ELSE IF principal >= p(10) THEN w(10)
          ELSE w(i) + ((principal - p(i)) * (w(i + 1) - w(i))) \div (p(i + 1) - p(i))
  BY Zenon DEF principalWeightBps
<1>4. PrincipalWeightBps(principal)
        = IF principal < PrincipalAt(1) THEN 0
          ELSE IF principal >= PrincipalAt(10) THEN WeightAt(10)
          ELSE WeightAt(row) + ((principal - PrincipalAt(row)) * (WeightAt(row + 1) - WeightAt(row)))
                                 \div (PrincipalAt(row + 1) - PrincipalAt(row))
  BY Zenon DEF PrincipalWeightBps, PrincipalAt, WeightAt
<1>5. p(1) = PrincipalAt(1) /\ p(10) = PrincipalAt(10) /\ w(10) = WeightAt(10)
  BY <1>2
<1>6. CASE ~(principal < PrincipalAt(1)) /\ ~(principal >= PrincipalAt(10))
  <2>1. \A k \in 1..9 : k \in 1..10 /\ k + 1 \in 1..10
    OBVIOUS
  <2>2. \A k \in 1..10 : PrincipalAt(k) \in Nat
    BY UnitAssumption DEF PrincipalAt, WEIGHT_TABLE
  <2>3. PrincipalAt(1) <= principal /\ principal < PrincipalAt(10)
    BY <1>6, <2>2
  <2>4. \A k \in 1..9 :
          (principal < p(k + 1) /\ (k = 1 \/ principal >= p(k)))
            <=> (PrincipalAt(k) <= principal /\ principal < PrincipalAt(k + 1))
    BY <1>2, <2>1, <2>2, <2>3
  <2>5. i = row
    <3> HIDE DEF p
    <3> QED BY <2>4, Zenon
  <2>6. row \in 1..9
    BY <2>3, SomeRow DEF InRow
  <2>7. /\ p(row) = PrincipalAt(row) /\ p(row + 1) = PrincipalAt(row + 1)
        /\ w(row) = WeightAt(row) /\ w(row + 1) = WeightAt(row + 1)
    <3> HIDE DEF row, p, w
    <3> QED BY <1>2, <2>1, <2>6
  <2> HIDE DEF p, w, i, row
  <2> QED BY <1>3, <1>4, <1>5, <1>6, <2>5, <2>7
<1> HIDE DEF p, w, i, row
<1> QED BY <1>3, <1>4, <1>5, <1>6

LEMMA ExposureAgrees ==
  ASSUME NEW a \in Attestation
  PROVE  exposureWeightBps(a) = ExposureOf(a) /\ ExposureOf(a) \in Nat
<1>1. a.principal \in Nat /\ a.opened_at \in Nat /\ a.closed_at \in Nat
  BY DEF Attestation
<1>2. meaningfulLoan(a) <=> MeaningfulLoan(a.principal, a.opened_at, a.closed_at, a.outcome)
  BY DEF meaningfulLoan, MeaningfulLoan, MIN_PRINCIPAL_USDC
<1>3. principalWeightBps(a.principal) = PrincipalWeightBps(a.principal)
  BY <1>1, WeightAgrees
<1>4. PrincipalWeightBps(a.principal) \in Nat
  BY <1>1, WeightNat
<1> QED BY <1>2, <1>3, <1>4 DEF exposureWeightBps, ExposureOf, ExposureWeightBps

\* Of some records, one was closed no later than any of them.
LEMMA OldestExists ==
  ASSUME NEW S, S # {}, \A x \in S : x.closed_at \in Nat
  PROVE  \E x \in S : \A y \in S : x.closed_at <= y.closed_at
<1> DEFINE R == OpToRel(<, Nat)
           dates == {x.closed_at : x \in S}
<1>1. IsWellFoundedOn(R, Nat)
  BY NatLessThanWellFounded
<1>2. \A x, y \in Nat : <<x, y>> \in R <=> x < y
  BY DEF OpToRel
<1>3. dates \subseteq Nat /\ dates # {}
  OBVIOUS
<1> HIDE DEF R
<1>4. PICK d \in dates : \A e \in dates : ~(<<e, d>> \in R)
  <2> HIDE DEF dates
  <2> QED BY <1>1, <1>3, WFMin
<1>5. PICK x \in S : x.closed_at = d
  OBVIOUS
<1>6. \A y \in S : ~(y.closed_at < x.closed_at)
  <2> SUFFICES ASSUME NEW y \in S PROVE ~(y.closed_at < x.closed_at)
    OBVIOUS
  <2>1. y.closed_at \in dates /\ x.closed_at \in Nat /\ y.closed_at \in Nat
    OBVIOUS
  <2> HIDE DEF dates
  <2> QED BY <1>2, <1>4, <1>5, <2>1
<1> QED BY <1>5, <1>6

\* Any records can be listed, newest first: repaymentsOf chooses among lists.
LEMMA ListingExists ==
  ASSUME NEW S, IsFiniteSet(S), \A x \in S : x.closed_at \in Nat
  PROVE  \E s \in SetToSeqs(S) : NewestFirst(s)
<1> DEFINE Listed(T) == \E s \in SetToSeqs(T) : NewestFirst(s)
           Good == {n \in Nat : \A T \in SUBSET S : Cardinality(T) = n => Listed(T)}
<1>1. \A T \in SUBSET S : IsFiniteSet(T) /\ Cardinality(T) \in Nat
  BY FS_Subset, FS_CardinalityType
<1>2. 0 \in Good
  <2> SUFFICES ASSUME NEW T \in SUBSET S, Cardinality(T) = 0 PROVE Listed(T)
    OBVIOUS
  <2> DEFINE s == [i \in 1..0 |-> i]
  <2>1. s \in SetToSeqs(T)
    BY DEF SetToSeqs
  <2>2. NewestFirst(s)
    BY DEF NewestFirst
  <2> QED BY <2>1, <2>2
<1>3. ASSUME NEW n \in Nat, n \in Good PROVE n + 1 \in Good
  <2> SUFFICES ASSUME NEW T \in SUBSET S, Cardinality(T) = n + 1 PROVE Listed(T)
    OBVIOUS
  <2>1. T # {}
    BY FS_EmptySet
  <2>2. PICK x \in T : \A y \in T : x.closed_at <= y.closed_at
    BY <2>1, OldestExists
  <2> DEFINE U == T \ {x}
  <2>3. U \in SUBSET S /\ Cardinality(U) = n
    <3>1. IsFiniteSet(T) /\ x \in T
      BY <1>1
    <3>2. Cardinality(T \ {x}) = Cardinality(T) - 1
      BY <3>1, FS_RemoveElement
    <3>3. Cardinality(T) = n + 1 /\ U \in SUBSET S
      OBVIOUS
    <3> QED BY <3>2, <3>3
  <2>4. PICK s \in SetToSeqs(U) : NewestFirst(s)
    BY <1>3, <2>3
  <2>5. /\ s \in [1..n -> U] /\ \A i, j \in 1..n : i # j => s[i] # s[j]
        /\ \A i, j \in 1..n : i < j => s[j].closed_at <= s[i].closed_at
    BY <2>3, <2>4 DEF SetToSeqs, NewestFirst
  <2> DEFINE t == [i \in 1..(n + 1) |-> IF i = n + 1 THEN x ELSE s[i]]
  <2>6. \A i \in 1..(n + 1) : IF i = n + 1 THEN t[i] = x ELSE i \in 1..n /\ t[i] = s[i] /\ s[i] \in U
    BY <2>5
  <2>7. t \in [1..(n + 1) -> T]
    BY <2>6
  <2> HIDE DEF t
  <2>8. \A i, j \in 1..(n + 1) : i # j => t[i] # t[j]
    BY <2>5, <2>6
  <2>9. \A i, j \in 1..(n + 1) : i < j => t[j].closed_at <= t[i].closed_at
    BY <2>2, <2>5, <2>6
  <2>10. t \in SetToSeqs(T)
    BY <2>7, <2>8 DEF SetToSeqs
  <2>11. NewestFirst(t)
    BY <2>7, <2>9 DEF NewestFirst
  <2> QED BY <2>10, <2>11
<1>4. Nat \subseteq Good
  <2> HIDE DEF Good
  <2> QED BY <1>2, <1>3, NaturalInduction
<1>5. Cardinality(S) \in Nat /\ S \in SUBSET S
  BY <1>1
<1>6. Listed(S)
  <2> HIDE DEF Listed
  <2> QED BY <1>4, <1>5
<1> QED BY <1>6

\* A list without repetitions of as many members as the set lists all of it.
LEMMA ListsAll ==
  ASSUME NEW S, IsFiniteSet(S), NEW s \in SetToSeqs(S)
  PROVE  /\ IsFiniteSet(DOMAIN s) /\ s \in [DOMAIN s -> S]
         /\ \A i, j \in DOMAIN s : i # j => s[i] # s[j]
         /\ Range(s) = S
<1> DEFINE D == 1..Cardinality(S)
<1>1. s \in [D -> S] /\ \A i, j \in D : i # j => s[i] # s[j]
  BY DEF SetToSeqs
<1>2. Cardinality(S) \in Nat
  BY FS_CardinalityType
<1>3. IsFiniteSet(D) /\ Cardinality(D) = Cardinality(S)
  BY <1>2, FS_Interval
<1>4. s \in Injection(D, S)
  BY <1>1 DEF Injection, IsInjective
<1> HIDE DEF D
<1>5. s \in Surjection(D, S)
  BY <1>3, <1>4, FS_Injection
<1>6. Range(s) = S
  BY <1>1, <1>5 DEF Range, Surjection
<1> QED BY <1>1, <1>3, <1>6

\* What the pages read of SAS are the records the program wrote.
LEMMA PageRecords ==
  ASSUME IInv, History, NEW w
  PROVE  repaymentsOf(w) \in SetToSeqs(RecordsOf(w)) /\ NewestFirst(repaymentsOf(w))
<1> DEFINE parsed == {parseRepayment(account) : account \in Accounts} \ {Null}
           ours(a) == [schema |-> "repayment", signer |-> "sas-signer", record |-> a]
<1>1. attestations \subseteq Attestation /\ Null \notin attestations
  BY ViewAssumption DEF IInv, TypeOK
<1>2. \A account \in Foreign : parseRepayment(account) = Null
  BY ViewAssumption DEF parseRepayment
<1>3. \A a : parseRepayment(ours(a)) = a
  BY DEF parseRepayment
<1>4. parsed = attestations
  <2>1. Accounts = {ours(a) : a \in attestations} \cup Foreign
    BY DEF Accounts
  <2> HIDE DEF ours
  <2> QED BY <1>1, <1>2, <1>3, <2>1
<1> HIDE DEF parsed
<1>5. repaymentsOf(w) = CHOOSE s \in SetToSeqs(RecordsOf(w)) : NewestFirst(s)
  <2>1. repaymentsOf(w)
          = CHOOSE s \in SetToSeqs({r \in parsed : r.borrower = w}) : NewestFirst(s)
    BY Zenon DEF repaymentsOf, parsed
  <2>2. {r \in parsed : r.borrower = w} = RecordsOf(w)
    BY <1>4 DEF RecordsOf
  <2> QED BY <2>1, <2>2, Zenon
<1>6. \E s \in SetToSeqs(RecordsOf(w)) : NewestFirst(s)
  <2>1. IsFiniteSet(RecordsOf(w)) /\ \A a \in RecordsOf(w) : a.closed_at \in Nat
    BY RecordsFinite DEF Attestation
  <2> QED BY <2>1, ListingExists
<1> QED BY <1>5, <1>6, Zenon

\* What the script adds up of a wallet's records is what their exposure is.
LEMMA ExposureSums ==
  ASSUME IInv, History, NEW w
  PROVE  exposureFromRecords(w)
           = SumFunctionOnSet([a \in RecordsOf(w) |-> ExposureOf(a)], RecordsOf(w))
<1> DEFINE S == RecordsOf(w)
           s == repaymentsOf(w)
           e == [a \in S |-> ExposureOf(a)]
           D == DOMAIN s
<1>1. /\ IsFiniteSet(D) /\ s \in [D -> S]
      /\ \A i, j \in D : i # j => s[i] # s[j]
      /\ Range(s) = S
  BY RecordsFinite, PageRecords, ListsAll
<1>2. \A a \in S : a \in Attestation
  BY RecordsFinite
<1>3. exposureFromRecords(w) = SumFunction([i \in D |-> exposureWeightBps(s[i])])
  BY Zenon DEF exposureFromRecords
<1> HIDE DEF S, s, D
<1>4. \A a \in S : exposureWeightBps(a) = e[a] /\ e[a] \in Int
  BY <1>2, ExposureAgrees
<1>5. [i \in D |-> exposureWeightBps(s[i])] = [i \in D |-> e[s[i]]]
  <2>1. \A i \in D : s[i] \in S
    BY <1>1
  <2> HIDE DEF e
  <2> QED BY <1>4, <2>1
<1> HIDE DEF e
<1> DEFINE f == [i \in D |-> e[s[i]]]
<1>6. SumFunction(f) = SumFunctionOnSet(f, D)
  BY DEF SumFunction
<1>7. SumFunctionOnSet(f, D) = SumFunctionOnSet(e, {s[i] : i \in D})
  BY <1>1, <1>4, SumReindexed
<1>8. {s[i] : i \in D} = S
  BY <1>1 DEF Range, D
<1> QED BY <1>3, <1>5, <1>6, <1>7, <1>8 DEF S, e

\* recomputeExposure finds nothing to lower.
LEMMA NothingToLower ==
  ASSUME IInv, History
  PROVE  recomputeExposure = {}
<1> SUFFICES ASSUME NEW w \in Scored PROVE exposureChange(w).action # "lower"
  BY DEF recomputeExposure
<1> DEFINE records == RecordsOf(w)
           e == [a \in records |-> ExposureOf(a)]
           sum == SumFunctionOnSet(e, records)
           held == reputation[w].exposure_bps
<1>1. held \in Nat
  BY ScoredAccount, AccountFields DEF IInv
<1>2. sum \in Nat
  <2>1. IsFiniteSet(records) /\ \A a \in records : e[a] \in Nat
    BY RecordsFinite, ExposureAgrees
  <2> HIDE DEF records, e
  <2> QED BY <2>1, SumNat
<1>3. held <= sum
  BY DEF History, HistoryAttested, AttestedBy
<1>4. exposureFromRecords(w) = sum
  BY ExposureSums
<1> HIDE DEF sum, held
<1>5. ~(exposureFromRecords(w) < held)
  BY <1>1, <1>2, <1>3, <1>4
<1> QED BY <1>5 DEF exposureChange, held

-----------------------------------------------------------------------------
(* The offer of another lender *)

\* A better tier only lowers the offer, and a liquidation on record adds to it.
LEMMA OfferFalls ==
  ASSUME NEW r \in TrustTrailRecord, NEW tier \in Tiers, r.tier <= tier
  PROVE  LET offer == northwindOffer(r)
             live == northwindOffer([r EXCEPT !.tier = tier])
         IN  /\ offer.apr >= live.apr /\ offer.collateral >= live.collateral
             /\ r.liquidated > 0 =>
                  offer.collateral >= 1000 + NORTHWIND_BASE.collateral[tier + 1]
<1> DEFINE q == [r EXCEPT !.tier = tier]
           apr(k) == NORTHWIND_BASE.apr[k + 1]
           collateral(k) == NORTHWIND_BASE.collateral[k + 1]
           cut == Smaller((r.on_time \div 3) * 50, 150)
           added == Smaller(r.late * 50, 200)
           extra == IF r.liquidated > 0 THEN 1000 ELSE 0
<1>1. /\ r.tier \in 0..3 /\ tier \in 0..3 /\ r.on_time \in Nat /\ r.late \in Nat
      /\ r.liquidated \in Nat
  BY DEF TrustTrailRecord, Tiers, UNPROVEN, BRONZE, SILVER, GOLD
<1>2. /\ q \in TrustTrailRecord /\ q.tier = tier /\ q.on_time = r.on_time
      /\ q.late = r.late /\ q.liquidated = r.liquidated
  BY DEF TrustTrailRecord
<1>3. r # Null /\ q # Null
  BY <1>2, ViewAssumption
<1>4. northwindOffer(r) = [apr |-> Larger(apr(r.tier) - cut + added, 200),
                           collateral |-> collateral(r.tier) + extra]
  BY <1>3, Zenon DEF northwindOffer
<1>5. northwindOffer(q) = [apr |-> Larger(apr(tier) - cut + added, 200),
                           collateral |-> collateral(tier) + extra]
  <2> HIDE DEF q
  <2>1. northwindOffer(q)
          = [apr |-> Larger(apr(q.tier) - Smaller((q.on_time \div 3) * 50, 150)
                              + Smaller(q.late * 50, 200), 200),
             collateral |-> collateral(q.tier) + (IF q.liquidated > 0 THEN 1000 ELSE 0)]
    BY <1>3, Zenon DEF northwindOffer
  <2> HIDE DEF apr, collateral
  <2> QED BY <1>2, <2>1
<1>6. \A k, l \in 0..3 : k <= l =>
        /\ apr(k) \in Nat /\ apr(l) \in Nat /\ apr(k) >= apr(l)
        /\ collateral(k) \in Nat /\ collateral(l) \in Nat /\ collateral(k) >= collateral(l)
  BY DEF NORTHWIND_BASE
<1>7. cut \in Nat /\ added \in Nat /\ extra \in Nat
  BY <1>1 DEF Smaller
<1>8. /\ apr(r.tier) \in Nat /\ apr(tier) \in Nat /\ apr(r.tier) >= apr(tier)
      /\ collateral(r.tier) \in Nat /\ collateral(tier) \in Nat
      /\ collateral(r.tier) >= collateral(tier)
  BY <1>1, <1>6
<1>9. r.liquidated > 0 => extra = 1000
  OBVIOUS
<1> HIDE DEF apr, collateral, cut, added, extra, q
<1>10. Larger(apr(r.tier) - cut + added, 200) >= Larger(apr(tier) - cut + added, 200)
  BY <1>7, <1>8 DEF Larger
<1>11. collateral(r.tier) + extra >= collateral(tier) + extra
  BY <1>7, <1>8
<1>12. r.liquidated > 0 => collateral(r.tier) + extra >= 1000 + collateral(tier)
  BY <1>7, <1>8, <1>9
<1> QED BY <1>4, <1>5, <1>10, <1>11, <1>12 DEF q, collateral

LEMMA OffersAreFloors ==
  ASSUME IInv, History, NEW w \in Scored
  PROVE  OfferIsFloor(w)
<1> DEFINE rep == reputation[w]
           r == readRecord(w)
           tier == Live(w).tier
<1>1. rep \in UserReputationV2 /\ rep # NoAccount
  BY ScoredAccount DEF IInv, Scored
<1>2. r = [score |-> rep.score, tier |-> rep.tier, on_time |-> rep.loans_repaid_on_time,
           late |-> rep.late_repaid_loans, liquidated |-> rep.liquidated_loans]
  BY <1>1, Zenon DEF readRecord
<1>3. r \in TrustTrailRecord /\ r.tier = rep.tier /\ r.liquidated = rep.liquidated_loans
  <2>1. rep.tier \in Tiers
    BY <1>1 DEF UserReputationV2
  <2> HIDE DEF rep, r
  <2> QED BY <1>1, <1>2, <2>1, AccountFields DEF TrustTrailRecord
<1>4. tier \in Tiers
  <2>1. now \in Nat /\ now <= now
    BY DEF IInv, TypeOK
  <2> QED BY <1>1, <2>1, StandingRises DEF Live
<1>5. r.tier <= tier
  BY <1>3 DEF IInv, CacheIsFloor
<1>6. BadRecordsOf(w) # {} => r.liquidated > 0
  <2> DEFINE bad == BadRecordsOf(w)
             n == Cardinality(bad)
  <2>1. rep.liquidated_loans = Smaller(n, MAX_U16)
    <3>1. AttestedBy(rep, RecordsOf(w))
      BY DEF History, HistoryAttested
    <3>2. WithOutcome({LIQUIDATED, DEFAULTED}, RecordsOf(w)) = bad
      BY DEF WithOutcome, BadRecordsOf
    <3> QED BY <3>1, <3>2 DEF AttestedBy
  <2>2. IsFiniteSet(bad)
    BY RecordsFinite, FS_Subset DEF BadRecordsOf
  <2>3. n \in Nat /\ (bad # {} => n # 0)
    BY <2>2, FS_CardinalityType, FS_EmptySet
  <2> HIDE DEF bad, n
  <2>4. MAX_U16 \in Nat \ {0}
    BY TrustTrailAssumption
  <2>5. bad # {} => Smaller(n, MAX_U16) > 0
    BY <2>3, <2>4 DEF Smaller
  <2> QED BY <1>3, <2>1, <2>5 DEF bad
<1> HIDE DEF rep, r, tier
<1>7. LET offer == northwindOffer(r)
          live == northwindOffer([r EXCEPT !.tier = tier])
      IN  /\ offer.apr >= live.apr /\ offer.collateral >= live.collateral
          /\ r.liquidated > 0 =>
               offer.collateral >= 1000 + NORTHWIND_BASE.collateral[tier + 1]
  BY <1>3, <1>4, <1>5, OfferFalls
<1> QED BY <1>6, <1>7, ZenonT(40) DEF OfferIsFloor, r, tier

-----------------------------------------------------------------------------
(* The page of a wallet *)

\* A wallet with an account is shown its standing, one without is shown zeros.
LEMMA PageStanding ==
  ASSUME IInv, NEW w \in Wallets
  PROVE  LET view == getScore(w)
         IN  /\ view.exists <=> w \in Scored
             /\ view.standing = IF w \in Scored THEN Live(w)
                                ELSE [native |-> 0, score |-> 0, tier |-> UNPROVEN]
             /\ view.standing.tier < GOLD =>
                  \E g \in view.factors.next_tier : g.have < g.need
<1> DEFINE view == getScore(w)
           rep == stored(w)
           s == standing(rep, now)
<1>1. now \in Nat
  BY DEF IInv, TypeOK
<1>2. /\ view.exists <=> fetchReputation(w) # Null
      /\ view.standing = s /\ view.factors.next_tier = nextTier(rep, s, now)
  BY DEF getScore, factors
<1>3. CASE w \in Scored
  <2>1. reputation[w] \in UserReputationV2 /\ reputation[w] # NoAccount
    BY <1>3, ScoredAccount DEF IInv, Scored
  <2>2. fetchReputation(w) = reputation[w] /\ fetchReputation(w) # Null /\ rep = reputation[w]
    BY <2>1, ViewAssumption DEF fetchReputation, stored
  <2>3. s = Live(w)
    BY <1>1, <2>1, <2>2, StandingAgrees DEF Live
  <2>4. s.tier < GOLD => \E g \in nextTier(rep, s, now) : g.have < g.need
    <3>1. s = Standing(rep, now) /\ rep \in UserReputationV2
      BY <2>1, <2>2, <2>3 DEF Live
    <3> HIDE DEF rep, s
    <3> QED BY <1>1, <3>1, GateNamed
  <2> HIDE DEF view, s, rep
  <2> QED BY <1>2, <1>3, <2>2, <2>3, <2>4 DEF view
<1>4. CASE w \notin Scored
  <2>1. fetchReputation(w) = Null /\ rep = emptyReputation
    BY <1>4 DEF fetchReputation, stored, Scored
  <2>2. s = [native |-> 0, score |-> 0, tier |-> UNPROVEN]
    BY <1>1, <2>1, EmptyStanding
  <2>3. \E g \in nextTier(rep, s, now) : g.have < g.need
    <3> DEFINE first == [gate |-> "score", have |-> 0, need |-> 1]
    <3>1. s.tier = UNPROVEN /\ s.score = 0
      BY <2>2
    <3> HIDE DEF s, rep
    <3>2. nextTier(rep, s, now) = {first}
      BY <3>1 DEF nextTier, UNPROVEN, GOLD
    <3>3. first.have < first.need
      OBVIOUS
    <3> QED BY <3>2, <3>3
  <2> HIDE DEF view, s, rep
  <2> QED BY <1>2, <1>4, <2>1, <2>2, <2>3 DEF view
<1> QED BY <1>3, <1>4

\* The page lists the wallet's records, and dates its next import.
LEMMA PageRest ==
  ASSUME IInv, History, NEW w \in Wallets
  PROVE  LET view == getScore(w)
             taken == reputation[w].import_date = 0
                      \/ now - reputation[w].import_date >= IMPORT_COOLDOWN_SECS
         IN  /\ Range(view.attestations) = RecordsOf(w)
             /\ NewestFirst(view.attestations)
             /\ w \in Scored => (taken <=> view.next_import_at = Null \/ now >= view.next_import_at)
<1> DEFINE view == getScore(w)
           listed == repaymentsOf(w)
           C == IMPORT_COOLDOWN_SECS
<1>1. view.attestations = listed
  BY DEF getScore
<1>2. Range(listed) = RecordsOf(w) /\ NewestFirst(listed)
  BY RecordsFinite, PageRecords, ListsAll
<1>3. ASSUME w \in Scored
      PROVE  (reputation[w].import_date = 0 \/ now - reputation[w].import_date >= C)
               <=> (view.next_import_at = Null \/ now >= view.next_import_at)
  <2> DEFINE date == reputation[w].import_date
  <2>1. reputation[w] \in UserReputationV2 /\ reputation[w] # NoAccount
    BY <1>3, ScoredAccount DEF IInv, Scored
  <2>2. stored(w) = reputation[w]
    BY <2>1, ViewAssumption DEF fetchReputation, stored
  <2>3. view.next_import_at = IF date = 0 THEN Null ELSE date + C
    BY <2>2 DEF getScore
  <2>4. date \in Nat /\ now \in Nat
    BY <2>1 DEF UserReputationV2, IInv, TypeOK
  <2>5. C \in Nat /\ Null \notin Nat
    BY UnitAssumption, ViewAssumption DEF IMPORT_COOLDOWN_SECS
  <2> HIDE DEF date, C, view
  <2>6. CASE date = 0
    BY <2>3, <2>6 DEF date
  <2>7. CASE date # 0
    <3>1. date + C # Null /\ (now - date >= C <=> now >= date + C)
      BY <2>4, <2>5
    <3> QED BY <2>3, <2>7, <3>1 DEF date
  <2> QED BY <2>6, <2>7
<1> HIDE DEF view, listed, C
<1> QED BY <1>1, <1>2, <1>3 DEF view, C

-----------------------------------------------------------------------------
(* An import of the records the program holds *)

\* Penalties that are close give native scores that are.
LEMMA NativeFollows ==
  ASSUME NEW plus \in Nat, NEW m \in Nat, NEW n \in Nat, NEW d \in Nat, m <= n + d, n <= m + d
  PROVE  LET a == NativeComponent(plus, m)
             b == NativeComponent(plus, n)
             e == 1 + (d * SCORE_MAX) \div FULL_WEIGHT_BPS
         IN  a - b \in -e..e
<1> DEFINE good == Smaller(plus, FULL_WEIGHT_BPS)
           x == SatSub(good, m)
           y == SatSub(good, n)
           a == NativeComponent(plus, m)
           b == NativeComponent(plus, n)
           q == (d * SCORE_MAX) \div FULL_WEIGHT_BPS
<1>1. /\ x \in Nat /\ a \in Nat /\ 80 * a <= x /\ x <= 80 * a + 79
      /\ y \in Nat /\ b \in Nat /\ 80 * b <= y /\ y <= 80 * b + 79
  <2>1. x \in Nat /\ a \in Nat /\ 80 * a <= x /\ x <= 80 * a + 79
    BY NativeBounds
  <2>2. y \in Nat /\ b \in Nat /\ 80 * b <= y /\ y <= 80 * b + 79
    BY NativeBounds
  <2> QED BY <2>1, <2>2
<1>2. x <= y + d /\ y <= x + d
  <2>1. good \in Nat
    BY SMT DEF Smaller, FULL_WEIGHT_BPS
  <2> HIDE DEF good
  <2> QED BY <2>1 DEF SatSub
<1> HIDE DEF x, y, a, b
<1> DEFINE g == d * SCORE_MAX
           c == FULL_WEIGHT_BPS
           i == a - b - 1
           j == b - a - 1
<1>3. g \in Nat /\ c \in Nat \ {0} /\ i \in Int /\ j \in Int /\ i * c <= g /\ j * c <= g
  BY <1>1, <1>2, SMT DEF SCORE_MAX, FULL_WEIGHT_BPS
<1> HIDE DEF g, c, i, j
<1>4. i <= g \div c /\ j <= g \div c /\ g \div c \in Nat
  BY <1>3, DivLargest, DivBounds
<1>5. q = g \div c
  BY DEF g, c
<1> HIDE DEF q
<1>6. a - b \in -(1 + q)..(1 + q)
  BY <1>1, <1>4, <1>5 DEF i, j
<1> QED BY <1>6 DEF a, b, q

\* What importSummary computes of records, in the program's own terms.
LEMMA SummaryAgrees ==
  ASSUME NEW S, IsFiniteSet(S), S \subseteq Attestation, NEW at \in Nat
  PROVE  LET plus == SumFunctionOnSet([a \in S |-> PlusOf(a)], S)
         IN  /\ plus \in Nat
             /\ importSummary(S, at) =
                  [score |-> NativeComponent(plus, FadedPenalty(S, at)),
                   on_time |-> Cardinality(Counted(S)), weight |-> CountedWeight(S)]
<1> DEFINE f == [a \in S |-> PlusOf(a)]
           plus == SumFunctionOnSet(f, S)
<1>1. ASSUME NEW a \in S
      PROVE  /\ PlusOf(a) \in Nat /\ MinusOf(a) \in Nat /\ a.closed_at \in Nat
             /\ loanContributionBps(a) = [plus |-> PlusOf(a), minus |-> MinusOf(a)]
             /\ principalWeightBps(a.principal) = PrincipalWeightBps(a.principal)
             /\ meaningfulLoan(a) <=>
                  MeaningfulLoan(a.principal, a.opened_at, a.closed_at, a.outcome)
  <2>1. a.principal \in Nat /\ a.opened_at \in Nat /\ a.closed_at \in Nat /\ a.outcome \in Outcomes
    BY DEF Attestation
  <2>2. PlusOf(a) \in Nat /\ MinusOf(a) \in Nat
    BY <2>1, ContributionsNat DEF PlusOf, MinusOf
  <2>3. principalWeightBps(a.principal) = PrincipalWeightBps(a.principal)
    BY <2>1, WeightAgrees
  <2>4. meaningfulLoan(a) <=> MeaningfulLoan(a.principal, a.opened_at, a.closed_at, a.outcome)
    BY DEF meaningfulLoan, MeaningfulLoan, MIN_PRINCIPAL_USDC
  <2>5. durationBps(a.opened_at, a.closed_at) = DurationBps(a.opened_at, a.closed_at)
    <3>1. Larger(a.closed_at - a.opened_at, 0) = SatSub(a.closed_at, a.opened_at)
      BY <2>1 DEF Larger, SatSub
    <3> QED BY <3>1, Zenon DEF durationBps, DurationBps
  <2>6. dueDateFactorBps(a.due_at) = DueDateFactorBps(a.due_at)
    BY SMT DEF dueDateFactorBps, DueDateFactorBps
  <2>7. loanContributionBps(a) = [plus |-> PlusOf(a), minus |-> MinusOf(a)]
    <3> DEFINE w == PrincipalWeightBps(a.principal)
               d == DurationBps(a.opened_at, a.closed_at)
               held == (w * d) \div BPS
               e == DueDateFactorBps(a.due_at)
    <3>1. CASE a.outcome = ON_TIME
      <4>1. PlusOf(a) = (((held * 10000) \div BPS) * e) \div BPS /\ MinusOf(a) = 0
        <5> HIDE DEF w, e
        <5> QED BY <3>1, SMT
              DEF PlusOf, MinusOf, PlusBps, MinusBps, ON_TIME, LATE, LIQUIDATED, DEFAULTED, w, e
      <4>2. loanContributionBps(a) = [plus |-> (((held * 10000) \div BPS) * e) \div BPS, minus |-> 0]
        <5> HIDE DEF w, d, e
        <5> QED BY <2>3, <2>5, <2>6, <3>1, SMT
              DEF loanContributionBps, ON_TIME, LATE, LIQUIDATED, DEFAULTED, w, d, e
      <4> QED BY <4>1, <4>2
    <3>2. CASE a.outcome = LATE
      <4>1. PlusOf(a) = (((held * 5000) \div BPS) * e) \div BPS /\ MinusOf(a) = 0
        <5> HIDE DEF w, e
        <5> QED BY <3>2, SMT
              DEF PlusOf, MinusOf, PlusBps, MinusBps, ON_TIME, LATE, LIQUIDATED, DEFAULTED, w, e
      <4>2. loanContributionBps(a) = [plus |-> (((held * 5000) \div BPS) * e) \div BPS, minus |-> 0]
        <5> HIDE DEF w, d, e
        <5> QED BY <2>3, <2>5, <2>6, <3>2, SMT
              DEF loanContributionBps, ON_TIME, LATE, LIQUIDATED, DEFAULTED, w, d, e
      <4> QED BY <4>1, <4>2
    <3>3. CASE a.outcome = LIQUIDATED
      <4> HIDE DEF w
      <4> QED BY <2>3, <3>3, SMT DEF loanContributionBps, PlusOf, MinusOf, PlusBps, MinusBps,
                 ON_TIME, LATE, LIQUIDATED, DEFAULTED
    <3>4. CASE a.outcome = DEFAULTED
      <4> QED BY <2>3, <3>4, SMT DEF loanContributionBps, PlusOf, MinusOf, PlusBps, MinusBps,
                 ON_TIME, LATE, LIQUIDATED, DEFAULTED
    <3> QED BY <2>1, <3>1, <3>2, <3>3, <3>4, SMT
          DEF Outcomes, ON_TIME, LATE, LIQUIDATED, DEFAULTED
  <2> QED BY <2>1, <2>2, <2>3, <2>4, <2>7
<1>2. plus \in Nat
  <2>1. \A a \in S : f[a] \in Nat
    BY <1>1
  <2> HIDE DEF f
  <2> QED BY <2>1, SumNat
<1>3. [l \in S |-> loanContributionBps(l).plus] = f
  BY <1>1
<1>4. [l \in S |-> decayBps(loanContributionBps(l).minus, l.closed_at, at)]
        = [a \in S |-> DecayBps(MinusOf(a), a.closed_at, at)]
  BY <1>1, DecayAgrees
<1>5. {l \in S : l.outcome = ON_TIME /\ meaningfulLoan(l)} = Counted(S)
  BY <1>1 DEF Counted
<1>6. [l \in S |-> principalWeightBps(l.principal)] = [a \in S |-> PrincipalWeightBps(a.principal)]
  BY <1>1
<1> DEFINE minus == FadedPenalty(S, at)
<1>7. minus \in Nat
  BY PenaltySums
<1>8. importSummary(S, at) = [score |-> nativeComponent(plus, minus),
                             on_time |-> Cardinality(Counted(S)), weight |-> CountedWeight(S)]
  BY <1>3, <1>4, <1>5, <1>6, Zenon DEF importSummary, FadedPenalty, CountedWeight
<1>9. nativeComponent(plus, minus) = NativeComponent(plus, minus)
  <2> HIDE DEF plus, minus
  <2> QED BY <1>2, <1>7, NativeAgrees
<1> QED BY <1>2, <1>8, <1>9


-----------------------------------------------------------------------------
(* The theorems *)

\* Accounts, counters and records keep their ranges: the sums saturate, the
\* scores stay within 0..1000 and the whitelist within its size.
THEOREM TypeCorrect == Spec => []TypeOK
<1>1. IInv => TypeOK
  BY DEF IInv
<1> QED BY <1>1, Inductive, PTL

\* The cached score and tier, which other programs read, are never above what
\* standing() gives at this moment.
THEOREM CacheNeverFlatters == Spec => []CacheIsFloor
<1>1. IInv => CacheIsFloor
  BY DEF IInv
<1> QED BY <1>1, Inductive, PTL

\* No wallet stands at Silver or Gold within 90 days of a liquidation or a
\* default on record.
THEOREM CooldownKept == Spec => []CooldownHolds
<1>1. IInv => CooldownHolds
  <2> SUFFICES ASSUME IInv, NEW w \in Scored, Live(w).tier >= SILVER, NEW a \in BadRecordsOf(w)
               PROVE  now - a.closed_at >= LIQUIDATION_COOLDOWN_SECS
    BY DEF CooldownHolds
  <2> DEFINE r == reputation[w]
             date == r.last_liquidation_date
  <2>1. r \in UserReputationV2
    BY ScoredAccount DEF IInv
  <2>2. a \in attestations /\ a.borrower = w /\ a.outcome \in {LIQUIDATED, DEFAULTED}
    BY DEF BadRecordsOf, RecordsOf
  <2>3. /\ date \in Nat /\ a.closed_at \in Nat /\ now \in Nat
        /\ a.closed_at # 0 /\ a.closed_at <= date
    <3>1. a.closed_at \in Nat /\ now \in Nat
      BY <2>2 DEF IInv, TypeOK, Attestation
    <3>2. a.closed_at # 0 /\ a.closed_at <= date
      BY <2>2 DEF IInv, DatesKept
    <3> QED BY <2>1, <3>1, <3>2, AccountFields
  <2>4. date = 0 \/ now - date >= LIQUIDATION_COOLDOWN_SECS
    <3> DEFINE score == Live(w).score
    <3>1. Live(w).tier = ComputeTier(score, r.meaningful_on_time, r.meaningful_weight_bps, date, now)
      BY DEF Live, Standing
    <3> HIDE DEF score, date, r
    <3>2. ComputeTier(score, r.meaningful_on_time, r.meaningful_weight_bps, date, now) >= SILVER
      BY <3>1
    <3> QED BY <3>2, TierIsClean
  <2> DEFINE C == LIQUIDATION_COOLDOWN_SECS
             closed == a.closed_at
  <2>5. C \in Nat
    BY Units
  <2>6. now - closed >= C
    <3>1. closed \in Nat /\ closed # 0 /\ closed <= date /\ date \in Nat /\ now \in Nat
      BY <2>3
    <3> HIDE DEF C, closed, date
    <3>2. date # 0
      BY <3>1
    <3>3. now - date >= C
      BY <2>4, <3>2 DEF C, date
    <3> QED BY <2>5, <3>1, <3>3
  <2> QED BY <2>6
<1> QED BY <1>1, Inductive, PTL

\* The account can be rebuilt from the wallet's attestations, whatever was
\* recorded, imported and corrected in between, and however many records there
\* are: it saturates where their sums pass the counters.
THEOREM HistoryIsAttested == Spec => []HistoryAttested
<1>1. Init => History
  BY FS_EmptySet DEF Init, History, HistoryAttested, Scored
<1>2. History => HistoryAttested
  BY DEF History
<1> QED BY <1>1, <1>2, StepHistory, Inductive, PTL DEF Spec

\* Repaying on time never costs a wallet live score or tier, unless its imported
\* score is above its native one.
THEOREM OnTimeNeverHurts == Spec => OnTimeHelps
<1> DEFINE AllHelped == \A w \in Scored : Helped(w)
<1>1. IInv /\ [Next]_vars => [AllHelped]_vars
  BY StepHelpsHurts
<1> HIDE DEF AllHelped
<1>2. Spec => [][AllHelped]_vars
  BY <1>1, Inductive, PTL DEF Spec
<1> QED BY <1>2, Zenon DEF OnTimeHelps, AllHelped, Helped

\* A bad outcome never earns a wallet score or tier, but for the point that
\* rounding can give when it hides the whole penalty.
THEOREM BadOutcomeNeverPays == Spec => BadOutcomeHurts
<1> DEFINE AllHurt == \A w \in Scored : Hurt(w)
<1>1. IInv /\ [Next]_vars => [AllHurt]_vars
  BY StepHelpsHurts
<1> HIDE DEF AllHurt
<1>2. Spec => [][AllHurt]_vars
  BY <1>1, Inductive, PTL DEF Spec
<1> QED BY <1>2, Zenon DEF BadOutcomeHurts, AllHurt, Hurt

\* The score page shows the standing the pool lends on, the wallet's records and
\* its next import; the exposure script lowers nothing; and the lender that reads
\* the cached account offers no more than the standing is worth.
THEOREM ViewIsTrue == Spec => []ViewIsStanding
<1>1. Init => History
  BY FS_EmptySet DEF Init, History, HistoryAttested, Scored
<1>2. IInv /\ History => ViewIsStanding
  <2> SUFFICES ASSUME IInv, History PROVE ViewIsStanding
    OBVIOUS
  <2>1. recomputeExposure = {}
    BY NothingToLower
  <2>2. \A w \in Scored : OfferIsFloor(w)
    BY OffersAreFloors
  <2> QED BY <2>1, <2>2, PageStanding, PageRest, Zenon DEF ViewIsStanding
<1> QED BY <1>1, <1>2, StepHistory, Inductive, PTL DEF Spec

\* The penalty total, re-decayed at every record, costs what the records' own
\* penalties do, within the rounding of a decay per record.
THEOREM PenaltyKeepsPath == Spec => []PenaltyPathIndependent
<1>1. Init => History /\ SumsKept
  BY FS_EmptySet DEF Init, History, HistoryAttested, SumsKept, Scored
<1>2. IInv /\ History /\ SumsKept => PenaltyPathIndependent
  <2> SUFFICES ASSUME IInv, History, SumsKept, NEW w \in Scored
               PROVE  LET live == DecayBps(reputation[w].s_minus_bps, reputation[w].s_minus_at, now)
                          once == FadedPenalty(RecordsOf(w), now)
                          slack == PenaltySlack(RecordsOf(w))
                      IN  FullPenalty(RecordsOf(w)) <= MAX_U64 => live - once \in -slack..slack
    BY DEF PenaltyPathIndependent
  <2> DEFINE S == RecordsOf(w)
             r == reputation[w]
             live == DecayBps(r.s_minus_bps, r.s_minus_at, now)
             once == FadedPenalty(S, now)
             slack == PenaltySlack(S)
  <2> SUFFICES ASSUME FullPenalty(S) <= MAX_U64 PROVE live - once \in -slack..slack
    OBVIOUS
  <2>1. now \in Nat /\ r \in UserReputationV2 /\ IsFiniteSet(S) /\ S \subseteq Attestation
    BY ScoredAccount, RecordsFinite DEF IInv, TypeOK
  <2>2. live \in Nat /\ once \in Nat /\ slack \in Nat
    <3> HIDE DEF r, S
    <3> QED BY <2>1, AccountFields, DecayNat, PenaltySums
  <2>3. live <= once + slack /\ once <= live + slack
    <3>1. now <= now
      BY <2>1
    <3> QED BY <2>1, <3>1 DEF SumsKept, PenaltyHeld, Follows
  <2> HIDE DEF live, once, slack
  <2> QED BY <2>2, <2>3
<1> QED BY <1>1, <1>2, StepHistory, StepKeepsSums, Inductive, PTL DEF Spec

\* An import of a history is worth what the same loans recorded natively are,
\* within the rounding of their penalties; and counts the same good loans.
THEOREM SummaryIsNative == Spec => []SummaryMatchesNative
<1>1. Init => History /\ SumsKept
  BY FS_EmptySet DEF Init, History, HistoryAttested, SumsKept, Scored
<1>2. IInv /\ History /\ SumsKept => SummaryMatchesNative
  <2> SUFFICES ASSUME IInv, History, SumsKept, NEW w \in Scored
               PROVE  LET loans == RecordsOf(w)
                          summary == importSummary(loans, now)
                          slack == 1 + (PenaltySlack(loans) * SCORE_MAX) \div FULL_WEIGHT_BPS
                      IN  /\ FullPenalty(loans) <= MAX_U64 =>
                               summary.score - Live(w).native \in -slack..slack
                          /\ reputation[w].import_date = 0 =>
                               /\ reputation[w].meaningful_on_time = Smaller(summary.on_time, MAX_U16)
                               /\ reputation[w].meaningful_weight_bps = Smaller(summary.weight, MAX_U64)
    BY Zenon DEF SummaryMatchesNative
  <2> DEFINE S == RecordsOf(w)
             r == reputation[w]
             summary == importSummary(S, now)
             plus == SumFunctionOnSet([a \in S |-> PlusOf(a)], S)
             live == DecayBps(r.s_minus_bps, r.s_minus_at, now)
             once == FadedPenalty(S, now)
             d == PenaltySlack(S)
             slack == 1 + (d * SCORE_MAX) \div FULL_WEIGHT_BPS
  <2>1. now \in Nat /\ r \in UserReputationV2 /\ IsFiniteSet(S) /\ S \subseteq Attestation
    BY ScoredAccount, RecordsFinite DEF IInv, TypeOK
  <2>2. plus \in Nat /\ summary = [score |-> NativeComponent(plus, once),
                                   on_time |-> Cardinality(Counted(S)), weight |-> CountedWeight(S)]
    <3> HIDE DEF S
    <3> QED BY <2>1, SummaryAgrees
  <2>3. PenaltyHeld(r, S, now) /\ GatesHeld(r, S)
    BY DEF SumsKept
  <2>4. live \in Nat /\ once \in Nat /\ d \in Nat
    <3> HIDE DEF r, S
    <3> QED BY <2>1, AccountFields, DecayNat, PenaltySums
  <2>5. Live(w).native = NativeComponent(plus, live)
    <3>1. r.s_plus_bps = Smaller(plus, MAX_U64)
      BY DEF History, HistoryAttested, AttestedBy
    <3>2. Live(w).native = NativeComponent(r.s_plus_bps, live)
      BY <2>1, StandingParts DEF Live
    <3>3. Smaller(Smaller(plus, MAX_U64), FULL_WEIGHT_BPS) = Smaller(plus, FULL_WEIGHT_BPS)
      <4> HIDE DEF plus
      <4> QED BY <2>2, TrustTrailAssumption, SMT DEF Smaller, FULL_WEIGHT_BPS
    <3> HIDE DEF live, plus, r
    <3> QED BY <3>1, <3>2, <3>3 DEF NativeComponent
  <2>6. ASSUME FullPenalty(S) <= MAX_U64 PROVE summary.score - Live(w).native \in -slack..slack
    <3>1. live <= once + d /\ once <= live + d
      <4>1. now <= now
        BY <2>1
      <4> QED BY <2>1, <2>3, <2>6, <4>1 DEF PenaltyHeld, Follows
    <3>2. summary.score = NativeComponent(plus, once)
      <4> HIDE DEF summary
      <4> QED BY <2>2
    <3> HIDE DEF live, once, d, plus
    <3>3. NativeComponent(plus, once) - NativeComponent(plus, live) \in -slack..slack
      BY <2>2, <2>4, <3>1, NativeFollows
    <3> QED BY <2>5, <3>2, <3>3
  <2>7. summary.on_time = Cardinality(Counted(S)) /\ summary.weight = CountedWeight(S)
    <3> HIDE DEF summary
    <3> QED BY <2>2
  <2> HIDE DEF summary, S, slack
  <2> QED BY <2>3, <2>6, <2>7 DEF GatesHeld, S, r, summary, slack, d
<1> QED BY <1>1, <1>2, StepHistory, StepKeepsSums, Inductive, PTL DEF Spec
=============================================================================

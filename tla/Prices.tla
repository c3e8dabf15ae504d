------------------------------- MODULE Prices -------------------------------
(*****************************************************************************)
(* The USD price of each loan at its peak (backend/src/history/prices.ts),   *)
(* for the one token of the model.  "market" is what the sources have of it: *)
(* [listed, trades, quotes], whether Binance trades it, the times of its     *)
(* Binance trades and those of its Birdeye prices; a source that fails has   *)
(* none.  The price itself is what was found at [at, source].                *)
(*****************************************************************************)
EXTENDS Integers, Sequences, SequencesExt, FiniteSetsExt

CONSTANTS
  NoPrice,
  MAX_BINANCE_GAP_SECS,
  PRICE_CACHE_SECS

ASSUME PriceAssumption ==
  /\ MAX_BINANCE_GAP_SECS \in Nat /\ PRICE_CACHE_SECS \in Nat \ {0}
  /\ NoPrice \notin [at : Nat, source : {"binance", "birdeye"}]

Gap(p, at) == IF p.at >= at THEN p.at - at ELSE at - p.at

\* The first trade at or after a time.
BinanceTrade(trades, at) ==
  LET later == {t \in trades : t >= at}
  IN  IF later = {} THEN NoPrice ELSE [at |-> Min(later), source |-> "binance"]
\* The nearest price.
BirdeyeSource(quotes, at) ==
  LET points == {[at |-> t, source |-> "birdeye"] : t \in quotes}
  IN  IF points = {} THEN NoPrice
      ELSE CHOOSE p \in points : \A q \in points : Gap(p, at) <= Gap(q, at)
LiveSources(market, at) ==
  [binance |-> IF market.listed THEN BinanceTrade(market.trades, at) ELSE NoPrice,
   birdeye |-> BirdeyeSource(market.quotes, at)]

\* Mutant: Birdeye is only asked when Binance has nothing.
PriceAtBinanceFirst(market, at) ==
  LET s == LiveSources(market, at) IN IF s.binance # NoPrice THEN s.binance ELSE s.birdeye
\* Binance within a day of the peak, else the nearer of the two; Binance on a tie.
PriceAt(market, at) ==
  LET binance == LiveSources(market, at).binance
      birdeye == LiveSources(market, at).birdeye
  IN  IF binance # NoPrice /\ Gap(binance, at) <= MAX_BINANCE_GAP_SECS THEN binance
      ELSE IF birdeye = NoPrice THEN binance
      ELSE IF binance = NoPrice \/ Gap(birdeye, at) < Gap(binance, at) THEN birdeye
      ELSE binance

\* Loans whose peaks fall in the same minute share the first one's lookup, a
\* lookup that found nothing included.
SharedPeak(loans, i) ==
  LET minute(j) == loans[j].peakAt \div PRICE_CACHE_SECS
      first == CHOOSE j \in 1..i : minute(j) = minute(i) /\ \A k \in 1..(j - 1) : minute(k) # minute(i)
  IN  loans[first].peakAt
PriceOf(market, loans, i) == PriceAt(market, SharedPeak(loans, i))

PricedLoan(l, p) == [loan |-> l, priceSource |-> p.source, priceAt |-> p.at,
                     priceGapSecs |-> Gap(p, l.peakAt)]

\* Loans without a price are dropped, liquidations too.
PriceLoans(loans, market) ==
  LET found == [i \in DOMAIN loans |-> PriceOf(market, loans, i)]
      which(ok(_)) == SelectSeq([i \in DOMAIN loans |-> i], LAMBDA i : ok(found[i]))
      priced == which(LAMBDA p : p # NoPrice)
      dropped == which(LAMBDA p : p = NoPrice)
  IN  [priced |-> [k \in DOMAIN priced |-> PricedLoan(loans[priced[k]], found[priced[k]])],
       dropped |-> [k \in DOMAIN dropped |-> loans[dropped[k]]]]

-----------------------------------------------------------------------------
(* Properties *)

\* A priced loan's price is no further from its peak than another of its mint, but
\* for the day Binance is trusted for and the minutes of the cache.
AsNear(p, q) ==
  LET best == Gap(q, p.loan.peakAt)
      allowed == IF best < MAX_BINANCE_GAP_SECS THEN MAX_BINANCE_GAP_SECS ELSE best
  IN  p.priceGapSecs <= allowed + 2 * (PRICE_CACHE_SECS - 1)
=============================================================================

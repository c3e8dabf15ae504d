------------------------------ MODULE History ------------------------------
(*****************************************************************************)
(* A wallet borrows on an outside lending protocol, and the backend reads    *)
(* its history back (backend/src/history/adapters/index.ts), shows it as a   *)
(* preview (preview.ts) and plans imports from it (importPlan.ts).  The      *)
(* protocol is external: a position's debt, the interest it bears and its    *)
(* liquidation by others.  "cycles" is the abstract specification of the     *)
(* reader: the borrow cycles that closed, noted as they happen.              *)
(*****************************************************************************)
EXTENDS Adapters, Prices

CONSTANTS
  Protocols,
  Amounts,     \* borrowed, repaid and liquidated amounts
  Indexes,     \* Loopscale duration indexes
  NoCycle,
  Steps,       \* how far apart two transactions are
  INTEREST_SECS,  \* a debt grows by one unit in that time
  MaxTxs,      \* bound on the transactions on the position
  Markets      \* what the price sources may have of the token

VARIABLES
  protocol,    \* the one the wallet uses
  txs,         \* every transaction on its position, in execution order
  position,    \* the position on chain: [debt, charged, liquidated, cycle]
  cycles,      \* the cycles that closed
  reads        \* what the backend reads right after each transaction

vars == <<protocol, txs, position, cycles, reads>>

P == "position"
Mint == "mint"
now == IF txs = <<>> THEN 0 ELSE Last(txs).at

-----------------------------------------------------------------------------
(* The protocol (external): the effect of one instruction                    *)

\* What an instruction is meant to do; REPAY_ALL repays the whole debt.
Ix(op, amount, moved, index) ==
  [op |-> op, position |-> P, mint |-> Mint, amount |-> amount, all |-> FALSE,
   moved |-> moved, index |-> index]

\* How the protocol in use says it.
Encoded(ix) ==
  CASE protocol = "jupiter_lend" /\ ix.op \in {"borrow", "repay"} ->
         [ix EXCEPT !.op = "operate",
                    !.amount = IF ix.op = "borrow" THEN ix.amount
                               ELSE IF ix.amount = REPAY_ALL THEN MIN_I128 ELSE -ix.amount]
    [] protocol \in {"marginfi", "loopscale"} /\ ix.amount = REPAY_ALL ->
         [ix EXCEPT !.amount = 0, !.all = TRUE]
    [] OTHER -> ix
\* The wallet calls the protocol, others through a program of their own.
Top(ixs, signed) ==
  IF signed THEN [i \in DOMAIN ixs |-> [ix |-> Encoded(ixs[i]), inner |-> <<>>]]
  ELSE <<[ix |-> [Ix("call", 0, 0, 0) EXCEPT !.position = Null, !.mint = Null],
          inner |-> [i \in DOMAIN ixs |-> Encoded(ixs[i])]]>>

DueOfTerm(at, index) == IF index \in DOMAIN Terms THEN at + Terms[index] ELSE 0

\* The interest a debt is charged until the next transaction.
Interest(step) == IF position.debt = 0 THEN 0 ELSE step \div INTEREST_SECS

\* A cycle's own reckoning, of amounts borrowed and repaid and not of interest: what
\* was borrowed since it opened and not repaid, the highest that ever was, and the
\* due date a term started with, if it is known.
NewCycle(sig, at, amount, index) ==
  LET due == IF protocol = "loopscale" THEN DueOfTerm(at, index) ELSE 0
  IN  [openSignature |-> sig, peakSignature |-> sig, principal |-> amount, owed |-> amount,
       first_due |-> due, due |-> due]
Grown(c, sig, amount) ==
  IF c.owed + amount > c.principal
  THEN [c EXCEPT !.owed = @ + amount, !.principal = c.owed + amount, !.peakSignature = sig]
  ELSE [c EXCEPT !.owed = @ + amount]
ClosedCycle(c, sig, at, liquidated) ==
  LET due == IF c.due # 0 THEN c.due ELSE c.first_due
      late == due # 0 /\ at > due
      defaulted == late /\ at > due + 2 * DAY
  IN  [openSignature |-> c.openSignature, peakSignature |-> c.peakSignature,
       endSignature |-> sig, principal |-> c.principal, dueAt |-> due,
       outcome |-> IF defaulted THEN DEFAULTED ELSE IF liquidated THEN LIQUIDATED
                   ELSE IF late THEN LATE ELSE ON_TIME]

\* st: [debt, liquidated, cycle, closed] of the position.
Exec(st, ix, sig, at, signed) ==
  LET ended(liquidated) == [st EXCEPT !.cycle = NoCycle,
        !.closed = IF st.cycle = NoCycle THEN @
                   ELSE @ \cup {ClosedCycle(st.cycle, sig, at, liquidated)}]
      paid == IF ix.amount = REPAY_ALL THEN st.debt ELSE ix.amount
  IN  CASE ix.op = "borrow" ->
             [st EXCEPT !.debt = @ + ix.amount,
                        !.cycle = IF st.cycle = NoCycle
                                  THEN NewCycle(sig, at, ix.amount, ix.index)
                                  ELSE Grown(@, sig, ix.amount)]
        [] ix.op = "repay" /\ signed ->
             LET s == IF st.cycle # NoCycle /\ st.cycle.owed > paid /\ ix.amount # REPAY_ALL
                      THEN [st EXCEPT !.cycle.owed = @ - paid] ELSE ended(FALSE)
             IN  [s EXCEPT !.debt = @ - paid]
        [] ix.op = "liquidation" \/ (ix.op = "repay" /\ ~signed) ->
             [ended(TRUE) EXCEPT !.debt = @ - paid]
        [] ix.op = "refinance" ->
             [st EXCEPT !.cycle.due = DueOfTerm(at, ix.index)]
        [] OTHER -> st

-----------------------------------------------------------------------------
(* What the backend reads of a history                                       *)

SignedTxs(all) == SelectSeq(all, LAMBDA tx : tx.signed)
\* A Jupiter Lend liquidation is by tick: it never names the position.
PositionTxs(all) == IF protocol = "jupiter_lend" THEN SignedTxs(all) ELSE all

\* An address is read once, whichever steps use it; capped when any was.
CachedHistory(all) ==
  LET time == Last(all).at
      own == PageThrough(SignedTxs(all), time)
      position_of == PageThrough(PositionTxs(all), time)
  IN  [wallet |-> own.transactions, positions |-> [p \in {P} |-> position_of.transactions],
       capped |-> own.capped \/ position_of.capped,
       full |-> /\ Len(own.transactions) = Len(SignedTxs(all))
                /\ Len(position_of.transactions) = Len(PositionTxs(all))]

WalletHistory(all) ==
  LET read == CachedHistory(all)
      events == WalletEvents(protocol, read.wallet, read.positions)
      accounts == [p \in {P} |-> Last(all).left]
      known == events \o JupiterStateEvents(protocol, events, accounts)
  IN  [events |-> LoopscaleDueDates(protocol, known, read.wallet, read.positions),
       capped |-> read.capped, full |-> read.full]

WalletLoans(all) ==
  LET history == WalletHistory(all)
  IN  [loans |-> Built(history.events), capped |-> history.capped, full |-> history.full]

\* preview.ts: every loan kept is shown, priced or not, and counted.
ReadPreview(read, market) ==
  LET kept == WithoutSameTransaction(read.loans)
      found == PriceLoans(kept, market)
  IN  [priced |-> ToSet(found.priced),
       loans |-> {p.loan : p \in ToSet(found.priced)} \cup ToSet(found.dropped),
       counts |-> [loans |-> Len(kept), priced |-> Len(found.priced),
                   unpriced |-> Len(found.dropped),
                   unpricedLiquidations |->
                     Len(SelectSeq(found.dropped, LAMBDA l : l.outcome \in {LIQUIDATED, DEFAULTED})),
                   sameTransaction |-> Len(read.loans) - Len(kept)],
       historyCapped |-> read.capped]

\* Mutant: every import counts the whole history.
IsNewAlways(l, previous_import_date) == TRUE
\* An import counts the loans that closed after the one before it.
IsNewSince(l, previous_import_date) == l.closedAt > previous_import_date

\* The score is of every priced loan, the counts of the fresh ones.
PlanImport(priced, previous_import_date) ==
  LET fresh == {l \in priced : IsNewSince(l, previous_import_date)}
  IN  [scored |-> priced, fresh |-> fresh, newLoans |-> Cardinality(fresh)]

-----------------------------------------------------------------------------
(* What happens on chain                                                     *)

\* Instructions a transaction may consist of, at a debt of the position.
Repays(debt) == {Ix("repay", a, a, 0) : a \in {x \in Amounts : x <= debt}}
                  \cup {Ix("repay", REPAY_ALL, debt, 0)}
\* Bound: a borrow for an unknown term is of 1, and so is one that shares its
\* transaction with a repay.
Borrows ==
  {b \in {Ix("borrow", a, -a, i) : a \in Amounts, i \in Indexes} :
     IF protocol = "loopscale" THEN b.index \in DOMAIN Terms \/ b.amount = 1 ELSE b.index = 0}
Paired == {b \in Borrows : b.amount = 1 /\ b.index = 0}
WalletIxs(debt) ==
  {<<b>> : b \in Borrows}
    \cup (IF debt = 0
          THEN {<<b, Ix("repay", b.amount, b.amount, 0)>> : b \in Paired}
          ELSE {<<r>> : r \in Repays(debt)}
                 \cup {<<Ix("repay", REPAY_ALL, debt, 0), b>> : b \in Paired})
OthersIxs(debt) ==
  IF debt = 0 THEN {}
  ELSE {<<Ix("liquidation", a, 0, 0)>> : a \in {x \in Amounts : x <= debt}}
    \cup (IF protocol = "marginfi"
          THEN {<<Ix("start_liquidation", 0, 0, 0), Ix("repay", REPAY_ALL, debt, 0)>>}
          ELSE {})
    \cup (IF protocol = "loopscale" /\ position.cycle # NoCycle
          THEN {<<Ix("refinance", 0, 0, 0)>>} ELSE {})

\* A transaction executes on a position that has borne its interest, or fails and
\* leaves it as it was.  "left" is the position's state after it.
Execute(ixs, step, signed, ok) ==
  LET sig == Len(txs) + 1
      at == now + step
      before == [debt |-> position.debt + Interest(step), liquidated |-> position.liquidated,
                 cycle |-> position.cycle, closed |-> cycles]
      liquidation == ~signed /\ ixs[1].op = "liquidation"
      after == IF ok THEN FoldLeft(LAMBDA st, ix : Exec(st, ix, sig, at, signed),
                                   [before EXCEPT !.liquidated = liquidation], ixs)
               ELSE before
      tx == [signature |-> sig, at |-> at, ok |-> ok, signed |-> signed, top |-> Top(ixs, signed),
             left |-> [exists |-> TRUE, liquidated |-> after.liquidated, debt |-> after.debt]]
  IN  /\ Len(txs) < MaxTxs
      /\ txs' = Append(txs, tx)
      /\ position' = [debt |-> after.debt, charged |-> position.charged + Interest(step),
                      liquidated |-> after.liquidated, cycle |-> after.cycle]
      /\ cycles' = after.closed
      /\ reads' = Append(reads, WalletLoans(txs'))
      /\ UNCHANGED protocol

WalletTx == \E step \in Steps : \E ixs \in WalletIxs(position.debt + Interest(step)) :
  Execute(ixs, step, TRUE, TRUE)
OthersTx == \E step \in Steps : \E ixs \in OthersIxs(position.debt + Interest(step)) :
  Execute(ixs, step, FALSE, TRUE)
\* Bound: one failed transaction, of one instruction, soon after the one before.
FailedTx ==
  /\ \A i \in DOMAIN txs : txs[i].ok
  /\ Execute(<<IF position.debt = 0 THEN Ix("borrow", 1, -1, 0)
               ELSE Ix("repay", REPAY_ALL, position.debt, 0)>>, Min(Steps), TRUE, FALSE)

-----------------------------------------------------------------------------
Init ==
  /\ protocol \in Protocols
  /\ txs = <<>>
  /\ position = [debt |-> 0, charged |-> 0, liquidated |-> FALSE, cycle |-> NoCycle]
  /\ cycles = {} /\ reads = <<>>

Next == WalletTx \/ OthersTx \/ FailedTx

Spec == Init /\ [][Next]_vars

-----------------------------------------------------------------------------
(* Properties *)

NotJupiter == protocol # "jupiter_lend"
\* Transactions of one second are read newest first; the properties below leave
\* them aside.
DistinctSeconds == \A i, j \in DOMAIN txs : txs[i].at = txs[j].at => i = j
\* No debt was repaid and borrowed again in one transaction.  A Loopscale repay
\* there is given the new term's due date; a Jupiter Lend repay of everything
\* shows only what the vault gained over the whole transaction.
Repaying(ix) == ix.op = "repay" \/ (ix.op = "operate" /\ ix.amount < 0)
NoRollover == \A i \in DOMAIN txs : Repaying(txs[i].top[1].ix) => Len(txs[i].top) = 1
Kept(n) == ToSet(WithoutSameTransaction(reads[n].loans))

Facts(l) ==
  [openSignature |-> l.openSignature, peakSignature |-> l.peakSignature,
   endSignature |-> l.endSignature, principal |-> l.principal, dueAt |-> l.dueAt,
   outcome |-> l.outcome]
LoanFacts == {Facts(l) : l \in ToSet(Last(reads).loans)}

\* The loans read are the borrow cycles that closed on the protocol, each with
\* its peak debt, its due date and its outcome (docs/history-import.md:37),
\* whoever signed the transaction that closed it, and whatever interest is left.
LoansAreCycles ==
  (/\ reads # <<>> /\ NotJupiter /\ DistinctSeconds
   /\ protocol = "loopscale" => NoRollover
   /\ Last(reads).full) => LoanFacts = cycles

\* A preview of a history cut at MAX_AGE_DAYS still shows every cycle that opened
\* since then as it was, priced or not, and one of a history cut by the page
\* limit says so (heliusClient.ts:43-44).
RecentCyclesRead ==
  LET recent == {c \in cycles : /\ now - txs[c.openSignature].at <= MAX_AGE_SECS
                                /\ c.openSignature # c.endSignature}
  IN  (/\ recent # {} /\ NotJupiter /\ DistinctSeconds
       /\ protocol = "loopscale" => NoRollover) =>
        \A market \in Markets :
          LET preview == ReadPreview(Last(reads), market)
          IN  preview.historyCapped \/ recent \subseteq {Facts(l) : l \in preview.loans}

\* Of the loans that two imports counted, those of the first were over when those
\* of the second opened: no debt is counted twice (docs/history-import.md:41),
\* though an import may read less of the past than the one before it.
DebtCountedOnce ==
  NotJupiter /\ DistinctSeconds =>
    \A m, n \in DOMAIN reads : m < n =>
      \A l \in Kept(m), k \in PlanImport(Kept(n), txs[m].at).fresh :
        l.closedAt <= k.openedAt

\* A Jupiter Lend position whose debt is gone.
JupiterSettled ==
  /\ reads # <<>> /\ ~NotJupiter /\ DistinctSeconds /\ NoRollover
  /\ Last(reads).full /\ position.debt = 0
ShowsLiquidated(c) ==
  \E l \in ToSet(Last(reads).loans) :
    l.openSignature <= c.openSignature /\ l.outcome = LIQUIDATED

\* A Jupiter Lend position whose debt is gone shows each liquidation that took more
\* than all the interest it was ever charged, although no transaction of its
\* history is one: what was repaid is then less than what was borrowed, whatever
\* was borrowed, repaid and charged in between (buildLoans.ts Short, jupiterState.ts).
\* A smaller one can be missed, since what is repaid includes interest and what was
\* borrowed does not (jupiterLend.ts:48, buildLoans.ts:56).
LiquidationSeen ==
  JupiterSettled =>
    \A c \in cycles :
      LET taken == txs[c.endSignature].top[1].inner[1].amount
      IN  c.outcome = LIQUIDATED /\ taken > position.charged => ShowsLiquidated(c)

\* A loan's price is no further from its peak than the nearest one of either
\* source, but for the day Binance is trusted for and the minutes of the cache
\* (prices.ts:1-5).
NearestPrice ==
  reads # <<>> =>
    \A market \in Markets : \A p \in ReadPreview(Last(reads), market).priced :
      LET answers == LiveSources(market, p.loan.peakAt)
      IN  \A source \in {"binance", "birdeye"} :
            answers[source] = NoPrice \/ AsNear(p, answers[source])
=============================================================================

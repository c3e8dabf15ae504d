------------------------------ MODULE Adapters ------------------------------
(*****************************************************************************)
(* A wallet's credit events, read from transactions                          *)
(* (backend/src/history/adapters, heliusClient.ts).  A transaction is        *)
(* [signature, at, ok, signed, top]: signed by the wallet or by somebody     *)
(* else, its top-level instructions each with the inner ones it made.  An    *)
(* instruction is [op, position, mint, amount, all, moved, index]: "amount"  *)
(* and "all" are its arguments as the protocol encodes them, "moved" the     *)
(* tokens that really went into the lender's vault, or out of it.            *)
(*****************************************************************************)
EXTENDS BuildLoans, FiniteSetsExt

CONSTANTS
  Null,          \* no answer
  PAGE,          \* transactions in a page of history
  MAX_PAGES,
  MAX_AGE_SECS   \* MAX_AGE_DAYS

ASSUME PageAssumption == PAGE \in Nat \ {0} /\ MAX_PAGES \in Nat \ {0} /\ MAX_AGE_SECS \in Nat

-----------------------------------------------------------------------------
(* heliusClient.ts *)

\* Mutant: reading stops a page too early, and says nothing of it.
PageThroughShort(txs, time) ==
  [transactions |-> SubSeq(Reverse(txs), 1, PAGE), capped |-> FALSE]
\* Pages are read newest first, until none is left, one ends past MAX_AGE_DAYS,
\* or MAX_PAGES were read and more were still left.
PageThrough(txs, time) ==
  LET newest == Reverse(txs)
      pages == (Len(newest) + PAGE - 1) \div PAGE
      end(p) == IF p * PAGE < Len(newest) THEN p * PAGE ELSE Len(newest)
      too_old(p) == time - newest[end(p)].at > MAX_AGE_SECS
      stops == {p \in 1..pages : p = pages \/ too_old(p)}
  IN  IF txs = <<>> THEN [transactions |-> <<>>, capped |-> FALSE]
      ELSE IF Min(stops) <= MAX_PAGES
      THEN [transactions |-> SubSeq(newest, 1, end(Min(stops))), capped |-> FALSE]
      ELSE [transactions |-> SubSeq(newest, 1, MAX_PAGES * PAGE), capped |-> TRUE]

-----------------------------------------------------------------------------
(* common.ts: a transaction's instructions and balances *)

\* In execution order: each top-level one, then the inner ones it made.
instructions(tx) ==
  FlattenSeq([i \in DOMAIN tx.top |-> <<tx.top[i].ix>> \o tx.top[i].inner])

\* The lender's vault after the transaction minus before it, for the whole of it.
TokenBalanceChange(tx, ix) ==
  FoldLeft(LAMBDA sum, x : sum + x.moved, 0,
           SelectSeq(instructions(tx), LAMBDA x : x.mint = ix.mint))

succeeded(tx) == tx.ok

-----------------------------------------------------------------------------
(* The adapters: the events of one of the instructions of a transaction *)

Kinds == {"borrow", "repay", "liquidation"}

Event(protocol, tx, ix, kind, amount) ==
  [protocol |-> protocol, position |-> ix.position, mint |-> ix.mint, kind |-> kind,
   amount |-> amount, paid |-> 0, timestamp |-> tx.at, signature |-> tx.signature,
   dueAt |-> 0]

\* u64::MAX is REPAY_ALL as it is.
KaminoEvents(tx, ixs, i) ==
  IF ixs[i].op \in Kinds
  THEN <<Event("kamino", tx, ixs[i], ixs[i].op, ixs[i].amount)>> ELSE <<>>

SaveEvents(tx, ixs, i) ==
  IF ixs[i].op \in Kinds
  THEN <<Event("save", tx, ixs[i], ixs[i].op, ixs[i].amount)>> ELSE <<>>

\* repay_all goes before the amount.
RepayAmount(ix) == IF ix.all THEN REPAY_ALL ELSE ix.amount

\* After start_liquidation the repays of that account in the same transaction
\* are the liquidator's.
MarginfiEvents(tx, ixs, i) ==
  LET ix == ixs[i]
      in_liquidation == \E j \in 1..(i - 1) :
        ixs[j].op = "start_liquidation" /\ ixs[j].position = ix.position
      kind == IF ix.op = "repay" /\ in_liquidation THEN "liquidation" ELSE ix.op
  IN  IF ix.op \in Kinds
      THEN <<Event("marginfi", tx, ix, kind,
                   IF ix.op = "repay" THEN RepayAmount(ix) ELSE ix.amount)>>
      ELSE <<>>

\* A liquidation carries no amount: it closes the ledger whatever is left.
AmountOf(ix) ==
  IF ix.op = "liquidation" THEN 0 ELSE IF ix.op = "repay" THEN RepayAmount(ix) ELSE ix.amount
LoopscaleEvents(tx, ixs, i) ==
  IF ixs[i].op \in Kinds
  THEN <<Event("loopscale", tx, ixs[i], ixs[i].op, AmountOf(ixs[i]))>> ELSE <<>>

\* "Repay the whole debt": below what any debt could be.
MIN_I128 == -REPAY_ALL

\* One operate(new_col, new_debt) for everything, new_debt here as "amount",
\* read when the wallet signed it; a liquidation names no position.
JupiterLendEvents(tx, ixs, i) ==
  LET ix == ixs[i]
      paid == TokenBalanceChange(tx, ix)
      all == Event("jupiter_lend", tx, ix, "repay", REPAY_ALL)
  IN  CASE ix.op # "operate" \/ ~tx.signed \/ ix.amount = 0 -> <<>>
        [] ix.amount > 0 -> <<Event("jupiter_lend", tx, ix, "borrow", ix.amount)>>
        [] ix.amount = MIN_I128 -> <<IF paid > 0 THEN [all EXCEPT !.paid = paid] ELSE all>>
        [] OTHER -> <<Event("jupiter_lend", tx, ix, "repay", -ix.amount)>>

EventsOf(protocol, tx) ==
  LET ixs == instructions(tx)
      of(i) == CASE protocol = "kamino" -> KaminoEvents(tx, ixs, i)
                 [] protocol = "save" -> SaveEvents(tx, ixs, i)
                 [] protocol = "marginfi" -> MarginfiEvents(tx, ixs, i)
                 [] protocol = "loopscale" -> LoopscaleEvents(tx, ixs, i)
                 [] protocol = "jupiter_lend" -> JupiterLendEvents(tx, ixs, i)
  IN  FlattenSeq([i \in DOMAIN ixs |-> of(i)])

-----------------------------------------------------------------------------
(* common.ts walletEvents *)

Decode(protocol, txs) ==
  FlattenSeq([i \in DOMAIN txs |->
    IF succeeded(txs[i]) THEN EventsOf(protocol, txs[i]) ELSE <<>>])

SameEvent(e, f) ==
  /\ e.signature = f.signature /\ Key(e) = Key(f) /\ e.kind = f.kind
  /\ e.amount = f.amount

\* The first of each event: the same one may be in two histories.
Dedupe(events) ==
  LET first == SelectSeq([i \in DOMAIN events |-> i],
                 LAMBDA i : \A j \in 1..(i - 1) : ~SameEvent(events[j], events[i]))
  IN  Tuple([k \in DOMAIN first |-> events[first[k]]])

\* Borrows and repays from the wallet's own history, liquidations also from each
\* position's, which is read for them.
WalletEvents(protocol, wallet_txs, position_txs) ==
  LET own == Decode(protocol, wallet_txs)
      positions == SetToSeq({e.position : e \in ToSet(own)})
      liquidations(p) ==
        SelectSeq(Decode(protocol, position_txs[p]),
                  LAMBDA e : e.kind = "liquidation" /\ e.position = p)
  IN  Dedupe(own \o FlattenSeq([i \in DOMAIN positions |-> liquidations(positions[i])]))

-----------------------------------------------------------------------------
(* jupiterState.ts: what a position is today *)

\* Null when its account no longer exists.
ReadPosition(account) ==
  IF account.exists THEN [liquidated |-> account.liquidated, debtRaw |-> account.debt] ELSE Null

\* The proof of a synthetic event is the position's state, not a transaction.
STATE_SIGNATURE == 0

\* The last event of a position; the first one listed among those of a second
\* loses to the next.
LastEvent(events, p) ==
  LET own == SelectSeq(events, LAMBDA e : e.position = p)
      last == Max({e.timestamp : e \in ToSet(own)})
  IN  Last(SelectSeq(own, LAMBDA e : e.timestamp = last))

JupiterStateEvents(protocol, events, accounts) ==
  LET gone(p) == LET state == ReadPosition(accounts[p])
                 IN  IF state = Null THEN FALSE ELSE state.liquidated \/ state.debtRaw = 0
      positions == SetToSeq({p \in {e.position : e \in ToSet(events)} : gone(p)})
      synthetic(p) == [LastEvent(events, p) EXCEPT
                         !.kind = "liquidation", !.amount = 0, !.paid = 0,
                         !.signature = STATE_SIGNATURE]
  IN  IF protocol # "jupiter_lend" THEN <<>>
      ELSE [i \in DOMAIN positions |-> synthetic(positions[i])]

-----------------------------------------------------------------------------
(* loopscaleTerms.ts termStarts *)

TermStarts(txs) ==
  LET of(tx) == SelectSeq(instructions(tx), LAMBDA x : x.op \in {"borrow", "refinance"})
      starts(tx, ixs) ==
        [i \in DOMAIN ixs |->
           [position |-> ixs[i].position, mint |-> ixs[i].mint, at |-> tx.at,
            index |-> ixs[i].index, signature |-> tx.signature, kind |-> ixs[i].op]]
  IN  FlattenSeq([i \in DOMAIN txs |->
        IF succeeded(txs[i]) THEN starts(txs[i], of(txs[i])) ELSE <<>>])

\* The wallet's history and each loan's: a rollover is signed by Loopscale.
LoopscaleDueDates(protocol, events, wallet_txs, position_txs) ==
  LET loans == SetToSeq({e.position : e \in ToSet(events)})
      txs == wallet_txs \o FlattenSeq([i \in DOMAIN loans |-> position_txs[loans[i]]])
  IN  IF protocol # "loopscale" \/ events = <<>> THEN events
      ELSE WithLoopscaleDueDates(events, TermStarts(txs))
=============================================================================

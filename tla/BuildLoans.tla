----------------------------- MODULE BuildLoans -----------------------------
(*****************************************************************************)
(* From a wallet's credit events to its closed loans                         *)
(* (backend/src/history/buildLoans.ts), and the due dates of Loopscale       *)
(* events (adapters/loopscaleTerms.ts).  An event is a record with the       *)
(* fields of CreditEvent that the result depends on; a signature is the      *)
(* number of its transaction.  An amount paid of 0 is one the transaction    *)
(* does not show.                                                            *)
(*****************************************************************************)
EXTENDS Integers, Sequences, FiniteSets, SequencesExt

CONSTANTS
  DAY,
  REPAY_ALL,  \* an amount above any debt
  Terms       \* TERM_SECS_BY_INDEX: the term of each known duration index

ASSUME TermAssumption ==
  /\ DAY \in Nat \ {0} /\ REPAY_ALL \in Nat
  /\ \A index \in DOMAIN Terms : Terms[index] \in Nat \ {0}

ON_TIME == 0
LATE == 1
LIQUIDATED == 2
DEFAULTED == 3

\* Loopscale alone has due dates, and a grace after them.
GRACE_SECS == 2 * DAY
PastGrace(protocol, dueAt, at) == protocol = "loopscale" /\ at > dueAt + GRACE_SECS

RepayOutcome(protocol, dueAt, at) ==
  CASE dueAt = 0 \/ at <= dueAt -> ON_TIME
    [] PastGrace(protocol, dueAt, at) -> DEFAULTED
    [] OTHER -> LATE

LiquidationOutcome(protocol, dueAt, at) ==
  IF dueAt # 0 /\ PastGrace(protocol, dueAt, at) THEN DEFAULTED ELSE LIQUIDATED

-----------------------------------------------------------------------------
(* buildLoans *)

\* A sequence given as a function, made a tuple that TLC evaluates once.
Tuple(s) == SubSeq(s, 1, Len(s))

\* Array.sort on timestamps: stable, so events of one second keep their order.
ByTime(events) ==
  LET before(j, i) == \/ events[j].timestamp < events[i].timestamp
                      \/ events[j].timestamp = events[i].timestamp /\ j < i
      place == [i \in DOMAIN events |-> 1 + Cardinality({j \in DOMAIN events : before(j, i)})]
  IN  Tuple([k \in DOMAIN events |-> events[CHOOSE i \in DOMAIN events : place[i] = k]])

Key(e) == <<e.protocol, e.position, e.mint>>
OpenLoan(e) ==
  [first |-> e, debt |-> 0, peak |-> 0, peakEvent |-> e, borrowed |-> 0, repaid |-> 0]

\* The loans being built: a map from keys, here the set of its values.
Current(st, e) == {o \in st.open : Key(o.first) = Key(e)}

\* Mutant: the first borrow's due date whatever the closing event says.
DueOfFirst(o, end) == o.first.dueAt
DueOf(o, end) == IF end.dueAt # 0 THEN end.dueAt ELSE o.first.dueAt

Close(o, end, outcome) ==
  [protocol |-> o.first.protocol, position |-> o.first.position, mint |-> o.first.mint,
   principal |-> o.peak, openedAt |-> o.first.timestamp, closedAt |-> end.timestamp,
   dueAt |-> DueOf(o, end), outcome |-> outcome, peakAt |-> o.peakEvent.timestamp,
   openSignature |-> o.first.signature, peakSignature |-> o.peakEvent.signature,
   endSignature |-> end.signature]
Closed(st, o, end, outcome) ==
  [open |-> st.open \ {o}, loans |-> Append(st.loans, Close(o, end, outcome))]

Borrowed(st, e) ==
  LET olds == Current(st, e)
      o == IF olds = {} THEN OpenLoan(e) ELSE CHOOSE x \in olds : TRUE
      debt == o.debt + e.amount
  IN  [st EXCEPT !.open = (@ \ olds) \cup
         {[o EXCEPT !.debt = debt, !.borrowed = @ + e.amount,
                    !.peak = IF debt > o.peak THEN debt ELSE @,
                    !.peakEvent = IF debt > o.peak THEN e ELSE @]}]

\* Mutant: a repay-everything is on time whatever it moved.
ShortNever(o, e) == FALSE
\* A repay-everything that moved less than was borrowed: a liquidation took the rest.
Short(o, e) == e.amount = REPAY_ALL /\ e.paid # 0 /\ o.repaid < o.borrowed

Repaid(st, e, old) ==
  LET o == [old EXCEPT !.debt = @ - e.amount,
                       !.repaid = @ + (IF e.amount = REPAY_ALL THEN e.paid ELSE e.amount)]
      due == DueOf(o, e)
      outcome == IF Short(o, e) THEN LiquidationOutcome(e.protocol, due, e.timestamp)
                 ELSE RepayOutcome(e.protocol, due, e.timestamp)
      rest == [st EXCEPT !.open = @ \ {old}]
  IN  IF o.debt <= 0 THEN Closed(rest, o, e, outcome) ELSE [rest EXCEPT !.open = @ \cup {o}]

Liquidated(st, e, o) ==
  Closed(st, o, e, LiquidationOutcome(e.protocol, DueOf(o, e), e.timestamp))

\* Repays and liquidations of a loan whose opening is not in the history are skipped.
OnEvent(st, e) ==
  IF e.kind = "borrow" THEN Borrowed(st, e)
  ELSE IF Current(st, e) = {} THEN st
  ELSE LET o == CHOOSE x \in Current(st, e) : TRUE
       IN  IF e.kind = "repay" THEN Repaid(st, e, o) ELSE Liquidated(st, e, o)

Built(events) == FoldLeft(OnEvent, [open |-> {}, loans |-> <<>>], ByTime(events)).loans

\* Repaid in the transaction that opened it: nothing was at risk.
WithoutSameTransaction(loans) ==
  SelectSeq(loans, LAMBDA l : l.outcome >= LIQUIDATED \/ l.openSignature # l.endSignature)

-----------------------------------------------------------------------------
(* loopscaleTerms.ts: a start is [position, mint, at, index, signature, kind] *)

Ledger(x) == <<x.position, x.mint>>

\* Every refinance, and the borrows made into a ledger without debt.
EffectiveStarts(events, starts) ==
  LET own == SelectSeq(events, LAMBDA e : e.protocol = "loopscale")
      start(e) == SelectSeq(starts, LAMBDA s :
        s.kind = "borrow" /\ s.signature = e.signature /\ Ledger(s) = Ledger(e))
      step(st, e) ==
        LET d == st.debt[Ledger(e)]
            left == CASE e.kind = "borrow" -> d + e.amount
                      [] e.kind = "repay" -> IF e.amount >= d THEN 0 ELSE d - e.amount
                      [] OTHER -> 0
            \* borrowAt keeps the last start of a transaction and ledger
            found == IF e.kind = "borrow" /\ d <= 0 /\ start(e) # <<>>
                     THEN <<Last(start(e))>> ELSE <<>>
        IN  [debt |-> [st.debt EXCEPT ![Ledger(e)] = left], out |-> st.out \o found]
      none == [debt |-> [l \in {Ledger(e) : e \in ToSet(own)} |-> 0],
               out |-> SelectSeq(starts, LAMBDA s : s.kind = "refinance")]
  IN  FoldLeft(step, none, ByTime(own)).out

NoStart == [at |-> -1]
LatestStart(starts, e) ==
  LET own == SelectSeq(starts, LAMBDA s : Ledger(s) = Ledger(e) /\ s.at <= e.timestamp)
      latest == SelectSeq(own, LAMBDA s : \A t \in ToSet(own) : t.at <= s.at)
  IN  IF own = <<>> THEN NoStart ELSE Last(latest)

\* The due date from the term in force at each event; 0 when it is not known.
WithLoopscaleDueDates(events, starts) ==
  LET real == EffectiveStarts(events, starts)
      due(e) == LET latest == LatestStart(real, e)
                IN  IF latest = NoStart THEN 0
                    ELSE IF latest.index \in DOMAIN Terms THEN latest.at + Terms[latest.index]
                    ELSE 0
  IN  Tuple([i \in DOMAIN events |->
        IF events[i].protocol = "loopscale" THEN [events[i] EXCEPT !.dueAt = due(events[i])]
        ELSE events[i]])
=============================================================================

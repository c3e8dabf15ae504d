---------------------------- MODULE CreditLedger ----------------------------
(*****************************************************************************)
(* What the two programs together promise about a borrower's credit, without *)
(* accounts, prices or scores: a loan is opened within a limit that only     *)
(* on-time repayments raise, it is closed once, and closing it writes one    *)
(* record whose outcome is what the clock says.  Records are never changed,  *)
(* and a bad one shuts the better tiers out for 90 days.                     *)
(*****************************************************************************)
EXTENDS PoolMath, FiniteSetsExt

CONSTANTS Borrowers, LoanAmounts, Times,
          MaxLoans  \* bound on the ids of a borrower's loans

VARIABLES
  now,
  open,    \* [borrower, id, tier, principal, due_at]
  history  \* [borrower, id, principal, closed_at, outcome]

vars == <<now, open, history>>

HistoryOf(b) == {r \in history : r.borrower = b}
LargestOnTime(b) ==
  Max({0} \cup {r.principal : r \in {h \in HistoryOf(b) : h.outcome = ON_TIME}})
Blocked(b) ==
  \E r \in HistoryOf(b) :
    r.outcome \in {LIQUIDATED, DEFAULTED} /\ now - r.closed_at < LIQUIDATION_COOLDOWN_SECS

\* Which outcomes a loan due at "due_at" may be closed with at this moment.
Possible(due_at) ==
  IF InDefault(now, due_at) THEN {DEFAULTED}
  ELSE {LIQUIDATED} \cup (IF now <= due_at THEN {ON_TIME} ELSE {LATE})

Init == now \in Times /\ open = {} /\ history = {}

Open(b, id, tier, principal) ==
  /\ principal <= MaxLoan(tier, LargestOnTime(b))
  /\ tier >= SILVER => ~Blocked(b)
  /\ \A x \in open \cup history : x.borrower = b => x.id # id
  /\ open' = open \cup
       {[borrower |-> b, id |-> id, tier |-> tier, principal |-> principal,
         due_at |-> now + LOAN_TERM_SECS]}
  /\ UNCHANGED <<now, history>>

Close(l, outcome) ==
  /\ outcome \in Possible(l.due_at)
  /\ open' = open \ {l}
  /\ history' = history \cup
       {[borrower |-> l.borrower, id |-> l.id, principal |-> l.principal,
         closed_at |-> now, outcome |-> outcome]}
  /\ UNCHANGED now

Tick == now' \in {t \in Times : t > now} /\ UNCHANGED <<open, history>>

Next ==
  \/ \E b \in Borrowers, tier \in Tiers, principal \in LoanAmounts, id \in 0..MaxLoans :
       Open(b, id, tier, principal)
  \/ \E l \in open, outcome \in Outcomes : Close(l, outcome)
  \/ Tick

Spec == Init /\ [][Next]_vars
=============================================================================

---------------------------- MODULE MCTrustTrail ----------------------------
(*****************************************************************************)
(* One wallet, one writer and two loans, on a clock of half days: a loan     *)
(* closed at 100 was open half a day, 130 is inside the import cooldown of   *)
(* 100 and the deadline of set_exposure, 230 inside the 90-day block and     *)
(* 400 past it.  u16 and u64 are small enough to saturate.                   *)
(*****************************************************************************)
EXTENDS ScoreView

MCImports == { [score |-> 600, on_time |-> 3, weight |-> 30000],
               [score |-> 1000, on_time |-> 8, weight |-> 80000] }
\* An attester of its own on the same schema, and another record of ours.
MCForeign ==
  LET record(w) == [loan |-> 0, borrower |-> w, lender |-> 0, principal |-> 740,
                    opened_at |-> 0, due_at |-> 99, closed_at |-> 99, outcome |-> ON_TIME]
  IN  {[schema |-> "repayment", signer |-> "other", record |-> record(w)] : w \in Wallets}
      \cup {[schema |-> "other", signer |-> "sas-signer", record |-> record(w)] : w \in Wallets}
LoanKeySymmetry == Permutations(LoanKeys)
=============================================================================

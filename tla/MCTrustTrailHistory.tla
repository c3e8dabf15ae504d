------------------------ MODULE MCTrustTrailHistory -------------------------
(*****************************************************************************)
(* Longer histories: five $740 loans of one wallet, with every mix of        *)
(* outcomes, closed half a day, 50 days or 145 days after they were opened.  *)
(* The wallet may import a score of 300.  No set_exposure.                   *)
(* The counters end at 4 and the sums at 300,000: the fifth loan of an       *)
(* outcome fills its counter and the volume repaid, at 100 units to a USDC.  *)
(*****************************************************************************)
EXTENDS ScoreView

\* Loan keys are used in order and the writer stays: the other orders and the
\* whitelist are covered by MCTrustTrail.
InOrder ==
  /\ \A a \in attestations' \ attestations : a.loan = Cardinality(attestations)
  /\ whitelist \subseteq whitelist'

MCImports == {[score |-> 300, on_time |-> 3, weight |-> 30000]}
=============================================================================

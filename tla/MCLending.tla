------------------------------ MODULE MCLending ------------------------------
(*****************************************************************************)
(* One borrower that may import a Silver history, two loans of 200 or 400.   *)
(* The clock unit is a day: of a loan opened on day 1, 20 is before the due  *)
(* date, 33 in its grace period and 125 in default, which is also past the   *)
(* 90-day block of a loan liquidated on day 33.  At a price of 10 the 60     *)
(* units of SOL cover either loan; at 3 they cover neither.                  *)
(*****************************************************************************)
EXTENDS Lending

MCUpdates ==
  {[feed_id |-> "SOL", price |-> 11, conf |-> 1, publish_time |-> 1],
   [feed_id |-> "SOL", price |-> 4, conf |-> 1, publish_time |-> 1]}
MCRisk ==
  {[feed_id |-> "SOL", min_tier |-> 0, max_age |-> 200, threshold |-> 11000, bonus |-> 500]}
\* Writers are added, not removed: MCTrustTrail covers removal.
WritersStay == whitelist \subseteq whitelist'

MCImports == {[score |-> 600, on_time |-> 3, weight |-> 30000]}
=============================================================================

--------------------------- MODULE MCPoolLenders ----------------------------
(*****************************************************************************)
(* An instance of Pool that concentrates on lenders: two of them, partial    *)
(* withdrawals, two loans. Every deposit or withdrawal after the price of a  *)
(* share has left 1 rounds it a little further, so the reachable prices      *)
(* never close into a cycle; MaxLenderSteps bounds how many are taken.       *)
(*****************************************************************************)
EXTENDS Pool

CONSTANT MaxLenderSteps
VARIABLE lenderSteps

MCUpdates ==
  {[feed_id |-> "SOL", price |-> 11, conf |-> 1, publish_time |-> 1],
   [feed_id |-> "SOL", price |-> 3, conf |-> 1, publish_time |-> 300]}

MCRisk ==
  {[feed_id |-> "SOL", min_tier |-> 0, max_age |-> 30, threshold |-> 11000, bonus |-> 500]}

MCInit == Init /\ lenderSteps = 0

MCNext ==
  /\ Next
  /\ lenderSteps' = IF lp' = lp THEN lenderSteps ELSE lenderSteps + 1
  /\ lenderSteps' <= MaxLenderSteps

MCSpec == MCInit /\ [][MCNext]_<<vars, lenderSteps>>
=============================================================================

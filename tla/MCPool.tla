------------------------------- MODULE MCPool -------------------------------
(*****************************************************************************)
(* An instance of Pool that concentrates on loans.  The clock unit is a day, *)
(* the money unit a USDC, and WAD is 100, so indexes and debts round         *)
(* visibly.  35 units of SOL at a low price of 10 cover a loan of 200 with   *)
(* room; at 6 they cover the debt but not the bonus; at 3 not the debt.  53  *)
(* units cover 400 at Silver's 130% with little to spare.  A threshold of    *)
(* 13500 is one the program refuses.                                         *)
(*****************************************************************************)
EXTENDS PoolService

Update(low, at) == [feed_id |-> "SOL", price |-> low + 1, conf |-> 1, publish_time |-> at]

MCUpdates == {Update(10, 1), Update(10, 26), Update(6, 26), Update(10, 300), Update(3, 300)}

MCRisk ==
  {[feed_id |-> "SOL", min_tier |-> 0, max_age |-> 10, threshold |-> threshold, bonus |-> 500] :
     threshold \in {11000, 13500}}
=============================================================================

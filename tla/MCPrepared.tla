----------------------------- MODULE MCPrepared -----------------------------
(*****************************************************************************)
(* One wallet with two tabs and 300 of the pool's 1300 shares; another       *)
(* lender has the rest, and another borrower a loan of 200.  33 units of SOL *)
(* at 9 are three USDC short of what Unproven's 150% of 200 needs.           *)
(*****************************************************************************)
EXTENDS Prepared, TLC

CONSTANTS me, other, tUSDC

Update(feed, low, at) == [feed_id |-> feed, price |-> low + 1, conf |-> 1, publish_time |-> at]
MCUpdates == {Update("SOL", 9, 1), Update("SOL", 3, 300), Update("USDC", 1, 1)}

SolRisk == [feed_id |-> "SOL", min_tier |-> 0, max_age |-> 10, threshold |-> 11000, bonus |-> 500]
UsdcRisk == [feed_id |-> "USDC", min_tier |-> 0, max_age |-> 30, threshold |-> 11000, bonus |-> 500]

MCRisks == {SolRisk, UsdcRisk}

MCTyped ==
  [borrow |-> {}, collateral |-> [m \in Mints |-> IF m = SOL THEN {33} ELSE {}],
   deposit |-> {300}, withdraw |-> {151}]

\* The collaterals are configured, both lenders have made a deposit and the
\* other borrower has taken a loan.
MCInit ==
  /\ now = 1
  /\ pool = [total_borrowed |-> 200, protocol_fees |-> 0, bad_debt |-> 0, last_accrual |-> now,
             tier_index |-> [t \in Tiers |-> WAD], tier_scaled_debt |-> [t \in Tiers |-> IF t = 0 THEN 200 ELSE 0]]
  /\ vault = 1100
  /\ lp = [l \in Lenders |-> IF l = me THEN 300 ELSE 1000]
  /\ lp_supply = 1300
  /\ collateral = [m \in Mints |-> IF m = SOL THEN SolRisk ELSE UsdcRisk]
  /\ collateral_vault = [m \in Mints |-> IF m = SOL THEN 35 ELSE 0]
  /\ borrower_state = [b \in Borrowers |->
                         [largest_repaid |-> 0, next_loan_id |-> IF b = me THEN 0 ELSE 1,
                          open_loans |-> IF b = me THEN 0 ELSE 1]]
  /\ loans = {[borrower |-> other, loan_id |-> 0, tier_at_open |-> 0, principal |-> 200,
               scaled_debt |-> 200, collateral_mint |-> SOL, collateral_amount |-> 35,
               opened_at |-> 1, due_at |-> 1 + LOAN_TERM_SECS, status |-> OPEN]}
  /\ funds = [w \in Wallets |-> [usdc |-> 600, sol |-> 120, wsol |-> 0, side |-> 0]]
  /\ ServiceInit /\ tier = [w \in Wallets |-> 0]

\* One page is looked at at a time: the other tab waits for its answers.
OnePage == Cardinality({t \in Tabs : tabs[t].stage = "shown"}) <= 1

TabSymmetry == Permutations(Tabs)

MCSpec == MCInit /\ [][ServiceNext]_allVars
=============================================================================

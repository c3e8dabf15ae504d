------------------------------ MODULE MCImport ------------------------------
(*****************************************************************************)
(* One wallet, one outside loan, at most three imports prepared and two      *)
(* calls served at a time, each a prepare or a submit.                       *)
(* The clock unit is half a day: 1 and 2 are moments of one transaction's    *)
(* life and of one call's, 32 is past the cooldown of an import at 1 or 2.   *)
(*****************************************************************************)
EXTENDS Import, TLC

MCOwner == [l \in Loans |-> CHOOSE w \in Wallets : TRUE]
MCProtocol == [l \in Loans |-> "kamino"]
CallSymmetry == Permutations(Calls)
=============================================================================

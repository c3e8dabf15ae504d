------------------------------ MODULE MCHistory -----------------------------
(*****************************************************************************)
(* Small instance of History: four transactions one or five clock units      *)
(* apart, a unit of interest in five, pages of one, a day of one unit, a     *)
(* history of at most six, a term of two for duration index 0 and none known *)
(* for index 7.                                                              *)
(*****************************************************************************)
EXTENDS History, TLC

MCTerms == 0 :> 2

MCMarkets ==
  [listed : {TRUE}, trades : {{}, {5, 20}}, quotes : {{}, {3, 12}}]
    \cup [listed : {FALSE}, trades : {{5}}, quotes : {{3, 12}}]
=============================================================================

----------------------------- MODULE MCPreview -----------------------------
(*****************************************************************************)
(* Three calls of one wallet from two addresses, one read an hour for an     *)
(* address and two a day in all.  The clock has an hour of 2, a day of 3 and *)
(* a cache of one hour: 1 and 2 are in one hour and in the cache's time, 3   *)
(* is an hour after 1 but not after 2, 4 is a day after 1.  A call may span  *)
(* one step of the clock, so one that began at 2 may count its rows after    *)
(* the read of a call that began at 3.                                       *)
(*****************************************************************************)
EXTENDS Preview
=============================================================================

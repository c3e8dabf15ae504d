------------------------------ MODULE MCFaucet ------------------------------
(*****************************************************************************)
(* One wallet and three claims on a clock of half days: 1 and 2 are within   *)
(* a day of each other and within one transaction's and one call's life, 3   *)
(* is a day after 1 and 4 after 2.                                           *)
(*****************************************************************************)
EXTENDS Faucet, TLC

CallSymmetry == Permutations(Calls)

\* faucet.ts:1 "once per wallet per 24 h" and faucet.ts:76 "Nothing was minted:
\* give the claim back": a wallet is minted to once in 24 hours, whatever fails.
OnceADay ==
  \A m, n \in minted :
    m.wallet = n.wallet /\ m.at <= n.at /\ n.at - m.at < FAUCET_COOLDOWN_SECS => m = n
=============================================================================

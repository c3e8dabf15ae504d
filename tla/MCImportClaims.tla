--------------------------- MODULE MCImportClaims ---------------------------
(*****************************************************************************)
(* A statement the repository makes about the import that the backend does   *)
(* not keep: the one property of a run that TLC refutes.                     *)
(*****************************************************************************)
EXTENDS Import

MCOwner == [l \in Loans |-> CHOOSE w \in Wallets : TRUE]
MCProtocol == [l \in Loans |-> "kamino"]

\* Wallets submit through the backend, which sends what it has checked.
ThroughBackend ==
  in_flight' # in_flight =>
    \E c \in Calls : calls[c].phase = "send" /\ calls'[c].phase = "confirm"

\* store.ts:4: "Every import is kept, so any past on-chain score can be checked":
\* an import that landed has its row.
EveryImportKept == \A m \in landed : \E r \in imports : r.message = m
=============================================================================

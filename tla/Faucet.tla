------------------------------- MODULE Faucet -------------------------------
(*****************************************************************************)
(* The test-USDC faucet (backend/src/faucet/faucet.ts): a claim is reserved  *)
(* in Postgres, minted on Solana and given back if the minting fails.  The   *)
(* steps of a call are the stretches between two awaits; calls interleave,   *)
(* a database or RPC call may fail, and the server may be restarted.         *)
(*****************************************************************************)
EXTENDS Scoring, FiniteSetsExt

CONSTANTS
  Wallets, Calls, NoClaim,
  Times,        \* clock values at which something may happen
  TX_LIFETIME,  \* how long a blockhash is accepted (external: Solana)
  MAX_CALL      \* the longest a call may run

ASSUME FaucetAssumption ==
  /\ Times \subseteq Nat \ {0} /\ TX_LIFETIME \in Nat /\ MAX_CALL \in Nat
  /\ NoClaim \notin Nat

VARIABLES
  now,
  faucet_claims,  \* claimed_at of each wallet's row, or NoClaim
  sent,           \* mint transactions given to the network: [call, wallet, expires]
  minted,         \* those executed: [call, wallet, at]
  calls           \* the HTTP calls: [phase, wallet, now, prev]

vars == <<now, faucet_claims, sent, minted, calls>>

FAUCET_COOLDOWN_SECS == DAY

\* A call is over before its wallet may claim again.
ASSUME CooldownAssumption == MAX_CALL < FAUCET_COOLDOWN_SECS

Phases == {"idle", "reserve", "send", "confirm", "record", "undo", "refused", "ok", "failed"}
Ended == {"refused", "ok", "failed"}
Running(c) == calls[c].phase \notin Ended \cup {"idle"}
\* The claim is this call's: reserved and not yet settled.
Reserving(c) == calls[c].phase \in {"send", "confirm", "record", "undo"}

Goto(c, phase) == calls' = [calls EXCEPT ![c].phase = phase]

-----------------------------------------------------------------------------
(* claim *)

\* The clock is read before the row; refused within 24 hours of the last claim.
ReadClaim(c, w) ==
  LET prev == faucet_claims[w]
      too_early == prev # NoClaim /\ now - prev < FAUCET_COOLDOWN_SECS
  IN  /\ calls[c].phase = "idle"
      /\ calls' = [calls EXCEPT ![c] =
           [phase |-> IF too_early THEN "refused" ELSE "reserve",
            wallet |-> w, now |-> now, prev |-> prev]]
      /\ UNCHANGED <<now, faucet_claims, sent, minted>>

\* Mutant: the row is written whatever it holds by now.
ReserveOverwrites(c) ==
  /\ calls[c].phase = "reserve"
  /\ faucet_claims' = [faucet_claims EXCEPT ![calls[c].wallet] = calls[c].now]
  /\ Goto(c, "send")
  /\ UNCHANGED <<now, sent, minted>>
\* INSERT .. ON CONFLICT DO NOTHING, or UPDATE .. WHERE claimed_at = the value
\* read: succeeds only if the row is unchanged.
Reserve(c) ==
  LET call == calls[c]
      unchanged == faucet_claims[call.wallet] = call.prev
  IN  /\ call.phase = "reserve"
      /\ faucet_claims' =
           [faucet_claims EXCEPT ![call.wallet] = IF unchanged THEN call.now ELSE @]
      /\ Goto(c, IF unchanged THEN "send" ELSE "refused")
      /\ UNCHANGED <<now, sent, minted>>

\* An error may be answered with the transaction already forwarded.
Send(c) ==
  LET tx == [call |-> c, wallet |-> calls[c].wallet, expires |-> now + TX_LIFETIME]
  IN  /\ calls[c].phase = "send"
      /\ \/ sent' = sent \cup {tx} /\ Goto(c, "confirm")
         \/ sent' \in {sent, sent \cup {tx}} /\ Goto(c, "undo")
      /\ UNCHANGED <<now, faucet_claims, minted>>

Confirm(c) ==
  /\ calls[c].phase = "confirm"
  /\ \/ (\E m \in minted : m.call = c) /\ Goto(c, "record")
     \/ Goto(c, "undo")  \* the blockhash ran out, or the RPC node failed
  /\ UNCHANGED <<now, faucet_claims, sent, minted>>

\* The signature is stored; a database error here is handled like any other.
RecordSignature(c) ==
  /\ calls[c].phase = "record"
  /\ Goto(c, "ok") \/ Goto(c, "undo")
  /\ UNCHANGED <<now, faucet_claims, sent, minted>>

\* The catch block: the row goes back to what was read, unless that fails too.
Undo(c) ==
  /\ calls[c].phase = "undo"
  /\ faucet_claims' \in
       {faucet_claims, [faucet_claims EXCEPT ![calls[c].wallet] = calls[c].prev]}
  /\ Goto(c, "failed")
  /\ UNCHANGED <<now, sent, minted>>

-----------------------------------------------------------------------------
(* The network, the server's host and the clock *)

Land(tx) ==
  /\ now <= tx.expires
  /\ \A m \in minted : m.call # tx.call
  /\ minted' = minted \cup {[call |-> tx.call, wallet |-> tx.wallet, at |-> now]}
  /\ UNCHANGED <<now, faucet_claims, sent, calls>>

Restart ==
  /\ \E c \in Calls : Running(c)
  /\ calls' = [c \in Calls |-> IF Running(c) THEN [calls[c] EXCEPT !.phase = "failed"]
                               ELSE calls[c]]
  /\ UNCHANGED <<now, faucet_claims, sent, minted>>

Tick ==
  /\ now' \in {t \in Times : t > now}
  /\ \A c \in Calls : Running(c) => now' - calls[c].now <= MAX_CALL
  /\ UNCHANGED <<faucet_claims, sent, minted, calls>>

Init ==
  /\ now \in Times
  /\ faucet_claims = [w \in Wallets |-> NoClaim]
  /\ sent = {} /\ minted = {}
  /\ calls = [c \in Calls |->
                [phase |-> "idle", wallet |-> CHOOSE w \in Wallets : TRUE,
                 now |-> 0, prev |-> NoClaim]]

Claim(c) ==
  \/ \E w \in Wallets : ReadClaim(c, w)
  \/ Reserve(c) \/ Send(c) \/ Confirm(c) \/ RecordSignature(c) \/ Undo(c)

Next ==
  \/ \E c \in Calls : Claim(c)
  \/ \E tx \in sent : Land(tx)
  \/ Restart \/ Tick

Spec == Init /\ [][Next]_vars

-----------------------------------------------------------------------------
(* Properties *)

\* A row holds the time of a claim; a mint is of a call that sent it.
TypeOK ==
  /\ now \in Times
  /\ faucet_claims \in [Wallets -> Times \cup {NoClaim}]
  /\ \A c \in Calls : calls[c].phase \in Phases /\ calls[c].prev \in Times \cup {NoClaim}
  /\ \A m \in minted : \E tx \in sent : tx.call = m.call /\ m.at <= tx.expires

\* A wallet's claim is held by one call at a time, however many of them read the
\* row before any of them reserved it (faucet.ts:3).
ReservedByOne ==
  \A c, d \in Calls :
    Reserving(c) /\ Reserving(d) /\ calls[c].wallet = calls[d].wallet => c = d

\* Two mints to a wallet within 24 hours take a claim that answered with an
\* error: claims that succeed, or are still being served, are a day apart.
ExtraMintOnlyAfterFailure ==
  \A m, n \in minted :
    /\ m # n /\ m.wallet = n.wallet
    /\ calls[m.call].phase # "failed" /\ calls[n.call].phase # "failed"
    => calls[m.call].now - calls[n.call].now \notin
         (1 - FAUCET_COOLDOWN_SECS)..(FAUCET_COOLDOWN_SECS - 1)

\* A claim that succeeded is never forgotten by one that fails: the row still
\* holds it, or a later claim's time.
SuccessRemembered ==
  \A c \in Calls : calls[c].phase = "ok" =>
    LET claimed == faucet_claims[calls[c].wallet]
    IN  claimed # NoClaim /\ claimed >= calls[c].now
=============================================================================

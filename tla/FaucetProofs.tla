---------------------------- MODULE FaucetProofs ----------------------------
(*****************************************************************************)
(* The faucet's claims, for any number of wallets and calls and any clock on *)
(* which a call is over within the cooldown: one call at a time holds a      *)
(* wallet's claim, claims that did not fail are a day apart, and a failure   *)
(* never forgets a success.                                                  *)
(*****************************************************************************)
EXTENDS Faucet, TLAPS

IsCall(r) ==
  r \in [phase : Phases, wallet : {r.wallet}, now : Nat, prev : Times \cup {NoClaim}]

Typed ==
  /\ now \in Times
  /\ faucet_claims \in [Wallets -> Times \cup {NoClaim}]
  /\ calls = [c \in Calls |-> calls[c]]
  /\ \A c \in Calls :
       /\ IsCall(calls[c])
       /\ calls[c].phase # "idle" => calls[c].wallet \in Wallets /\ calls[c].now \in Times

Timely ==
  \A c \in Calls :
    /\ calls[c].now <= now
    /\ Running(c) => now <= calls[c].now + MAX_CALL

\* A call found the row free, or a day old.
Cooled ==
  \A c \in Calls :
    Reserving(c) \/ calls[c].phase = "reserve" =>
      calls[c].prev = NoClaim \/ calls[c].now - calls[c].prev >= FAUCET_COOLDOWN_SECS

\* While a call holds its wallet's claim, the row is that claim.
RowIsClaim ==
  \A c \in Calls : Reserving(c) => faucet_claims[calls[c].wallet] = calls[c].now

\* What the catch block would put back is no older than any success.
UndoRemembers ==
  \A c, d \in Calls :
    Reserving(c) /\ calls[d].phase = "ok" /\ calls[c].wallet = calls[d].wallet =>
      calls[c].prev # NoClaim /\ calls[c].prev >= calls[d].now

\* The claims that have not failed.
Standing(c) == Reserving(c) \/ calls[c].phase = "ok"
ClaimsApart ==
  \A c, d \in Calls :
    Standing(c) /\ Standing(d) /\ calls[c].wallet = calls[d].wallet /\ c # d =>
      calls[c].now - calls[d].now \notin
        (1 - FAUCET_COOLDOWN_SECS)..(FAUCET_COOLDOWN_SECS - 1)

\* A mint is of one call, which held the claim when it was sent.
MintsAreSent ==
  /\ \A tx \in sent : /\ tx.call \in Calls /\ tx.wallet = calls[tx.call].wallet
                      /\ Standing(tx.call) \/ calls[tx.call].phase = "failed"
  /\ \A m \in minted : \E tx \in sent : m.call = tx.call /\ m.wallet = tx.wallet
  /\ \A m, n \in minted : m.call = n.call => m = n

Claims == Typed /\ Timely /\ Cooled /\ RowIsClaim /\ UndoRemembers /\ ClaimsApart
            /\ SuccessRemembered
IInv == Claims /\ ReservedByOne /\ MintsAreSent

-----------------------------------------------------------------------------
(* Lemmas *)

LEMMA ConstantFacts ==
  /\ FAUCET_COOLDOWN_SECS \in Nat /\ MAX_CALL \in Nat /\ MAX_CALL < FAUCET_COOLDOWN_SECS
  /\ Times \subseteq Nat /\ NoClaim \notin Times
  BY FaucetAssumption, CooldownAssumption, UnitAssumption DEF FAUCET_COOLDOWN_SECS

\* A call goes on to another phase with the rest of its record.
LEMMA Moved ==
  ASSUME Typed, NEW c \in Calls, NEW p \in Phases, Goto(c, p)
  PROVE  /\ calls' = [d \in Calls |-> calls'[d]]
         /\ \A d \in Calls : /\ IsCall(calls'[d])
                             /\ calls'[d].wallet = calls[d].wallet
                             /\ calls'[d].now = calls[d].now
                             /\ calls'[d].prev = calls[d].prev
                             /\ d # c => calls'[d] = calls[d]
         /\ calls'[c].phase = p
<1> DEFINE r == [calls[c] EXCEPT !.phase = p]
<1>1. /\ IsCall(r) /\ r.phase = p /\ r.wallet = calls[c].wallet /\ r.now = calls[c].now
      /\ r.prev = calls[c].prev
  BY DEF Typed, IsCall
<1>2. calls' = [calls EXCEPT ![c] = r]
  BY DEF Goto
<1> HIDE DEF r
<1>3. calls'[c] = r /\ \A d \in Calls \ {c} : calls'[d] = calls[d]
  BY <1>2 DEF Typed
<1> QED BY <1>1, <1>2, <1>3 DEF Typed

\* A wallet whose claim is held by a call cannot be reserved by another: the
\* other would have had to find that claim a day old.
LEMMA HeldIsNotFree ==
  ASSUME IInv, NEW c \in Calls, NEW d \in Calls, Reserving(c),
         calls[d].phase = "reserve", calls[d].wallet = calls[c].wallet
  PROVE  faucet_claims[calls[d].wallet] # calls[d].prev
<1> SUFFICES ASSUME faucet_claims[calls[d].wallet] = calls[d].prev PROVE FALSE
  OBVIOUS
<1>1. calls[d].prev = calls[c].now /\ calls[c].now \in Times
  BY DEF IInv, Claims, RowIsClaim, Typed, Reserving
<1>2. calls[d].now - calls[c].now >= FAUCET_COOLDOWN_SECS
  BY <1>1, ConstantFacts DEF IInv, Claims, Cooled
<1>3. calls[d].now <= now /\ now <= calls[c].now + MAX_CALL
  BY DEF IInv, Claims, Timely, Running, Reserving, Ended
<1>4. calls[d].now \in Nat /\ calls[c].now \in Nat /\ now \in Nat
  BY ConstantFacts DEF IInv, Claims, Typed, IsCall
<1> QED BY <1>2, <1>3, <1>4, ConstantFacts

\* A call that holds its claim, or fails to get it, moves on; the rows stay.
LEMMA CallMoves ==
  ASSUME IInv, NEW c \in Calls, NEW p \in Phases, Goto(c, p), now' = now,
         faucet_claims' = faucet_claims,
         \/ Reserving(c) /\ p \in {"confirm", "record", "undo", "ok", "failed"}
         \/ p = "refused" /\ calls[c].phase = "reserve"
  PROVE  Claims' /\ ReservedByOne'
<1>1. /\ calls' = [d \in Calls |-> calls'[d]]
      /\ \A d \in Calls : /\ IsCall(calls'[d])
                          /\ calls'[d].wallet = calls[d].wallet
                          /\ calls'[d].now = calls[d].now
                          /\ calls'[d].prev = calls[d].prev
                          /\ d # c => calls'[d] = calls[d]
      /\ calls'[c].phase = p
  BY Moved DEF IInv, Claims
<1>2. /\ Running(c) /\ calls[c].phase # "idle"
      /\ \A d \in Calls : /\ Reserving(d)' => Reserving(d)
                          /\ Running(d)' => Running(d)
                          /\ calls'[d].phase = "ok" => calls[d].phase = "ok" \/ Reserving(d)
                          /\ Standing(d)' => Standing(d)
                          /\ calls'[d].phase = "reserve" => calls[d].phase = "reserve"
  BY <1>1 DEF Reserving, Running, Ended, Standing
<1>3. Typed'
  BY <1>1, <1>2 DEF IInv, Claims, Typed
<1>4. Timely' /\ Cooled' /\ RowIsClaim'
  BY <1>1, <1>2 DEF IInv, Claims, Timely, Cooled, RowIsClaim
<1>5. UndoRemembers'
  BY <1>1, <1>2 DEF IInv, Claims, UndoRemembers, ReservedByOne, Reserving
<1>6. ClaimsApart'
  BY <1>1, <1>2 DEF IInv, Claims, ClaimsApart
<1>7. SuccessRemembered'
  BY <1>1, <1>2, ConstantFacts DEF IInv, Claims, SuccessRemembered, RowIsClaim, Typed, Standing
<1>8. ReservedByOne'
  BY <1>1, <1>2 DEF IInv, ReservedByOne
<1> QED BY <1>3, <1>4, <1>5, <1>6, <1>7, <1>8 DEF Claims

\* A call writes its row, which is as the call read it: a new claim, free or a day
\* after the last.
LEMMA CallReserves ==
  ASSUME IInv, NEW c \in Calls, calls[c].phase = "reserve", Goto(c, "send"), now' = now,
         faucet_claims[calls[c].wallet] = calls[c].prev,
         faucet_claims' = [faucet_claims EXCEPT ![calls[c].wallet] = calls[c].now]
  PROVE  Claims' /\ ReservedByOne'
<1>1. /\ calls' = [d \in Calls |-> calls'[d]]
      /\ \A d \in Calls : /\ IsCall(calls'[d])
                          /\ calls'[d].wallet = calls[d].wallet
                          /\ calls'[d].now = calls[d].now
                          /\ calls'[d].prev = calls[d].prev
                          /\ d # c => calls'[d] = calls[d]
      /\ calls'[c].phase = "send"
  BY Moved DEF IInv, Claims, Phases
<1>2. /\ Reserving(c)' /\ Running(c)
      /\ \A d \in Calls \ {c} : (Reserving(d)' <=> Reserving(d)) /\ (Running(d)' <=> Running(d))
  BY <1>1 DEF Reserving, Running, Ended
<1>3. \A d \in Calls : ~(Reserving(d) /\ calls[d].wallet = calls[c].wallet)
  BY HeldIsNotFree
<1>4. /\ calls[c].wallet \in Wallets /\ calls[c].now \in Times
      /\ faucet_claims'[calls[c].wallet] = calls[c].now
      /\ \A w \in Wallets \ {calls[c].wallet} : faucet_claims'[w] = faucet_claims[w]
      /\ faucet_claims' \in [Wallets -> Times \cup {NoClaim}]
  BY DEF IInv, Claims, Typed
<1>5. Typed'
  BY <1>1, <1>4 DEF IInv, Claims, Typed
<1>6. Timely'
  BY <1>1, <1>2 DEF IInv, Claims, Timely
<1>7. Cooled'
  BY <1>1, <1>2 DEF IInv, Claims, Cooled
<1>8. RowIsClaim'
  <2> SUFFICES ASSUME NEW d \in Calls, Reserving(d)'
               PROVE  faucet_claims'[calls'[d].wallet] = calls'[d].now
    BY DEF RowIsClaim
  <2>1. CASE d = c
    BY <2>1, <1>1, <1>4
  <2>2. CASE d # c
    <3>1. Reserving(d) /\ calls[d].wallet \in Wallets \ {calls[c].wallet}
      BY <2>2, <1>2, <1>3 DEF IInv, Claims, Typed, Reserving
    <3> QED BY <3>1, <2>2, <1>1, <1>4 DEF IInv, Claims, RowIsClaim
  <2> QED BY <2>1, <2>2
\* A success on this wallet is no later than the row the call had read.
<1>9. ASSUME NEW d \in Calls, calls[d].phase = "ok", calls[d].wallet = calls[c].wallet
      PROVE  /\ calls[c].prev # NoClaim /\ calls[c].prev >= calls[d].now
             /\ calls[c].now - calls[d].now >= FAUCET_COOLDOWN_SECS
  <2>1. calls[c].prev # NoClaim /\ calls[c].prev >= calls[d].now
    BY <1>9 DEF IInv, Claims, SuccessRemembered
  <2>2. calls[c].now - calls[c].prev >= FAUCET_COOLDOWN_SECS
    BY <2>1 DEF IInv, Claims, Cooled
  <2>3. calls[c].prev \in Nat /\ calls[c].now \in Nat /\ calls[d].now \in Nat
    BY <2>1, ConstantFacts DEF IInv, Claims, Typed, IsCall
  <2> QED BY <2>1, <2>2, <2>3, ConstantFacts
<1>10. UndoRemembers'
  <2> SUFFICES ASSUME NEW d \in Calls, NEW e \in Calls, Reserving(d)', calls'[e].phase = "ok",
                      calls'[d].wallet = calls'[e].wallet
               PROVE  calls'[d].prev # NoClaim /\ calls'[d].prev >= calls'[e].now
    BY DEF UndoRemembers
  <2>1. e # c /\ calls'[e] = calls[e]
    BY <1>1
  <2>2. CASE d = c
    BY <2>1, <2>2, <1>1, <1>9
  <2>3. CASE d # c
    BY <2>1, <2>3, <1>1, <1>2 DEF IInv, Claims, UndoRemembers
  <2> QED BY <2>2, <2>3
<1>11. ClaimsApart'
  <2>1. ASSUME NEW d \in Calls \ {c}, Standing(d), calls[d].wallet = calls[c].wallet
        PROVE  /\ calls[d].now - calls[c].now \notin
                    (1 - FAUCET_COOLDOWN_SECS)..(FAUCET_COOLDOWN_SECS - 1)
               /\ calls[c].now - calls[d].now \notin
                    (1 - FAUCET_COOLDOWN_SECS)..(FAUCET_COOLDOWN_SECS - 1)
    <3>1. calls[c].now - calls[d].now >= FAUCET_COOLDOWN_SECS
      BY <2>1, <1>3, <1>9 DEF Standing
    <3>2. calls[c].now \in Nat /\ calls[d].now \in Nat
      BY DEF IInv, Claims, Typed, IsCall
    <3> QED BY <3>1, <3>2, ConstantFacts
  <2>2. \A d \in Calls \ {c} : Standing(d)' <=> Standing(d)
    BY <1>1, <1>2 DEF Standing
  <2> QED BY <2>1, <2>2, <1>1 DEF IInv, Claims, ClaimsApart
<1>12. SuccessRemembered'
  <2> SUFFICES ASSUME NEW d \in Calls, calls'[d].phase = "ok"
               PROVE  /\ faucet_claims'[calls'[d].wallet] # NoClaim
                      /\ faucet_claims'[calls'[d].wallet] >= calls'[d].now
    BY DEF SuccessRemembered
  <2>1. d # c /\ calls'[d] = calls[d] /\ calls[d].wallet \in Wallets
    BY <1>1 DEF IInv, Claims, Typed
  <2>2. CASE calls[d].wallet = calls[c].wallet
    <3>1. calls[c].now >= calls[d].now
      BY <2>1, <2>2, <1>9, ConstantFacts DEF IInv, Claims, Typed, IsCall
    <3> QED BY <2>1, <2>2, <3>1, <1>4, ConstantFacts
  <2>3. CASE calls[d].wallet # calls[c].wallet
    BY <2>1, <2>3, <1>4 DEF IInv, Claims, SuccessRemembered
  <2> QED BY <2>2, <2>3
<1>13. ReservedByOne'
  BY <1>1, <1>2, <1>3 DEF IInv, ReservedByOne
<1> QED BY <1>5, <1>6, <1>7, <1>8, <1>10, <1>11, <1>12, <1>13 DEF Claims

\* The catch block gives the claim back: the row forgets this call and no success.
LEMMA CallUndoes ==
  ASSUME IInv, NEW c \in Calls, calls[c].phase = "undo", Goto(c, "failed"), now' = now,
         faucet_claims' = [faucet_claims EXCEPT ![calls[c].wallet] = calls[c].prev]
  PROVE  Claims' /\ ReservedByOne'
<1>1. /\ calls' = [d \in Calls |-> calls'[d]]
      /\ \A d \in Calls : /\ IsCall(calls'[d])
                          /\ calls'[d].wallet = calls[d].wallet
                          /\ calls'[d].now = calls[d].now
                          /\ calls'[d].prev = calls[d].prev
                          /\ d # c => calls'[d] = calls[d]
      /\ calls'[c].phase = "failed"
  BY Moved DEF IInv, Claims, Phases
<1>2. /\ Reserving(c) /\ Running(c)
      /\ \A d \in Calls : /\ Reserving(d)' <=> Reserving(d) /\ d # c
                          /\ Running(d)' => Running(d)
                          /\ Standing(d)' => Standing(d) /\ d # c
                          /\ calls'[d].phase = "ok" <=> calls[d].phase = "ok"
  BY <1>1 DEF Reserving, Running, Ended, Standing
<1>3. /\ calls[c].wallet \in Wallets
      /\ faucet_claims'[calls[c].wallet] = calls[c].prev
      /\ \A w \in Wallets \ {calls[c].wallet} : faucet_claims'[w] = faucet_claims[w]
      /\ faucet_claims' \in [Wallets -> Times \cup {NoClaim}]
  BY DEF IInv, Claims, Typed, IsCall
<1>4. Typed' /\ Timely' /\ Cooled'
  BY <1>1, <1>2, <1>3 DEF IInv, Claims, Typed, Timely, Cooled
<1>5. RowIsClaim'
  <2> SUFFICES ASSUME NEW d \in Calls, Reserving(d)'
               PROVE  faucet_claims'[calls'[d].wallet] = calls'[d].now
    BY DEF RowIsClaim
  <2>1. Reserving(d) /\ d # c /\ calls'[d] = calls[d]
    BY <1>1, <1>2
  <2>2. calls[d].wallet \in Wallets \ {calls[c].wallet}
    BY <2>1, <1>2 DEF IInv, Claims, Typed, ReservedByOne, Reserving
  <2> QED BY <2>1, <2>2, <1>3 DEF IInv, Claims, RowIsClaim
<1>6. UndoRemembers' /\ ClaimsApart'
  BY <1>1, <1>2 DEF IInv, Claims, UndoRemembers, ClaimsApart
<1>7. SuccessRemembered'
  <2> SUFFICES ASSUME NEW d \in Calls, calls'[d].phase = "ok"
               PROVE  /\ faucet_claims'[calls'[d].wallet] # NoClaim
                      /\ faucet_claims'[calls'[d].wallet] >= calls'[d].now
    BY DEF SuccessRemembered
  <2>1. d # c /\ calls'[d] = calls[d] /\ calls[d].phase = "ok" /\ calls[d].wallet \in Wallets
    BY <1>1 DEF IInv, Claims, Typed
  <2>2. CASE calls[d].wallet = calls[c].wallet
    BY <2>1, <2>2, <1>2, <1>3 DEF IInv, Claims, UndoRemembers
  <2>3. CASE calls[d].wallet # calls[c].wallet
    BY <2>1, <2>3, <1>3 DEF IInv, Claims, SuccessRemembered
  <2> QED BY <2>2, <2>3
<1>8. ReservedByOne'
  BY <1>1, <1>2 DEF IInv, ReservedByOne
<1> QED BY <1>4, <1>5, <1>6, <1>7, <1>8 DEF Claims

-----------------------------------------------------------------------------
(* The invariant *)

LEMMA InitIInv == Init => IInv
<1> SUFFICES ASSUME Init PROVE IInv
  OBVIOUS
<1>1. \A c \in Calls : /\ calls[c].phase = "idle" /\ calls[c].now = 0
                       /\ ~Running(c) /\ ~Reserving(c) /\ ~Standing(c)
  BY DEF Init, Running, Reserving, Standing
<1>2. Typed
  BY DEF Init, Typed, IsCall, Phases
<1>3. Timely
  BY <1>1, ConstantFacts DEF Init, Timely
<1> QED BY <1>1, <1>2, <1>3
    DEF Init, IInv, Claims, Cooled, RowIsClaim, UndoRemembers, ClaimsApart, SuccessRemembered,
        ReservedByOne, MintsAreSent

\* The sent transactions and the mints keep their calls if no call goes back.
LEMMA SentKept ==
  ASSUME IInv, minted' = minted, sent \subseteq sent',
         \A d \in Calls : /\ calls'[d].wallet = calls[d].wallet
                          /\ Standing(d) \/ calls[d].phase = "failed" =>
                               Standing(d)' \/ calls'[d].phase = "failed",
         \A tx \in sent' \ sent : /\ tx.call \in Calls /\ tx.wallet = calls'[tx.call].wallet
                                  /\ Standing(tx.call)' \/ calls'[tx.call].phase = "failed"
  PROVE  MintsAreSent'
  BY DEF IInv, MintsAreSent

LEMMA NextIInv == IInv /\ [Next]_vars => IInv'
<1> SUFFICES ASSUME IInv, [Next]_vars PROVE IInv'
  OBVIOUS
<1>1. ASSUME NEW c \in Calls, NEW w \in Wallets, ReadClaim(c, w) PROVE IInv'
  <2> DEFINE prev == faucet_claims[w]
             too_early == prev # NoClaim /\ now - prev < FAUCET_COOLDOWN_SECS
             r == [phase |-> IF too_early THEN "refused" ELSE "reserve",
                   wallet |-> w, now |-> now, prev |-> prev]
  <2>1. /\ calls[c].phase = "idle" /\ calls' = [calls EXCEPT ![c] = r]
        /\ UNCHANGED <<now, faucet_claims, sent, minted>>
    BY <1>1 DEF ReadClaim
  <2>2. prev \in Times \cup {NoClaim} /\ now \in Times /\ now \in Nat
    BY ConstantFacts DEF IInv, Claims, Typed
  <2>3. /\ IsCall(r) /\ r.wallet = w /\ r.now = now /\ r.prev = prev
        /\ r.phase \in {"refused", "reserve"} /\ (r.phase = "reserve" => ~too_early)
    BY <2>2 DEF IsCall, Phases
  <2>4. r.phase = "reserve" => r.prev = NoClaim \/ r.now - r.prev >= FAUCET_COOLDOWN_SECS
    <3>1. prev # NoClaim => prev \in Nat
      BY <2>2, ConstantFacts
    <3> QED BY <2>2, <2>3, <3>1, ConstantFacts
  <2> HIDE DEF r
  <2>5. /\ calls' = [d \in Calls |-> calls'[d]] /\ calls'[c] = r
        /\ \A d \in Calls \ {c} : calls'[d] = calls[d]
    BY <2>1 DEF IInv, Claims, Typed
  <2>6. /\ ~Reserving(c) /\ ~Reserving(c)' /\ ~Standing(c) /\ ~Standing(c)'
        /\ \A d \in Calls \ {c} : /\ Reserving(d)' <=> Reserving(d)
                                  /\ Running(d)' <=> Running(d)
                                  /\ Standing(d)' <=> Standing(d)
    BY <2>1, <2>3, <2>5 DEF Reserving, Running, Standing
  <2>7. Typed'
    BY <2>1, <2>2, <2>3, <2>5 DEF IInv, Claims, Typed
  <2>8. Timely' /\ Cooled'
    BY <2>1, <2>2, <2>3, <2>5, <2>6, <2>4, ConstantFacts
    DEF IInv, Claims, Timely, Cooled, Running
  <2>9. RowIsClaim' /\ UndoRemembers' /\ ClaimsApart' /\ SuccessRemembered' /\ ReservedByOne'
    BY <2>1, <2>3, <2>5, <2>6
    DEF IInv, Claims, RowIsClaim, UndoRemembers, ClaimsApart, SuccessRemembered, ReservedByOne
  <2>10. MintsAreSent'
    BY <2>1, <2>5, <2>6 DEF IInv, MintsAreSent
  <2> QED BY <2>7, <2>8, <2>9, <2>10 DEF IInv, Claims
<1>2. ASSUME NEW c \in Calls, NEW p \in Phases, Goto(c, p), minted' = minted, sent \subseteq sent',
             Claims', ReservedByOne', Reserving(c) \/ calls[c].phase = "reserve",
             Reserving(c) => p \in {"confirm", "record", "undo", "ok", "failed"},
             \A tx \in sent' \ sent : /\ tx.call = c /\ tx.wallet = calls[c].wallet
                                      /\ p \in {"confirm", "undo"}
      PROVE  IInv'
  <2>1. /\ \A d \in Calls : /\ calls'[d].wallet = calls[d].wallet
                            /\ d # c => calls'[d] = calls[d]
        /\ calls'[c].phase = p
    BY <1>2, Moved DEF IInv, Claims
  <2>2. MintsAreSent'
    BY <1>2, <2>1, SentKept DEF Standing, Reserving
  <2> QED BY <1>2, <2>2 DEF IInv
<1>3. ASSUME NEW c \in Calls, Reserve(c) PROVE IInv'
  <2>1. CASE faucet_claims[calls[c].wallet] = calls[c].prev
    <3>1. Claims' /\ ReservedByOne'
      BY <1>3, <2>1, CallReserves DEF Reserve
    <3> QED BY <1>3, <2>1, <3>1, <1>2 DEF Reserve, Phases, Reserving
  <2>2. CASE faucet_claims[calls[c].wallet] # calls[c].prev
    <3>1. faucet_claims' = faucet_claims
      BY <1>3, <2>2 DEF Reserve, IInv, Claims, Typed
    <3>2. Claims' /\ ReservedByOne'
      BY <1>3, <2>2, <3>1, CallMoves DEF Reserve, Phases
    <3> QED BY <1>3, <2>2, <3>2, <1>2 DEF Reserve, Phases, Reserving
  <2> QED BY <2>1, <2>2
<1>4. ASSUME NEW c \in Calls, Send(c) PROVE IInv'
  <2>1. PICK p \in {"confirm", "undo"} : Goto(c, p)
    BY <1>4 DEF Send
  <2>2. Reserving(c) /\ p \in Phases /\ now' = now /\ faucet_claims' = faucet_claims
        /\ minted' = minted
    BY <1>4 DEF Send, Reserving, Phases
  <2>3. sent \subseteq sent' /\ \A tx \in sent' \ sent : tx.call = c /\ tx.wallet = calls[c].wallet
    BY <1>4 DEF Send
  <2>4. Claims' /\ ReservedByOne'
    BY <2>1, <2>2, CallMoves
  <2> QED BY <2>1, <2>2, <2>3, <2>4, <1>2
<1>5. ASSUME NEW c \in Calls, Confirm(c) \/ RecordSignature(c) PROVE IInv'
  <2>1. PICK p \in {"record", "undo", "ok"} : Goto(c, p)
    BY <1>5 DEF Confirm, RecordSignature
  <2>2. /\ Reserving(c) /\ p \in Phases
        /\ UNCHANGED <<now, faucet_claims, sent, minted>>
    BY <1>5 DEF Confirm, RecordSignature, Reserving, Phases
  <2>3. Claims' /\ ReservedByOne'
    BY <2>1, <2>2, CallMoves
  <2> QED BY <2>1, <2>2, <2>3, <1>2
<1>6. ASSUME NEW c \in Calls, Undo(c) PROVE IInv'
  <2>1. /\ Reserving(c) /\ Goto(c, "failed") /\ "failed" \in Phases
        /\ UNCHANGED <<now, sent, minted>>
    BY <1>6 DEF Undo, Reserving, Phases
  <2>2. Claims' /\ ReservedByOne'
    <3>1. CASE faucet_claims' = faucet_claims
      BY <2>1, <3>1, CallMoves
    <3>2. CASE faucet_claims' = [faucet_claims EXCEPT ![calls[c].wallet] = calls[c].prev]
      BY <1>6, <2>1, <3>2, CallUndoes DEF Undo
    <3> QED BY <1>6, <3>1, <3>2 DEF Undo
  <2> QED BY <2>1, <2>2, <1>2
<1>7. ASSUME NEW tx \in sent, Land(tx) PROVE IInv'
  <2>1. MintsAreSent'
    BY <1>7 DEF Land, IInv, MintsAreSent, Standing, Reserving
  <2> QED BY <1>7, <2>1
      DEF Land, IInv, Claims, Typed, IsCall, Timely, Running, Cooled, RowIsClaim, UndoRemembers,
          ClaimsApart, Standing, Reserving, SuccessRemembered, ReservedByOne
<1>8. CASE Restart
  <2>1. \A c \in Calls : LET r == [calls[c] EXCEPT !.phase = "failed"]
                         IN  /\ IsCall(r) /\ r.phase = "failed" /\ r.wallet = calls[c].wallet
                             /\ r.now = calls[c].now /\ r.prev = calls[c].prev
    BY DEF IInv, Claims, Typed, IsCall, Phases
  <2>2. /\ calls' = [c \in Calls |-> calls'[c]]
        /\ \A c \in Calls : /\ IsCall(calls'[c]) /\ calls'[c].wallet = calls[c].wallet
                            /\ calls'[c].now = calls[c].now /\ calls'[c].prev = calls[c].prev
                            /\ Running(c) => calls'[c].phase = "failed"
                            /\ ~Running(c) => calls'[c].phase = calls[c].phase
        /\ UNCHANGED <<now, faucet_claims, sent, minted>>
    BY <1>8, <2>1 DEF Restart, IInv, Claims, Typed
  <2>3. \A c \in Calls : /\ ~Running(c)' /\ ~Reserving(c)' /\ calls'[c].phase # "reserve"
                         /\ calls'[c].phase = "ok" <=> calls[c].phase = "ok"
                         /\ Standing(c)' => Standing(c)
                         /\ Standing(c) \/ calls[c].phase = "failed" =>
                              Standing(c)' \/ calls'[c].phase = "failed"
                         /\ calls'[c].phase # "idle" => calls[c].phase # "idle"
    BY <2>2 DEF Running, Ended, Reserving, Standing
  <2>4. Typed' /\ Timely' /\ Cooled' /\ RowIsClaim' /\ UndoRemembers'
    BY <2>2, <2>3 DEF IInv, Claims, Typed, Timely, Cooled, RowIsClaim, UndoRemembers
  <2>5. ClaimsApart' /\ SuccessRemembered' /\ ReservedByOne'
    BY <2>2, <2>3 DEF IInv, Claims, ClaimsApart, SuccessRemembered, ReservedByOne
  <2>6. MintsAreSent'
    BY <2>2, <2>3, SentKept
  <2> QED BY <2>4, <2>5, <2>6 DEF IInv, Claims
<1>9. CASE Tick
  <2>1. /\ now' \in Times /\ now' > now /\ UNCHANGED <<faucet_claims, sent, minted, calls>>
        /\ \A c \in Calls : Running(c) => now' - calls[c].now <= MAX_CALL
    BY <1>9 DEF Tick
  <2>2. Typed'
    BY <2>1 DEF IInv, Claims, Typed, IsCall
  <2>3. Timely'
    BY <2>1, ConstantFacts DEF IInv, Claims, Timely, Typed, IsCall, Running
  <2> QED BY <2>1, <2>2, <2>3
      DEF IInv, Claims, Cooled, RowIsClaim, UndoRemembers, ClaimsApart, Standing, Reserving,
          SuccessRemembered, ReservedByOne, MintsAreSent
<1>10. CASE UNCHANGED vars
  BY <1>10
  DEF vars, IInv, Claims, Typed, IsCall, Timely, Running, Cooled, RowIsClaim, UndoRemembers,
      ClaimsApart, Standing, Reserving, SuccessRemembered, ReservedByOne, MintsAreSent
<1> QED BY <1>1, <1>3, <1>4, <1>5, <1>6, <1>7, <1>8, <1>9, <1>10 DEF Next, Claim

LEMMA Inductive == Spec => []IInv
  BY InitIInv, NextIInv, PTL DEF Spec

-----------------------------------------------------------------------------
(* The theorems *)

\* However many calls read a wallet's row before any of them reserved it, one at a
\* time holds its claim (faucet.ts:3).
THEOREM OneClaimAtATime == Spec => []ReservedByOne
<1>1. IInv => ReservedByOne
  BY DEF IInv
<1> QED BY <1>1, Inductive, PTL

\* A claim that fails and is given back never forgets one that succeeded.
THEOREM SuccessNeverForgotten == Spec => []SuccessRemembered
<1>1. IInv => SuccessRemembered
  BY DEF IInv, Claims
<1> QED BY <1>1, Inductive, PTL

\* Two mints to a wallet within a day take a claim that answered with an error:
\* behind a mint stands a call, and calls that did not fail are a day apart.
THEOREM ExtraMintNeedsFailure == Spec => []ExtraMintOnlyAfterFailure
<1>1. ASSUME IInv PROVE ExtraMintOnlyAfterFailure
  <2> SUFFICES ASSUME NEW m \in minted, NEW n \in minted, m # n, m.wallet = n.wallet,
                      calls[m.call].phase # "failed", calls[n.call].phase # "failed"
               PROVE  calls[m.call].now - calls[n.call].now \notin
                        (1 - FAUCET_COOLDOWN_SECS)..(FAUCET_COOLDOWN_SECS - 1)
    BY DEF ExtraMintOnlyAfterFailure
  <2>1. m.call # n.call
    BY <1>1 DEF IInv, MintsAreSent
  <2>2. /\ m.call \in Calls /\ Standing(m.call) /\ m.wallet = calls[m.call].wallet
        /\ n.call \in Calls /\ Standing(n.call) /\ n.wallet = calls[n.call].wallet
    BY <1>1 DEF IInv, MintsAreSent
  <2> QED BY <1>1, <2>1, <2>2 DEF IInv, Claims, ClaimsApart
<1> QED BY <1>1, Inductive, PTL
=============================================================================

---------------------------- MODULE ImportProofs -----------------------------
(*****************************************************************************)
(* No outside loan is counted by two imports, for every set of wallets,      *)
(* loans and concurrent calls, however calls, transactions and restarts      *)
(* interleave.                                                               *)
(*                                                                           *)
(* A plan counts the loans closed after the import date it read.  Either     *)
(* that is still the wallet's date when the plan lands, or another import    *)
(* has landed since the call began, and then the plan expires before the     *)
(* cooldown is over (PlanAssumption).                                        *)
(*                                                                           *)
(* What the table makes public is on-chain and stays public, in its place:   *)
(* while a call for an import that landed is served, no other import of the  *)
(* wallet lands (LastLanded), so of the rows it could have been overtaken by *)
(* each has a message that expired long before (Table).                      *)
(*****************************************************************************)
EXTENDS Import, SumTheorems

\* A call has the fields Idle has, whatever they hold.
IsCall(r) ==
  r \in [phase : {r.phase}, wallet : {r.wallet}, started : {r.started}, read : {r.read},
         scored : {r.scored}, dropped : {r.dropped}, message : {r.message},
         seen : {r.seen}, doomed : {r.doomed}, id : {r.id}]

\* A plan can land only while no loan it counts was counted before.
PlanOk(m) ==
  LET date == import_date[m.wallet]
  IN  /\ m.wallet \in Wallets
      /\ m.expires \in Nat /\ m.expires <= now + TX_LIFETIME
      /\ m.fresh \subseteq Loans
      /\ \A l \in m.fresh :
           /\ Owner[l] = m.wallet /\ closed_at[l] # 0
           /\ \/ date \in {NoAccount, 0}
              \/ closed_at[l] > date
              \/ m.expires - date < IMPORT_COOLDOWN_SECS

\* The import date a call read is the wallet's, or an import landed since.
ReadOk(r) ==
  LET date == import_date[r.wallet]
  IN  /\ r.wallet \in Wallets
      /\ r.read \in Nat \cup {NoAccount}
      /\ date = r.read \/ date = 0 \/ (date \in Nat /\ r.started <= date)

CallOk(r) ==
  /\ IsCall(r)
  /\ r.phase # "idle" => r.started \in Nat /\ r.started <= now /\ now - r.started <= MAX_CALL
  /\ r.phase \in {"clock", "history", "blockhash"} => ReadOk(r)
  /\ r.phase = "blockhash" => /\ r.scored \subseteq Loans
                              /\ \A l \in r.scored : Owner[l] = r.wallet /\ closed_at[l] # 0
  /\ r.phase \in {"delete", "blocked", "insert"} => PlanOk(r.message)
  /\ r.phase = "send" => r.message \in issued

Clocks ==
  /\ now \in Nat /\ now # 0
  /\ closed_at \in [Loans -> Nat]
  /\ \A l \in Loans : closed_at[l] <= now
  /\ import_date \in [Wallets -> Nat \cup {NoAccount}]

\* A counted loan was counted once, at an import no earlier than its closing.
Counts ==
  /\ counted = [l \in Loans |-> counted[l]]
  /\ \A l \in Loans :
       \/ counted[l] = 0
       \/ /\ counted[l] = 1 /\ closed_at[l] # 0
          /\ import_date[Owner[l]] \in Nat \ {0}
          /\ closed_at[l] <= import_date[Owner[l]]

Plans == in_flight \subseteq issued /\ \A m \in issued : PlanOk(m)

Serving == calls = [c \in Calls |-> calls[c]] /\ \A c \in Calls : CallOk(calls[c])

\* The inductive invariant.
IInv == Clocks /\ Counts /\ Plans /\ Serving

-----------------------------------------------------------------------------

LEMMA Durations ==
  /\ MAX_CALL \in Nat /\ TX_LIFETIME \in Nat /\ IMPORT_COOLDOWN_SECS \in Nat
  /\ MAX_CALL + TX_LIFETIME < IMPORT_COOLDOWN_SECS
  /\ NoAccount \notin Nat /\ Owner \in [Loans -> Wallets]
  BY UnitAssumption, ImportAssumption, PlanAssumption DEF IMPORT_COOLDOWN_SECS

LEMMA IdleOk == CallOk(Idle)
<1>1. IsCall(Idle) /\ Idle.phase = "idle"
  BY DEF Idle, IsCall
<1> HIDE DEF Idle
<1> QED BY <1>1 DEF CallOk

\* A step of one call that leaves the clock and the chain alone.
LEMMA CallStep ==
  ASSUME IInv, NEW c \in Calls, NEW r, CallOk(r), calls' = [calls EXCEPT ![c] = r],
         UNCHANGED <<now, closed_at, chain>>,
         issued \subseteq issued', in_flight' \subseteq issued', \A m \in issued' : PlanOk(m)
  PROVE  IInv'
<1>1. /\ now' = now /\ closed_at' = closed_at /\ import_date' = import_date
      /\ counted' = counted
  BY DEF chain
<1>2. \A m : PlanOk(m)' <=> PlanOk(m)
  BY <1>1 DEF PlanOk
<1>3. \A s : CallOk(s) => CallOk(s)'
  BY <1>1, <1>2 DEF CallOk, ReadOk
<1>4. Clocks' /\ Counts'
  BY <1>1 DEF IInv, Clocks, Counts
<1>5. Plans'
  BY <1>2 DEF Plans
<1>6. Serving'
  <2>1. calls' = [d \in Calls |-> IF d = c THEN r ELSE calls[d]]
    BY DEF IInv, Serving
  <2>2. \A d \in Calls : CallOk(calls[d])'
    BY <1>3, <2>1 DEF IInv, Serving
  <2> QED BY <2>1, <2>2 DEF Serving
<1> QED BY <1>4, <1>5, <1>6 DEF IInv

\* The same when no plan is issued.
LEMMA QuietCallStep ==
  ASSUME IInv, NEW c \in Calls, NEW r, CallOk(r), calls' = [calls EXCEPT ![c] = r],
         UNCHANGED <<now, closed_at, chain, issued>>, in_flight' \subseteq issued
  PROVE  IInv'
  BY CallStep DEF IInv, Plans

LEMMA ServedOk ==
  ASSUME IInv, NEW c \in Calls
  PROVE  CallOk(calls[c]) /\ IsCall(calls[c]) /\ in_flight \subseteq issued /\ now \in Nat
  BY DEF IInv, Serving, Plans, Clocks, CallOk

-----------------------------------------------------------------------------
(* Preparing *)

LEMMA ReadReputationInv ==
  ASSUME IInv, NEW c \in Calls, NEW w \in Wallets, ReadReputation(c, w)
  PROVE  IInv'
<1> DEFINE r == [Idle EXCEPT !.phase = "clock", !.wallet = w, !.started = now,
                             !.read = import_date[w]]
<1>1. /\ calls' = [calls EXCEPT ![c] = r] /\ UNCHANGED <<now, closed_at, chain, issued, in_flight>>
  BY DEF ReadReputation, Step
<1>2. /\ IsCall(r) /\ r.phase = "clock" /\ r.wallet = w /\ r.started = now
      /\ r.read = import_date[w]
  BY DEF Idle, IsCall
<1> HIDE DEF r
<1>3. import_date[w] \in Nat \cup {NoAccount} /\ now \in Nat /\ now <= now /\ now - now = 0
  BY DEF IInv, Clocks
<1>4. ReadOk(r)
  BY <1>2, <1>3 DEF ReadOk
<1>5. 0 <= MAX_CALL
  BY Durations
<1>6. CallOk(r)
  BY <1>2, <1>3, <1>4, <1>5 DEF CallOk
<1> QED BY <1>1, <1>6, ServedOk, QuietCallStep

LEMMA ReadClockInv ==
  ASSUME IInv, NEW c \in Calls, ReadClock(c)
  PROVE  IInv'
<1> DEFINE call == calls[c]
           r == [call EXCEPT !.phase = "history"]
<1>1. /\ call.phase = "clock"
      /\ calls' = [calls EXCEPT ![c] = r] \/ calls' = [calls EXCEPT ![c] = Idle]
      /\ UNCHANGED <<now, closed_at, chain, issued, in_flight>>
  BY DEF ReadClock, Step
<1>2. CallOk(call) /\ IsCall(call)
  BY ServedOk
<1> HIDE DEF call
<1>3. /\ IsCall(r) /\ r.phase = "history" /\ r.wallet = call.wallet
      /\ r.started = call.started /\ r.read = call.read
  BY <1>2 DEF IsCall
<1> HIDE DEF r
<1>4. CallOk(r)
  BY <1>1, <1>2, <1>3 DEF CallOk, ReadOk
<1> QED BY <1>1, <1>4, IdleOk, ServedOk, QuietCallStep

LEMMA FetchHistoryInv ==
  ASSUME IInv, NEW c \in Calls, FetchHistory(c)
  PROVE  IInv'
<1> DEFINE call == calls[c]
           closed == {l \in Loans : Owner[l] = call.wallet /\ closed_at[l] # 0}
           r(priced) == [call EXCEPT !.phase = "blockhash", !.scored = priced,
                                     !.dropped = closed \ priced]
<1>1. PICK priced \in SUBSET closed : calls' = [calls EXCEPT ![c] = r(priced)]
  BY DEF FetchHistory, Step
<1>2. call.phase = "history" /\ UNCHANGED <<now, closed_at, chain, issued, in_flight>>
  BY DEF FetchHistory
<1>3. CallOk(call) /\ IsCall(call)
  BY ServedOk
<1>4. priced \subseteq Loans /\ \A l \in priced : Owner[l] = call.wallet /\ closed_at[l] # 0
  OBVIOUS
<1> HIDE DEF call, closed
<1> DEFINE q == r(priced)
<1>5. /\ IsCall(q) /\ q.phase = "blockhash" /\ q.wallet = call.wallet
      /\ q.started = call.started /\ q.read = call.read /\ q.scored = priced
  BY <1>3 DEF IsCall
<1>6. calls' = [calls EXCEPT ![c] = q]
  BY <1>1
<1> HIDE DEF q, r
<1>7. CallOk(q)
  BY <1>2, <1>3, <1>4, <1>5 DEF CallOk, ReadOk
<1> QED BY <1>2, <1>6, <1>7, ServedOk, QuietCallStep

\* The plan made against the date that was read can land only against it.
LEMMA BuildTxInv ==
  ASSUME IInv, NEW c \in Calls, BuildTx(c)
  PROVE  IInv'
<1> DEFINE call == calls[c]
           read == IF call.read = NoAccount THEN 0 ELSE call.read
           plan == [wallet |-> call.wallet, needs_init |-> call.read = NoAccount,
                    scored |-> call.scored, fresh |-> {l \in call.scored : IsNewSince(l, read)},
                    expires |-> now + TX_LIFETIME]
           r == [call EXCEPT !.phase = "delete", !.message = plan]
           date == import_date[call.wallet]
<1>1. /\ call.phase = "blockhash" /\ calls' = [calls EXCEPT ![c] = r]
      /\ UNCHANGED <<now, closed_at, chain, issued, in_flight>>
  BY DEF BuildTx, Step
<1>2. CallOk(call) /\ IsCall(call) /\ now \in Nat
  BY ServedOk
<1>3. /\ ReadOk(call) /\ call.scored \subseteq Loans
      /\ \A l \in call.scored : Owner[l] = call.wallet /\ closed_at[l] # 0
      /\ call.started \in Nat /\ call.started <= now /\ now - call.started <= MAX_CALL
  BY <1>1, <1>2 DEF CallOk
<1>4. /\ plan.wallet = call.wallet /\ plan.expires = now + TX_LIFETIME
      /\ \A l \in plan.fresh : l \in call.scored /\ closed_at[l] > read
      /\ plan.fresh \subseteq call.scored
  BY DEF IsNewSince
<1>5. /\ IsCall(r) /\ r.phase = "delete" /\ r.started = call.started /\ r.message = plan
  BY <1>2 DEF IsCall
<1> HIDE DEF r, plan
<1>6. plan.expires \in Nat /\ plan.expires <= now + TX_LIFETIME
  BY <1>2, <1>4, Durations
<1>7. \/ date \in {NoAccount, 0}
      \/ \A l \in plan.fresh : closed_at[l] > date
      \/ plan.expires - date < IMPORT_COOLDOWN_SECS
  <2>1. CASE date = call.read
    <3>1. date # NoAccount => date = read
      BY <2>1
    <3> QED BY <1>4, <3>1
  <2>2. CASE date = 0
    BY <2>2
  <2>3. CASE date \in Nat /\ call.started <= date
    BY <1>2, <1>3, <1>4, <2>3, Durations
  <2> QED BY <1>3, <2>1, <2>2, <2>3 DEF ReadOk
<1>8. PlanOk(plan)
  <2>1. call.wallet \in Wallets
    BY <1>3 DEF ReadOk
  <2> QED BY <1>3, <1>4, <1>6, <1>7, <2>1 DEF PlanOk
<1>9. CallOk(r)
  BY <1>3, <1>5, <1>8 DEF CallOk
<1> QED BY <1>1, <1>9, ServedOk, QuietCallStep

LEMMA DeletePendingInv ==
  ASSUME IInv, NEW c \in Calls, DeletePending(c)
  PROVE  IInv'
<1> DEFINE call == calls[c]
           old == PendingOf(call.wallet)
           r == [call EXCEPT !.phase = "insert", !.doomed = old]
<1>1. /\ call.phase = "delete" /\ calls' = [calls EXCEPT ![c] = r]
      /\ UNCHANGED <<now, closed_at, chain, issued, in_flight>>
  BY DEF DeletePending, Step
<1>2. CallOk(call) /\ IsCall(call)
  BY ServedOk
<1> HIDE DEF call, old
<1>3. /\ IsCall(r) /\ r.phase = "insert" /\ r.started = call.started
      /\ r.message = call.message
  BY <1>2 DEF IsCall
<1> HIDE DEF r
<1>4. CallOk(r)
  BY <1>1, <1>2, <1>3 DEF CallOk
<1> QED BY <1>1, <1>4, ServedOk, QuietCallStep

LEMMA DeleteWaitsInv ==
  ASSUME IInv, NEW c \in Calls, DeleteWaits(c)
  PROVE  IInv'
<1> DEFINE call == calls[c]
           old == PendingOf(call.wallet)
           r == [call EXCEPT !.phase = "blocked", !.seen = old]
<1>1. /\ call.phase = "delete" /\ calls' = [calls EXCEPT ![c] = r]
      /\ UNCHANGED <<now, closed_at, chain, issued, in_flight>>
  BY DEF DeleteWaits, Step
<1>2. CallOk(call) /\ IsCall(call)
  BY ServedOk
<1> HIDE DEF call, old
<1>3. /\ IsCall(r) /\ r.phase = "blocked" /\ r.started = call.started
      /\ r.message = call.message
  BY <1>2 DEF IsCall
<1> HIDE DEF r
<1>4. CallOk(r)
  BY <1>1, <1>2, <1>3 DEF CallOk
<1> QED BY <1>1, <1>4, ServedOk, QuietCallStep

LEMMA DeleteResumesInv ==
  ASSUME IInv, NEW c \in Calls, DeleteResumes(c)
  PROVE  IInv'
<1> DEFINE call == calls[c]
           old == call.seen \cap PendingOf(call.wallet)
           r == [call EXCEPT !.phase = "insert", !.seen = {}, !.doomed = old]
<1>1. /\ call.phase = "blocked" /\ calls' = [calls EXCEPT ![c] = r]
      /\ UNCHANGED <<now, closed_at, chain, issued, in_flight>>
  BY DEF DeleteResumes, Step
<1>2. CallOk(call) /\ IsCall(call)
  BY ServedOk
<1> HIDE DEF call, old
<1>3. /\ IsCall(r) /\ r.phase = "insert" /\ r.started = call.started
      /\ r.message = call.message
  BY <1>2 DEF IsCall
<1> HIDE DEF r
<1>4. CallOk(r)
  BY <1>1, <1>2, <1>3 DEF CallOk
<1> QED BY <1>1, <1>4, ServedOk, QuietCallStep

LEMMA InsertPendingInv ==
  ASSUME IInv, NEW c \in Calls, InsertPending(c)
  PROVE  IInv'
<1> DEFINE m == calls[c].message
<1>1. /\ calls[c].phase = "insert" /\ calls' = [calls EXCEPT ![c] = Idle]
      /\ UNCHANGED <<now, closed_at, chain, in_flight>> /\ issued' = issued \cup {m}
  BY DEF InsertPending, Step
<1>2. PlanOk(m)
  BY <1>1, ServedOk DEF CallOk
<1>3. \A k \in issued' : PlanOk(k)
  BY <1>1, <1>2 DEF IInv, Plans
<1>4. in_flight' \subseteq issued' /\ issued \subseteq issued'
  BY <1>1, ServedOk
<1> QED BY <1>1, <1>3, <1>4, IdleOk, CallStep

-----------------------------------------------------------------------------
(* Submitting *)

LEMMA SubmitInv ==
  ASSUME IInv, NEW c \in Calls, Submit(c)
  PROVE  IInv'
<1> DEFINE call == calls[c]
<1>0. CallOk(call) /\ IsCall(call) /\ in_flight \subseteq issued /\ now \in Nat
  BY ServedOk
<1>1. ASSUME NEW m \in issued, CheckSubmitted(c, m) PROVE IInv'
  <2> DEFINE r(i) == [Idle EXCEPT !.phase = "send", !.wallet = m.wallet, !.started = now,
                                  !.message = m, !.id = i]
  <2>1. PICK row \in imports : calls' = [calls EXCEPT ![c] = r(row.id)]
    BY <1>1 DEF CheckSubmitted, Step
  <2>2. UNCHANGED <<now, closed_at, chain, issued, in_flight>>
    BY <1>1 DEF CheckSubmitted
  <2> DEFINE q == r(row.id)
  <2>3. IsCall(q) /\ q.phase = "send" /\ q.started = now /\ q.message = m
    BY DEF Idle, IsCall
  <2>4. calls' = [calls EXCEPT ![c] = q]
    BY <2>1
  <2> HIDE DEF q, r
  <2>5. now <= now /\ now - now <= MAX_CALL
    BY <1>0, Durations
  <2>6. CallOk(q)
    BY <1>0, <2>3, <2>5 DEF CallOk
  <2> QED BY <1>0, <2>2, <2>4, <2>6, QuietCallStep
<1>2. CASE SendSubmitted(c)
  <2> DEFINE r == [call EXCEPT !.phase = "confirm"]
  <2>1. /\ call.phase = "send"
        /\ calls' = [calls EXCEPT ![c] = r] \/ calls' = [calls EXCEPT ![c] = Idle]
        /\ in_flight' \subseteq in_flight \cup {call.message}
        /\ UNCHANGED <<now, closed_at, chain, issued>>
    BY <1>2 DEF SendSubmitted, Step
  <2>2. in_flight' \subseteq issued
    BY <1>0, <2>1 DEF CallOk
  <2> HIDE DEF call
  <2>3. IsCall(r) /\ r.phase = "confirm" /\ r.started = call.started
    BY <1>0 DEF IsCall
  <2> HIDE DEF r
  <2>4. CallOk(r)
    BY <1>0, <2>1, <2>3 DEF CallOk
  <2> QED BY <2>1, <2>2, <2>4, IdleOk, QuietCallStep
<1>3. CASE SeeConfirmed(c)
  <2> DEFINE r == [call EXCEPT !.phase = "update"]
  <2>1. /\ call.phase = "confirm" /\ calls' = [calls EXCEPT ![c] = r]
        /\ UNCHANGED <<now, closed_at, chain, issued, in_flight>>
    BY <1>3 DEF SeeConfirmed, Step
  <2> HIDE DEF call
  <2>2. IsCall(r) /\ r.phase = "update" /\ r.started = call.started
    BY <1>0 DEF IsCall
  <2> HIDE DEF r
  <2>3. CallOk(r)
    BY <1>0, <2>1, <2>2 DEF CallOk
  <2> QED BY <1>0, <2>1, <2>3, QuietCallStep
<1>4. CASE ConfirmFails(c)
  <2>1. /\ calls' = [calls EXCEPT ![c] = Idle]
        /\ UNCHANGED <<now, closed_at, chain, issued, in_flight>>
    BY <1>4 DEF ConfirmFails, Step
  <2> QED BY <1>0, <2>1, IdleOk, QuietCallStep
<1>5. CASE MarkConfirmed(c)
  <2>1. /\ calls' = [calls EXCEPT ![c] = Idle]
        /\ UNCHANGED <<now, closed_at, chain, issued, in_flight>>
    BY <1>5 DEF MarkConfirmed, Step
  <2> QED BY <1>0, <2>1, IdleOk, QuietCallStep
<1> QED BY <1>1, <1>2, <1>3, <1>4, <1>5 DEF Submit

-----------------------------------------------------------------------------
(* The chain, the network and the clock *)

\* A step of the chain: the clock and the calls stand still and the dates only
\* move to this moment.
LEMMA ChainStep ==
  ASSUME IInv, NEW w \in Wallets, NEW date \in {0, now},
         date = 0 => import_date[w] = NoAccount,
         import_date' = [import_date EXCEPT ![w] = date],
         UNCHANGED <<now, closed_at, issued, in_flight, calls>>
  PROVE  Clocks' /\ Plans' /\ Serving'
<1>1. /\ now \in Nat /\ import_date \in [Wallets -> Nat \cup {NoAccount}]
      /\ now' = now /\ closed_at' = closed_at /\ issued' = issued /\ calls' = calls
  BY DEF IInv, Clocks
<1>2. /\ import_date' \in [Wallets -> Nat \cup {NoAccount}] /\ import_date'[w] = date
      /\ \A v \in Wallets \ {w} : import_date'[v] = import_date[v]
  BY <1>1
<1>3. Clocks'
  BY <1>1, <1>2 DEF IInv, Clocks
<1>4. ASSUME NEW m, PlanOk(m) PROVE PlanOk(m)'
  <2>1. CASE m.wallet # w
    BY <1>1, <1>2, <1>4, <2>1 DEF PlanOk
  <2>2. CASE m.wallet = w /\ date = 0
    BY <1>1, <1>2, <1>4, <2>2 DEF PlanOk
  <2>3. CASE m.wallet = w /\ date = now
    <3>1. m.expires - now < IMPORT_COOLDOWN_SECS
      BY <1>1, <1>4, Durations DEF PlanOk
    <3> QED BY <1>1, <1>2, <1>4, <2>3, <3>1 DEF PlanOk
  <2> QED BY <2>1, <2>2, <2>3
<1>5. ASSUME NEW r, CallOk(r) PROVE CallOk(r)'
  <2>1. ASSUME ReadOk(r), r.phase # "idle" PROVE ReadOk(r)'
    <3>1. CASE r.wallet # w
      BY <1>1, <1>2, <2>1, <3>1 DEF ReadOk
    <3>2. CASE r.wallet = w
      BY <1>1, <1>2, <1>5, <2>1, <3>2 DEF ReadOk, CallOk
    <3> QED BY <3>1, <3>2
  <2> QED BY <1>1, <1>4, <1>5, <2>1 DEF CallOk
<1>6. Plans' /\ Serving'
  BY <1>1, <1>4, <1>5 DEF IInv, Plans, Serving
<1> QED BY <1>3, <1>6

LEMMA LandInv ==
  ASSUME IInv, NEW m \in in_flight, Land(m)
  PROVE  IInv'
<1> DEFINE date == import_date[m.wallet]
<1>1. /\ now <= m.expires /\ CooldownPassed(date)
      /\ import_date' = [import_date EXCEPT ![m.wallet] = now]
      /\ counted' = [l \in Loans |-> counted[l] + IF l \in m.fresh THEN 1 ELSE 0]
      /\ UNCHANGED <<now, closed_at, issued, in_flight, calls>>
  BY DEF Land, Executable
<1>2. PlanOk(m)
  BY DEF IInv, Plans
<1>3. /\ m.wallet \in Wallets /\ m.expires \in Nat /\ now \in Nat /\ now # 0
      /\ import_date \in [Wallets -> Nat \cup {NoAccount}] /\ closed_at \in [Loans -> Nat]
      /\ \A l \in Loans : closed_at[l] <= now
  BY <1>2 DEF PlanOk, IInv, Clocks
<1>4. Clocks' /\ Plans' /\ Serving'
  BY <1>1, <1>3, ChainStep
<1>5. \A l \in m.fresh : counted[l] = 0 /\ closed_at[l] # 0 /\ Owner[l] = m.wallet
  <2> SUFFICES ASSUME NEW l \in m.fresh
               PROVE  counted[l] = 0 /\ closed_at[l] # 0 /\ Owner[l] = m.wallet
    OBVIOUS
  <2>1. l \in Loans /\ Owner[l] = m.wallet /\ closed_at[l] # 0 /\ closed_at[l] \in Nat
    BY <1>2, <1>3 DEF PlanOk
  <2>2. \/ date \in {NoAccount, 0}
        \/ closed_at[l] > date
        \/ m.expires - date < IMPORT_COOLDOWN_SECS
    BY <1>2 DEF PlanOk
  <2>3. date \in {NoAccount, 0} \/ now - date >= IMPORT_COOLDOWN_SECS
    BY <1>1 DEF CooldownPassed
  <2>4. date \in {NoAccount, 0} \/ (date \in Nat /\ closed_at[l] > date)
    <3>1. date \in Nat \cup {NoAccount}
      BY <1>3
    <3> HIDE DEF date
    <3> QED BY <1>1, <1>3, <2>2, <2>3, <3>1, Durations
  <2>5. counted[l] = 0 \/ (date \in Nat \ {0} /\ closed_at[l] <= date)
    BY <2>1 DEF IInv, Counts
  <2>6. counted[l] = 0
    BY <2>1, <2>4, <2>5, Durations
  <2> QED BY <2>1, <2>6
<1>6. Counts'
  <2>1. /\ import_date'[m.wallet] = now
        /\ \A v \in Wallets \ {m.wallet} : import_date'[v] = import_date[v]
    BY <1>1, <1>3
  <2>2. ASSUME NEW l \in Loans
        PROVE  \/ counted'[l] = 0
               \/ /\ counted'[l] = 1 /\ closed_at[l] # 0
                  /\ import_date'[Owner[l]] \in Nat \ {0}
                  /\ closed_at[l] <= import_date'[Owner[l]]
    <3>1. CASE l \in m.fresh
      <4>1. counted'[l] = 1
        BY <1>1, <1>5, <3>1
      <4> QED BY <1>3, <1>5, <2>1, <3>1, <4>1
    <3>2. CASE l \notin m.fresh
      <4>1. counted[l] = 0 \/ counted[l] = 1
        BY DEF IInv, Counts
      <4>2. counted'[l] = counted[l]
        BY <1>1, <3>2, <4>1
      <4>3. Owner[l] \in Wallets
        BY Durations
      <4>4. CASE Owner[l] = m.wallet
        BY <1>3, <2>1, <4>2, <4>4 DEF IInv, Counts
      <4>5. CASE Owner[l] # m.wallet
        BY <2>1, <4>2, <4>3, <4>5 DEF IInv, Counts
      <4> QED BY <4>4, <4>5
    <3> QED BY <3>1, <3>2
  <2>3. counted' = [l \in Loans |-> counted'[l]]
    BY <1>1
  <2> QED BY <1>1, <2>2, <2>3 DEF Counts
<1> QED BY <1>4, <1>6 DEF IInv

LEMMA CreateAccountInv ==
  ASSUME IInv, NEW w \in Wallets, CreateAccount(w)
  PROVE  IInv'
<1>1. /\ import_date[w] = NoAccount /\ import_date' = [import_date EXCEPT ![w] = 0]
      /\ counted' = counted /\ UNCHANGED <<now, closed_at, issued, in_flight, calls>>
  BY DEF CreateAccount
<1>2. Clocks' /\ Plans' /\ Serving'
  BY <1>1, ChainStep
<1>3. Counts'
  <2>1. import_date \in [Wallets -> Nat \cup {NoAccount}]
    BY DEF IInv, Clocks
  <2>2. \A v \in Wallets : v # w => import_date'[v] = import_date[v]
    BY <1>1, <2>1
  <2>3. \A l \in Loans : Owner[l] \in Wallets /\ (Owner[l] = w => counted[l] = 0)
    BY <1>1, Durations DEF IInv, Counts
  <2> QED BY <1>1, <2>2, <2>3 DEF IInv, Counts
<1> QED BY <1>2, <1>3 DEF IInv

LEMMA WalletSendsInv ==
  ASSUME IInv, NEW m \in issued, WalletSends(m)
  PROVE  IInv'
<1>1. /\ now' = now /\ closed_at' = closed_at /\ import_date' = import_date
      /\ counted' = counted /\ issued' = issued /\ calls' = calls
      /\ in_flight' = in_flight \cup {m}
  BY DEF WalletSends, chain
<1>2. (\A k : PlanOk(k) => PlanOk(k)') /\ (\A r : CallOk(r) => CallOk(r)')
  BY <1>1 DEF PlanOk, CallOk, ReadOk
<1> QED BY <1>1, <1>2 DEF IInv, Clocks, Counts, Plans, Serving

LEMMA RestartInv ==
  ASSUME IInv, Restart
  PROVE  IInv'
<1>1. /\ now' = now /\ closed_at' = closed_at /\ import_date' = import_date
      /\ counted' = counted /\ issued' = issued /\ in_flight' = in_flight
      /\ calls' = [c \in Calls |-> IF Running(c) THEN Idle ELSE calls[c]]
  BY DEF Restart, chain
<1>2. (\A k : PlanOk(k) => PlanOk(k)') /\ (\A r : CallOk(r) => CallOk(r)')
  BY <1>1 DEF PlanOk, CallOk, ReadOk
<1>3. Clocks' /\ Counts' /\ Plans'
  BY <1>1, <1>2 DEF IInv, Clocks, Counts, Plans
<1>4. \A c \in Calls : CallOk(calls'[c])
  BY <1>1, IdleOk DEF IInv, Serving
<1>5. Serving'
  <2>1. calls' = [c \in Calls |-> calls'[c]]
    BY <1>1
  <2> QED BY <1>2, <1>4, <2>1 DEF Serving
<1> QED BY <1>3, <1>5 DEF IInv

LEMMA CloseOutsideLoanInv ==
  ASSUME IInv, NEW k \in Loans, CloseOutsideLoan(k)
  PROVE  IInv'
<1>1. /\ now' = now /\ import_date' = import_date /\ counted' = counted /\ issued' = issued
      /\ in_flight' = in_flight /\ calls' = calls
      /\ closed_at[k] = 0 /\ closed_at' = [closed_at EXCEPT ![k] = now]
  BY DEF CloseOutsideLoan, chain
<1>2. now \in Nat /\ closed_at \in [Loans -> Nat]
  BY DEF IInv, Clocks
<1>3. /\ closed_at' \in [Loans -> Nat] /\ closed_at'[k] = now
      /\ \A l \in Loans : closed_at[l] # 0 => closed_at'[l] = closed_at[l]
      /\ \A l \in Loans : l # k => closed_at'[l] = closed_at[l]
  BY <1>1, <1>2
<1>4. \A m : PlanOk(m) => PlanOk(m)'
  BY <1>1, <1>3 DEF PlanOk
<1>5. \A r : CallOk(r) => CallOk(r)'
  <2>1. \A r : ReadOk(r) => ReadOk(r)'
    BY <1>1 DEF ReadOk
  <2> QED BY <1>1, <1>3, <1>4, <2>1 DEF CallOk
<1>6. Clocks'
  BY <1>1, <1>2, <1>3 DEF IInv, Clocks
<1>7. Counts' /\ Plans' /\ Serving'
  BY <1>1, <1>3, <1>4, <1>5 DEF IInv, Counts, Plans, Serving
<1> QED BY <1>6, <1>7 DEF IInv

LEMMA TickInv ==
  ASSUME IInv, Tick
  PROVE  IInv'
<1>1. /\ closed_at' = closed_at /\ import_date' = import_date /\ counted' = counted
      /\ issued' = issued /\ in_flight' = in_flight /\ calls' = calls
      /\ now \in Nat /\ now' \in Nat /\ now' # 0 /\ now <= now'
      /\ \A c \in Calls : Running(c) => now' - calls[c].started <= MAX_CALL
  <2>1. \A t \in Times : t \in Nat /\ t # 0
    BY ImportAssumption
  <2>2. now \in Nat
    BY DEF IInv, Clocks
  <2> QED BY <2>1, <2>2 DEF Tick, chain
<1>2. \A m : PlanOk(m) => PlanOk(m)'
  BY <1>1, Durations DEF PlanOk
<1>3. ASSUME NEW c \in Calls PROVE CallOk(calls[c])'
  <2> DEFINE r == calls[c]
  <2>1. CallOk(r) /\ (r.phase # "idle" => now' - r.started <= MAX_CALL)
    BY <1>1 DEF IInv, Serving, Running
  <2>2. r' = r
    BY <1>1
  <2> HIDE DEF r
  <2>3. ReadOk(r) => ReadOk(r)'
    BY <1>1, <2>2 DEF ReadOk
  <2>4. r.phase # "idle" => r.started \in Nat /\ r.started <= now' /\ now' - r.started <= MAX_CALL
    BY <1>1, <2>1 DEF CallOk
  <2>5. PlanOk(r.message) => PlanOk(r.message)'
    BY <1>1, <2>2, Durations DEF PlanOk
  <2>6. CallOk(r)'
    BY <1>1, <2>1, <2>2, <2>3, <2>4, <2>5 DEF CallOk, IsCall
  <2> QED BY <2>6 DEF r
<1>4. Clocks'
  BY <1>1 DEF IInv, Clocks
<1>5. Counts' /\ Plans' /\ Serving'
  BY <1>1, <1>2, <1>3 DEF IInv, Counts, Plans, Serving
<1> QED BY <1>4, <1>5 DEF IInv

-----------------------------------------------------------------------------
(* The steps *)

LEMMA InitIInv == Init => IInv
<1> SUFFICES ASSUME Init PROVE IInv
  OBVIOUS
<1>1. /\ now \in Nat /\ now # 0 /\ closed_at = [l \in Loans |-> 0]
      /\ import_date = [w \in Wallets |-> NoAccount] /\ counted = [l \in Loans |-> 0]
      /\ issued = {} /\ in_flight = {} /\ calls = [c \in Calls |-> Idle]
  BY ImportAssumption DEF Init
<1>2. Clocks /\ Counts /\ Plans
  BY <1>1 DEF Clocks, Counts, Plans
<1>3. Serving
  BY <1>1, IdleOk DEF Serving
<1> QED BY <1>2, <1>3 DEF IInv

LEMMA StepIInv == IInv /\ [Next]_vars => IInv'
<1> SUFFICES ASSUME IInv, [Next]_vars PROVE IInv'
  OBVIOUS
<1>1. ASSUME NEW c \in Calls, Prepare(c) PROVE IInv'
  BY <1>1, ReadReputationInv, ReadClockInv, FetchHistoryInv, BuildTxInv, DeletePendingInv,
     DeleteWaitsInv, DeleteResumesInv, InsertPendingInv DEF Prepare
<1>2. ASSUME NEW c \in Calls, Submit(c) PROVE IInv'
  BY <1>2, SubmitInv
<1>3. CASE Network
  BY <1>3, WalletSendsInv, LandInv, CreateAccountInv DEF Network
<1>4. CASE Restart
  BY <1>4, RestartInv
<1>5. ASSUME NEW l \in Loans, CloseOutsideLoan(l) PROVE IInv'
  BY <1>5, CloseOutsideLoanInv
<1>6. CASE Tick
  BY <1>6, TickInv
<1>7. CASE UNCHANGED vars
  <2>1. /\ now' = now /\ closed_at' = closed_at /\ import_date' = import_date
        /\ counted' = counted /\ issued' = issued /\ in_flight' = in_flight /\ calls' = calls
    BY <1>7 DEF vars, chain
  <2>2. (\A k : PlanOk(k) => PlanOk(k)') /\ (\A r : CallOk(r) => CallOk(r)')
    BY <2>1 DEF PlanOk, CallOk, ReadOk
  <2> QED BY <2>1, <2>2 DEF IInv, Clocks, Counts, Plans, Serving
<1> QED BY <1>1, <1>2, <1>3, <1>4, <1>5, <1>6, <1>7 DEF Next

-----------------------------------------------------------------------------
(* What the table says is on-chain *)

ClosedLoans == {l \in Loans : closed_at[l] # 0}
ClosedOf(w) == {l \in ClosedLoans : Owner[l] = w}

\* A row has the columns of the table, whatever they hold.
IsRow(r) ==
  r \in [id : {r.id}, wallet : {r.wallet}, status : {r.status}, message : {r.message},
         dropped : {r.dropped}]

RowOk(r) ==
  /\ IsRow(r) /\ r.status \in {"pending", "confirmed"}
  /\ r.id \in Nat /\ r.id < next_id
  /\ r.message \in issued /\ r.wallet = r.message.wallet
  /\ r.dropped \subseteq ClosedOf(r.wallet)
  /\ r.status = "confirmed" => r.message \in landed

\* Of two rows, the message of the one inserted first expires first, or no later
\* than the longest call after the other.
Table ==
  /\ next_id \in Nat
  /\ \A r \in imports : RowOk(r)
  /\ \A r, s \in imports :
       /\ r.id = s.id => r = s
       /\ r.id < s.id => r.message.expires <= s.message.expires + MAX_CALL

ScoredOk(m) == m.scored \subseteq ClosedOf(m.wallet) /\ m.fresh \subseteq m.scored

\* What landed is counted, and was built before the wallet's import date.
Landed ==
  /\ IsFiniteSet(ClosedLoans)
  /\ \A m \in issued : ScoredOk(m)
  /\ landed \subseteq in_flight
  /\ \A m \in landed :
       /\ import_date[m.wallet] \in Nat \ {0}
       /\ m.expires <= import_date[m.wallet] + TX_LIFETIME
       /\ \A l \in m.fresh : counted[l] # 0

\* m is the wallet's last import, landed while a call that began then was served.
LastLanded(m, started) ==
  /\ started <= import_date[m.wallet]
  /\ \A k \in landed :
       k.wallet = m.wallet => k = m \/ k.expires + IMPORT_COOLDOWN_SECS <= m.expires + TX_LIFETIME

SavedOk(r) ==
  /\ r.phase = "blockhash" => r.scored \cup r.dropped \subseteq ClosedOf(r.wallet)
  /\ r.phase \in {"delete", "blocked", "insert"} =>
       /\ r.message.wallet = r.wallet /\ ScoredOk(r.message)
       /\ r.dropped \subseteq ClosedOf(r.wallet)
       /\ r.started + TX_LIFETIME <= r.message.expires
  /\ r.phase = "insert" => \A d \in r.doomed : d.status = "pending"
  /\ r.phase \in {"send", "confirm", "update"} =>
       /\ r.message \in issued /\ r.id \in Nat /\ r.id < next_id
       /\ \A row \in imports : row.id = r.id => row.message = r.message
  /\ r.phase \in {"confirm", "update"} /\ r.message \in landed =>
       LastLanded(r.message, r.started)
  /\ r.phase = "update" => r.message \in landed

Saving == \A c \in Calls : SavedOk(calls[c])

\* The inductive invariant, over IInv.
Published == Table /\ Landed /\ Saving

LEMMA IdleSaved == SavedOk(Idle)
<1>1. Idle.phase = "idle"
  BY DEF Idle
<1> HIDE DEF Idle
<1> QED BY <1>1 DEF SavedOk

\* A step of one call that leaves the table alone.
LEMMA SaveStep ==
  ASSUME IInv, Published, NEW c \in Calls, NEW r, SavedOk(r), calls' = [calls EXCEPT ![c] = r],
         UNCHANGED <<now, closed_at, chain, issued, table>>, in_flight \subseteq in_flight'
  PROVE  Published'
<1>1. /\ closed_at' = closed_at /\ import_date' = import_date /\ counted' = counted
      /\ landed' = landed /\ issued' = issued /\ imports' = imports /\ next_id' = next_id
  BY DEF chain, table
<1>2. Table'
  BY <1>1 DEF Published, Table, RowOk, ClosedOf, ClosedLoans
<1>3. Landed'
  BY <1>1 DEF Published, Landed, ScoredOk, ClosedOf, ClosedLoans
<1>4. \A s : SavedOk(s) => SavedOk(s)'
  BY <1>1 DEF SavedOk, ScoredOk, ClosedOf, ClosedLoans, LastLanded
<1>5. calls' = [d \in Calls |-> IF d = c THEN r ELSE calls[d]]
  BY DEF IInv, Serving
<1>6. Saving'
  BY <1>4, <1>5 DEF Published, Saving
<1> QED BY <1>2, <1>3, <1>6 DEF Published

LEMMA PrepareSaved ==
  ASSUME IInv, Published, NEW c \in Calls, Prepare(c), ~InsertPending(c)
  PROVE  Published'
<1> DEFINE call == calls[c]
<1>0. CallOk(call) /\ IsCall(call) /\ SavedOk(call) /\ now \in Nat
  BY ServedOk DEF Published, Saving
<1>1. ASSUME NEW w \in Wallets, ReadReputation(c, w) PROVE Published'
  <2> DEFINE r == [Idle EXCEPT !.phase = "clock", !.wallet = w, !.started = now,
                               !.read = import_date[w]]
  <2>1. /\ calls' = [calls EXCEPT ![c] = r]
        /\ UNCHANGED <<now, closed_at, chain, issued, in_flight, table>>
    BY <1>1 DEF ReadReputation, Step
  <2>2. r.phase = "clock"
    BY DEF Idle
  <2> HIDE DEF r
  <2>3. SavedOk(r)
    BY <2>2 DEF SavedOk
  <2> QED BY <2>1, <2>3, SaveStep
<1>2. CASE ReadClock(c)
  <2> DEFINE r == [call EXCEPT !.phase = "history"]
  <2>1. /\ calls' = [calls EXCEPT ![c] = r] \/ calls' = [calls EXCEPT ![c] = Idle]
        /\ UNCHANGED <<now, closed_at, chain, issued, in_flight, table>>
    BY <1>2 DEF ReadClock, Step
  <2> HIDE DEF call
  <2>2. r.phase = "history"
    BY <1>0 DEF IsCall
  <2> HIDE DEF r
  <2>3. SavedOk(r)
    BY <2>2 DEF SavedOk
  <2> QED BY <2>1, <2>3, IdleSaved, SaveStep
<1>3. CASE FetchHistory(c)
  <2> DEFINE closed == {l \in Loans : Owner[l] = call.wallet /\ closed_at[l] # 0}
             r(priced) == [call EXCEPT !.phase = "blockhash", !.scored = priced,
                                       !.dropped = closed \ priced]
  <2>1. PICK priced \in SUBSET closed : calls' = [calls EXCEPT ![c] = r(priced)]
    BY <1>3 DEF FetchHistory, Step
  <2>2. UNCHANGED <<now, closed_at, chain, issued, in_flight, table>>
    BY <1>3 DEF FetchHistory
  <2>3. priced \cup (closed \ priced) \subseteq ClosedOf(call.wallet)
    BY DEF ClosedOf, ClosedLoans
  <2> DEFINE q == r(priced)
  <2> HIDE DEF call, closed
  <2>4. /\ q.phase = "blockhash" /\ q.wallet = call.wallet /\ q.scored = priced
        /\ q.dropped = closed \ priced
    BY <1>0 DEF IsCall
  <2>5. calls' = [calls EXCEPT ![c] = q]
    BY <2>1
  <2> HIDE DEF q, r
  <2>6. SavedOk(q)
    BY <2>3, <2>4 DEF SavedOk
  <2> QED BY <2>2, <2>5, <2>6, SaveStep
<1>4. CASE BuildTx(c)
  <2> DEFINE read == IF call.read = NoAccount THEN 0 ELSE call.read
             plan == [wallet |-> call.wallet, needs_init |-> call.read = NoAccount,
                      scored |-> call.scored,
                      fresh |-> {l \in call.scored : IsNewSince(l, read)},
                      expires |-> now + TX_LIFETIME]
             r == [call EXCEPT !.phase = "delete", !.message = plan]
  <2>1. /\ call.phase = "blockhash" /\ calls' = [calls EXCEPT ![c] = r]
        /\ UNCHANGED <<now, closed_at, chain, issued, in_flight, table>>
    BY <1>4 DEF BuildTx, Step
  <2>2. /\ plan.wallet = call.wallet /\ plan.scored = call.scored
        /\ plan.fresh \subseteq plan.scored /\ plan.expires = now + TX_LIFETIME
    OBVIOUS
  <2> HIDE DEF call, plan
  <2>3. /\ r.phase = "delete" /\ r.wallet = call.wallet /\ r.started = call.started
        /\ r.message = plan /\ r.dropped = call.dropped
    BY <1>0 DEF IsCall
  <2> HIDE DEF r
  <2>4. call.started \in Nat /\ call.started <= now
    BY <1>0, <2>1 DEF CallOk
  <2>5. call.scored \cup call.dropped \subseteq ClosedOf(call.wallet)
    BY <1>0, <2>1 DEF SavedOk
  <2>6. ScoredOk(plan) /\ r.started + TX_LIFETIME <= plan.expires
    BY <1>0, <2>2, <2>3, <2>4, <2>5, Durations DEF ScoredOk
  <2>7. SavedOk(r)
    BY <2>2, <2>3, <2>5, <2>6 DEF SavedOk
  <2> QED BY <2>1, <2>7, SaveStep
<1>5. CASE DeletePending(c)
  <2> DEFINE old == PendingOf(call.wallet)
             r == [call EXCEPT !.phase = "insert", !.doomed = old]
  <2>1. /\ call.phase = "delete" /\ calls' = [calls EXCEPT ![c] = r]
        /\ UNCHANGED <<now, closed_at, chain, issued, in_flight, table>>
    BY <1>5 DEF DeletePending, Step
  <2>2. \A d \in old : d.status = "pending"
    BY DEF PendingOf
  <2> HIDE DEF call, old
  <2>3. /\ r.phase = "insert" /\ r.wallet = call.wallet /\ r.started = call.started
        /\ r.message = call.message /\ r.dropped = call.dropped /\ r.doomed = old
    BY <1>0 DEF IsCall
  <2> HIDE DEF r
  <2>4. SavedOk(r)
    BY <1>0, <2>1, <2>2, <2>3 DEF SavedOk
  <2> QED BY <2>1, <2>4, SaveStep
<1>6. CASE DeleteWaits(c)
  <2> DEFINE old == PendingOf(call.wallet)
             r == [call EXCEPT !.phase = "blocked", !.seen = old]
  <2>1. /\ call.phase = "delete" /\ calls' = [calls EXCEPT ![c] = r]
        /\ UNCHANGED <<now, closed_at, chain, issued, in_flight, table>>
    BY <1>6 DEF DeleteWaits, Step
  <2> HIDE DEF call, old
  <2>2. /\ r.phase = "blocked" /\ r.wallet = call.wallet /\ r.started = call.started
        /\ r.message = call.message /\ r.dropped = call.dropped
    BY <1>0 DEF IsCall
  <2> HIDE DEF r
  <2>3. SavedOk(r)
    BY <1>0, <2>1, <2>2 DEF SavedOk
  <2> QED BY <2>1, <2>3, SaveStep
<1>7. CASE DeleteResumes(c)
  <2> DEFINE old == call.seen \cap PendingOf(call.wallet)
             r == [call EXCEPT !.phase = "insert", !.seen = {}, !.doomed = old]
  <2>1. /\ call.phase = "blocked" /\ calls' = [calls EXCEPT ![c] = r]
        /\ UNCHANGED <<now, closed_at, chain, issued, in_flight, table>>
    BY <1>7 DEF DeleteResumes, Step
  <2>2. \A d \in old : d.status = "pending"
    BY DEF PendingOf
  <2> HIDE DEF call, old
  <2>3. /\ r.phase = "insert" /\ r.wallet = call.wallet /\ r.started = call.started
        /\ r.message = call.message /\ r.dropped = call.dropped /\ r.doomed = old
    BY <1>0 DEF IsCall
  <2> HIDE DEF r
  <2>4. SavedOk(r)
    BY <1>0, <2>1, <2>2, <2>3 DEF SavedOk
  <2> QED BY <2>1, <2>4, SaveStep
<1> QED BY <1>1, <1>2, <1>3, <1>4, <1>5, <1>6, <1>7 DEF Prepare

LEMMA InsertPendingSaved ==
  ASSUME IInv, IInv', Published, NEW c \in Calls, InsertPending(c)
  PROVE  Published'
<1> DEFINE call == calls[c]
           m == call.message
           new == [id |-> next_id, wallet |-> call.wallet, status |-> "pending",
                   message |-> m, dropped |-> call.dropped]
<1>1. /\ call.phase = "insert" /\ calls' = [calls EXCEPT ![c] = Idle]
      /\ now' = now /\ closed_at' = closed_at /\ import_date' = import_date
      /\ counted' = counted /\ landed' = landed /\ in_flight' = in_flight
      /\ imports' = (imports \ call.doomed) \cup {new}
      /\ next_id' = next_id + 1 /\ issued' = issued \cup {m}
  BY DEF InsertPending, Step, chain
<1>2. CallOk(call) /\ SavedOk(call)
  BY ServedOk DEF Published, Saving
<1>3. /\ m.wallet = call.wallet /\ ScoredOk(m) /\ call.dropped \subseteq ClosedOf(call.wallet)
      /\ call.started + TX_LIFETIME <= m.expires
      /\ call.started \in Nat /\ now - call.started <= MAX_CALL /\ PlanOk(m)
  BY <1>1, <1>2 DEF SavedOk, CallOk
<1>4. /\ new.id = next_id /\ new.wallet = call.wallet /\ new.status = "pending"
      /\ new.message = m /\ new.dropped = call.dropped /\ IsRow(new)
  BY DEF IsRow
<1>5. next_id \in Nat /\ now \in Nat /\ m.expires \in Nat
  BY <1>3 DEF PlanOk, Published, Table, IInv, Clocks
<1> HIDE DEF new, m, call
<1>6. \A w : ClosedOf(w)' = ClosedOf(w)
  BY <1>1 DEF ClosedOf, ClosedLoans
<1>7. \A r : r = new => RowOk(r)'
  BY <1>1, <1>3, <1>4, <1>5, <1>6 DEF RowOk
<1>8. \A r \in imports : RowOk(r)'
  BY <1>1, <1>5, <1>6 DEF Published, Table, RowOk
<1>9. \A r \in imports : r.id # new.id /\ r.id < new.id /\ r.message.expires <= m.expires + MAX_CALL
  <2> SUFFICES ASSUME NEW r \in imports
               PROVE  r.id # new.id /\ r.id < new.id /\ r.message.expires <= m.expires + MAX_CALL
    OBVIOUS
  <2>1. r.id \in Nat /\ r.id < next_id /\ r.message \in issued
    BY DEF Published, Table, RowOk
  <2>2. r.message.expires \in Nat /\ r.message.expires <= now + TX_LIFETIME
    BY <2>1 DEF IInv, Plans, PlanOk
  <2> QED BY <1>3, <1>4, <1>5, <2>1, <2>2, Durations
<1>10. Table'
  <2>1. \A r \in imports' : RowOk(r)'
    BY <1>1, <1>7, <1>8
  <2>2. ASSUME NEW r \in imports', NEW s \in imports'
        PROVE  /\ r.id = s.id => r = s
               /\ r.id < s.id => r.message.expires <= s.message.expires + MAX_CALL
    <3>1. CASE r = new /\ s = new
      BY <1>4, <1>5, <3>1
    <3>2. CASE r # new /\ s = new
      BY <1>1, <1>4, <1>9, <3>2
    <3>3. CASE r = new /\ s # new
      <4>1. s \in imports
        BY <1>1, <3>3
      <4>2. s.id \in Nat /\ s.id < r.id
        BY <1>9, <3>3, <4>1 DEF Published, Table, RowOk
      <4> QED BY <1>4, <1>5, <3>3, <4>2
    <3>4. CASE r # new /\ s # new
      BY <1>1, <3>4 DEF Published, Table
    <3> QED BY <3>1, <3>2, <3>3, <3>4
  <2> QED BY <1>1, <1>5, <2>1, <2>2 DEF Table
<1>11. Landed'
  BY <1>1, <1>3 DEF Published, Landed, ScoredOk, ClosedOf, ClosedLoans
<1>12. ASSUME NEW r, SavedOk(r) PROVE SavedOk(r)'
  <2>1. \A row \in imports' : row.id = r.id /\ r.id \in Nat /\ r.id < next_id => row \in imports
    BY <1>1, <1>4, <1>5
  <2>2. r.id \in Nat /\ r.id < next_id => r.id < next_id'
    BY <1>1, <1>5
  <2> QED BY <1>1, <1>6, <1>12, <2>1, <2>2 DEF SavedOk, ScoredOk, LastLanded
<1>13. Saving'
  <2>1. \A d \in Calls : calls'[d] \in {Idle, calls[d]}
    BY <1>1 DEF IInv, Serving
  <2> QED BY <1>12, <2>1, IdleSaved DEF Published, Saving
<1> QED BY <1>10, <1>11, <1>13 DEF Published

\* The row that is marked keeps its id, its message and its loans.
LEMMA MarkConfirmedSaved ==
  ASSUME IInv, IInv', Published, NEW c \in Calls, MarkConfirmed(c)
  PROVE  Published'
<1> DEFINE call == calls[c]
           mine == {r \in imports : r.id = call.id /\ r.status = "pending"}
           Marked(r) == [r EXCEPT !.status = "confirmed"]
<1>1. /\ call.phase = "update" /\ calls' = [calls EXCEPT ![c] = Idle]
      /\ now' = now /\ closed_at' = closed_at /\ import_date' = import_date
      /\ counted' = counted /\ landed' = landed /\ in_flight' = in_flight
      /\ issued' = issued /\ next_id' = next_id
      /\ imports' = (imports \ mine) \cup {Marked(r) : r \in mine}
  BY DEF MarkConfirmed, Step, chain
<1>2. SavedOk(call)
  BY DEF Published, Saving
<1>3. call.message \in landed /\ \A r \in mine : r.message = call.message
  BY <1>1, <1>2 DEF SavedOk
<1>4. \A r \in imports : RowOk(r)
  BY DEF Published, Table
<1>5. ASSUME NEW r \in mine
      PROVE  /\ Marked(r).id = r.id /\ Marked(r).message = r.message
             /\ Marked(r).wallet = r.wallet /\ Marked(r).dropped = r.dropped
             /\ Marked(r).status = "confirmed" /\ IsRow(Marked(r))
  BY <1>4 DEF RowOk, IsRow
<1> HIDE DEF Marked, mine, call
<1>6. \A s \in imports' :
        \/ s \in imports
        \/ \E r \in mine : s = Marked(r)
  BY <1>1
<1>7. mine \subseteq imports /\ \A r \in imports' : r \notin mine \/ r.status = "confirmed"
  BY <1>1, <1>5 DEF mine
<1>8. \A s \in imports' : \E r \in imports :
        /\ s.id = r.id /\ s.message = r.message
        /\ IF r \in mine THEN s = Marked(r) ELSE s = r
  BY <1>1, <1>5, <1>7
<1>9. Table'
  <2>1. ASSUME NEW s \in imports' PROVE RowOk(s)'
    <3>1. PICK r \in imports : IF r \in mine THEN s = Marked(r) ELSE s = r
      BY <1>8
    <3>2. RowOk(r)
      BY <1>4
    <3>3. CASE r \in mine
      BY <1>1, <1>3, <1>5, <3>1, <3>2, <3>3 DEF RowOk, ClosedOf, ClosedLoans
    <3>4. CASE r \notin mine
      BY <1>1, <3>1, <3>2, <3>4 DEF RowOk, ClosedOf, ClosedLoans
    <3> QED BY <3>3, <3>4
  <2>2. ASSUME NEW s \in imports', NEW t \in imports'
        PROVE  /\ s.id = t.id => s = t
               /\ s.id < t.id => s.message.expires <= t.message.expires + MAX_CALL
    <3>1. PICK r \in imports : /\ s.id = r.id /\ s.message = r.message
                               /\ IF r \in mine THEN s = Marked(r) ELSE s = r
      BY <1>8
    <3>2. PICK q \in imports : /\ t.id = q.id /\ t.message = q.message
                               /\ IF q \in mine THEN t = Marked(q) ELSE t = q
      BY <1>8
    <3>3. /\ r.id = q.id => r = q
          /\ r.id < q.id => r.message.expires <= q.message.expires + MAX_CALL
      BY DEF Published, Table
    <3> QED BY <3>1, <3>2, <3>3
  <2> QED BY <1>1, <2>1, <2>2 DEF Published, Table
<1>10. Landed'
  BY <1>1 DEF Published, Landed, ScoredOk, ClosedOf, ClosedLoans
<1>11. ASSUME NEW r, SavedOk(r) PROVE SavedOk(r)'
  <2>1. (\A row \in imports : row.id = r.id => row.message = r.message)
          => \A row \in imports' : row.id = r.id => row.message = r.message
    BY <1>8
  <2> QED BY <1>1, <1>11, <2>1 DEF SavedOk, ScoredOk, LastLanded, ClosedOf, ClosedLoans
<1>12. Saving'
  <2>1. \A d \in Calls : calls'[d] \in {Idle, calls[d]}
    BY <1>1 DEF IInv, Serving
  <2> QED BY <1>11, <2>1, IdleSaved DEF Published, Saving
<1> QED BY <1>9, <1>10, <1>12 DEF Published

LEMMA SubmitSaved ==
  ASSUME IInv, IInv', Published, NEW c \in Calls, Submit(c)
  PROVE  Published'
<1> DEFINE call == calls[c]
<1>0. CallOk(call) /\ IsCall(call) /\ SavedOk(call) /\ now \in Nat
  BY ServedOk DEF Published, Saving
<1>1. ASSUME NEW m \in issued, CheckSubmitted(c, m) PROVE Published'
  <2> DEFINE r(i) == [Idle EXCEPT !.phase = "send", !.wallet = m.wallet, !.started = now,
                                  !.message = m, !.id = i]
  <2>1. PICK row \in imports : row.message = m /\ calls' = [calls EXCEPT ![c] = r(row.id)]
    BY <1>1 DEF CheckSubmitted, Step
  <2>2. UNCHANGED <<now, closed_at, chain, issued, in_flight, table>>
    BY <1>1 DEF CheckSubmitted
  <2> DEFINE q == r(row.id)
  <2>3. q.phase = "send" /\ q.message = m /\ q.id = row.id
    BY DEF Idle
  <2>4. calls' = [calls EXCEPT ![c] = q]
    BY <2>1
  <2> HIDE DEF q, r
  <2>5. row.id \in Nat /\ row.id < next_id /\ \A s \in imports : s.id = row.id => s.message = m
    BY <2>1 DEF Published, Table, RowOk
  <2>6. SavedOk(q)
    BY <2>3, <2>5 DEF SavedOk
  <2> QED BY <2>2, <2>4, <2>6, SaveStep
<1>2. CASE SendSubmitted(c)
  <2> DEFINE r == [call EXCEPT !.phase = "confirm"]
  <2>1. /\ call.phase = "send" /\ in_flight \subseteq in_flight'
        /\ UNCHANGED <<now, closed_at, chain, issued, table>>
        /\ \/ calls' = [calls EXCEPT ![c] = r] /\ call.message \notin landed
           \/ calls' = [calls EXCEPT ![c] = Idle]
    BY <1>2 DEF SendSubmitted, Step, Executable
  <2> HIDE DEF call
  <2>2. r.phase = "confirm" /\ r.message = call.message /\ r.id = call.id
    BY <1>0 DEF IsCall
  <2> HIDE DEF r
  <2>3. call.message \notin landed => SavedOk(r)
    BY <1>0, <2>1, <2>2 DEF SavedOk
  <2> QED BY <2>1, <2>3, IdleSaved, SaveStep
<1>3. CASE SeeConfirmed(c)
  <2> DEFINE r == [call EXCEPT !.phase = "update"]
  <2>1. /\ call.phase = "confirm" /\ calls' = [calls EXCEPT ![c] = r]
        /\ call.message \in landed
        /\ UNCHANGED <<now, closed_at, chain, issued, in_flight, table>>
    BY <1>3 DEF SeeConfirmed, Step
  <2> HIDE DEF call
  <2>2. /\ r.phase = "update" /\ r.message = call.message /\ r.id = call.id
        /\ r.started = call.started
    BY <1>0 DEF IsCall
  <2> HIDE DEF r
  <2>3. SavedOk(r)
    BY <1>0, <2>1, <2>2 DEF SavedOk
  <2> QED BY <2>1, <2>3, SaveStep
<1>4. CASE ConfirmFails(c)
  <2>1. /\ calls' = [calls EXCEPT ![c] = Idle]
        /\ UNCHANGED <<now, closed_at, chain, issued, in_flight, table>>
    BY <1>4 DEF ConfirmFails, Step
  <2> QED BY <2>1, IdleSaved, SaveStep
<1>5. CASE MarkConfirmed(c)
  BY <1>5, MarkConfirmedSaved
<1> QED BY <1>1, <1>2, <1>3, <1>4, <1>5 DEF Submit

\* A plan lands only when the cooldown after every earlier import of its wallet is
\* over, and then no call for such an import is still served.
LEMMA LandSaved ==
  ASSUME IInv, Published, NEW m \in in_flight, Land(m)
  PROVE  Published'
<1> DEFINE date == import_date[m.wallet]
<1>1. /\ now <= m.expires /\ m \notin landed /\ CooldownPassed(date)
      /\ import_date' = [import_date EXCEPT ![m.wallet] = now]
      /\ counted' = [l \in Loans |-> counted[l] + IF l \in m.fresh THEN 1 ELSE 0]
      /\ landed' = landed \cup {m}
      /\ now' = now /\ closed_at' = closed_at /\ issued' = issued /\ in_flight' = in_flight
      /\ imports' = imports /\ next_id' = next_id /\ calls' = calls
  BY DEF Land, Executable, table
<1>2. \A k \in issued : PlanOk(k)
  BY DEF IInv, Plans
<1>3. landed \subseteq issued /\ m \in issued /\ in_flight \subseteq issued
  BY DEF IInv, Plans, Published, Landed
<1>4. /\ m.wallet \in Wallets /\ m.expires \in Nat /\ now \in Nat /\ now # 0
      /\ import_date \in [Wallets -> Nat \cup {NoAccount}]
  BY <1>2, <1>3 DEF PlanOk, IInv, Clocks
<1>5. /\ import_date'[m.wallet] = now
      /\ \A w \in Wallets : w # m.wallet => import_date'[w] = import_date[w]
  BY <1>1, <1>4
<1>6. \A k \in landed : k.wallet \in Wallets /\ k.expires \in Nat
  BY <1>2, <1>3 DEF PlanOk
<1>7. Table'
  BY <1>1 DEF Published, Table, RowOk, ClosedOf, ClosedLoans
<1>8. ASSUME NEW k \in landed'
      PROVE  /\ import_date'[k.wallet] \in Nat \ {0}
             /\ k.expires <= import_date'[k.wallet] + TX_LIFETIME
             /\ \A l \in k.fresh : counted'[l] # 0
  <2>1. k \in issued
    BY <1>1, <1>3
  <2>2. k.wallet \in Wallets /\ k.expires <= now + TX_LIFETIME /\ k.fresh \subseteq Loans
    BY <1>2, <2>1 DEF PlanOk
  <2>3. import_date'[k.wallet] \in Nat \ {0} /\ k.expires <= import_date'[k.wallet] + TX_LIFETIME
    <3>1. CASE k.wallet = m.wallet
      BY <1>4, <1>5, <2>2, <3>1
    <3>2. CASE k.wallet # m.wallet
      BY <1>1, <1>5, <2>2, <3>2 DEF Published, Landed
    <3> QED BY <3>1, <3>2
  <2>4. ASSUME NEW l \in k.fresh PROVE counted'[l] # 0
    <3>1. l \in Loans /\ counted[l] \in {0, 1}
      BY <2>2 DEF IInv, Counts
    <3>2. counted'[l] = counted[l] + IF l \in m.fresh THEN 1 ELSE 0
      BY <1>1, <3>1
    <3>3. CASE k = m
      BY <3>1, <3>2, <3>3
    <3>4. CASE k \in landed
      <4>1. counted[l] # 0
        BY <3>4 DEF Published, Landed
      <4> QED BY <3>1, <3>2, <4>1
    <3> QED BY <1>1, <3>3, <3>4
  <2> QED BY <2>3, <2>4
<1>9. Landed'
  <2>1. landed' \subseteq in_flight'
    BY <1>1 DEF Published, Landed
  <2>2. IsFiniteSet(ClosedLoans)' /\ \A k \in issued' : ScoredOk(k)'
    BY <1>1 DEF Published, Landed, ScoredOk, ClosedOf, ClosedLoans
  <2> QED BY <1>8, <2>1, <2>2 DEF Landed
<1>10. ASSUME NEW k \in landed, k.wallet = m.wallet
       PROVE  /\ date \in Nat \ {0} /\ now - date >= IMPORT_COOLDOWN_SECS
              /\ k.expires + IMPORT_COOLDOWN_SECS <= m.expires + TX_LIFETIME
  <2>1. date \in Nat \ {0} /\ k.expires <= date + TX_LIFETIME
    BY <1>10 DEF Published, Landed
  <2>2. now - date >= IMPORT_COOLDOWN_SECS
    BY <1>1, <2>1, Durations DEF CooldownPassed
  <2> HIDE DEF date
  <2> QED BY <1>1, <1>4, <1>6, <2>1, <2>2, Durations
<1>11. ASSUME NEW n \in landed', NEW t \in Nat, t <= now, now - t <= MAX_CALL,
              n \in landed => LastLanded(n, t)
       PROVE  LastLanded(n, t)'
  <2>1. CASE n = m
    <3>1. t <= import_date'[n.wallet]
      BY <1>5, <1>11, <2>1
    <3>2. \A k \in landed' :
            k.wallet = n.wallet => k = n \/ k.expires + IMPORT_COOLDOWN_SECS <= n.expires + TX_LIFETIME
      BY <1>1, <1>10, <2>1
    <3> QED BY <3>1, <3>2 DEF LastLanded
  <2>2. CASE n # m /\ n.wallet = m.wallet
    <3>1. n \in landed /\ t <= date
      BY <1>1, <1>11, <2>2 DEF LastLanded
    <3>2. date \in Nat \ {0} /\ now - date >= IMPORT_COOLDOWN_SECS
      BY <1>10, <2>2, <3>1
    <3> HIDE DEF date
    <3>3. FALSE
      BY <1>4, <1>11, <3>1, <3>2, Durations
    <3> QED BY <3>3
  <2>3. CASE n # m /\ n.wallet # m.wallet
    <3>1. n \in landed
      BY <1>1, <1>11, <2>3
    <3>2. n.wallet \in Wallets
      BY <1>6, <3>1
    <3> QED BY <1>1, <1>5, <1>11, <2>3, <3>1, <3>2 DEF LastLanded
  <2> QED BY <2>1, <2>2, <2>3
<1>12. ASSUME NEW s, CallOk(s), SavedOk(s) PROVE SavedOk(s)'
  <2>1. ASSUME s.phase \in {"confirm", "update"}, s.message \in landed'
        PROVE  LastLanded(s.message, s.started)'
    <3>1. s.started \in Nat /\ s.started <= now /\ now - s.started <= MAX_CALL
      BY <1>12, <2>1 DEF CallOk
    <3>2. s.message \in landed => LastLanded(s.message, s.started)
      BY <1>12, <2>1 DEF SavedOk
    <3> QED BY <1>11, <2>1, <3>1, <3>2
  <2> QED BY <1>1, <1>12, <2>1 DEF SavedOk, ScoredOk, ClosedOf, ClosedLoans
<1>13. Saving'
  BY <1>1, <1>12 DEF Published, Saving, IInv, Serving
<1> QED BY <1>7, <1>9, <1>13 DEF Published

\* The steps of the world that change no record of an import.
LEMMA QuietSaved ==
  ASSUME IInv, Published,
         \/ \E m \in issued : WalletSends(m)
         \/ \E w \in Wallets : CreateAccount(w)
         \/ Restart \/ (\E l \in Loans : CloseOutsideLoan(l)) \/ Tick \/ UNCHANGED vars
  PROVE  Published'
<1>1. /\ counted' = counted /\ landed' = landed /\ issued' = issued
      /\ in_flight \subseteq in_flight' /\ imports' = imports /\ next_id' = next_id
  BY DEF WalletSends, CreateAccount, Restart, CloseOutsideLoan, Tick, vars, chain, table
<1>2. /\ \A c \in Calls : calls'[c] \in {Idle, calls[c]}
      /\ \A k \in landed : import_date'[k.wallet] = import_date[k.wallet]
      /\ ClosedLoans \subseteq ClosedLoans' /\ IsFiniteSet(ClosedLoans')
  <2>1. CASE \E w \in Wallets : CreateAccount(w)
    <3>1. PICK w \in Wallets : CreateAccount(w)
      BY <2>1
    <3>2. /\ import_date[w] = NoAccount /\ import_date' = [import_date EXCEPT ![w] = 0]
          /\ closed_at' = closed_at /\ calls' = calls
      BY <3>1 DEF CreateAccount
    <3>3. \A k \in landed : k.wallet # w
      BY <3>2, Durations DEF Published, Landed
    <3>4. \A v : v # w => import_date'[v] = import_date[v]
      BY <3>2 DEF IInv, Clocks
    <3>5. ClosedLoans' = ClosedLoans
      BY <3>2 DEF ClosedLoans
    <3> QED BY <3>2, <3>3, <3>4, <3>5 DEF Published, Landed
  <2>2. CASE \E l \in Loans : CloseOutsideLoan(l)
    <3>1. PICK l \in Loans : CloseOutsideLoan(l)
      BY <2>2
    <3>2. /\ closed_at' = [closed_at EXCEPT ![l] = now] /\ calls' = calls
          /\ import_date' = import_date /\ closed_at \in [Loans -> Nat] /\ now # 0
      BY <3>1 DEF CloseOutsideLoan, chain, IInv, Clocks
    <3>3. ClosedLoans' = ClosedLoans \cup {l}
      BY <3>2 DEF ClosedLoans
    <3>4. IsFiniteSet(ClosedLoans \cup {l})
      BY FS_AddElement DEF Published, Landed
    <3> QED BY <3>2, <3>3, <3>4
  <2>3. CASE Restart
    <3>1. /\ import_date' = import_date /\ closed_at' = closed_at
          /\ calls' = [c \in Calls |-> IF Running(c) THEN Idle ELSE calls[c]]
      BY <2>3 DEF Restart, chain
    <3>2. ClosedLoans' = ClosedLoans
      BY <3>1 DEF ClosedLoans
    <3> QED BY <3>1, <3>2 DEF Published, Landed
  <2>4. CASE Tick \/ UNCHANGED vars \/ \E m \in issued : WalletSends(m)
    <3>1. import_date' = import_date /\ closed_at' = closed_at /\ calls' = calls
      BY <2>4 DEF Tick, WalletSends, vars, chain
    <3>2. ClosedLoans' = ClosedLoans
      BY <3>1 DEF ClosedLoans
    <3> QED BY <3>1, <3>2 DEF Published, Landed
  <2> QED BY <2>1, <2>2, <2>3, <2>4
<1>3. \A w : ClosedOf(w) \subseteq ClosedOf(w)'
  BY <1>2 DEF ClosedOf
<1>4. \A m : ScoredOk(m) => ScoredOk(m)'
  BY <1>3 DEF ScoredOk
<1>5. Table'
  <2>1. \A r : RowOk(r) => RowOk(r)'
    BY <1>1, <1>3 DEF RowOk
  <2> QED BY <1>1, <2>1 DEF Published, Table
<1>6. Landed'
  BY <1>1, <1>2, <1>4 DEF Published, Landed
<1>7. \A r : SavedOk(r) => SavedOk(r)'
  <2>1. \A m, t : m \in landed /\ LastLanded(m, t) => LastLanded(m, t)'
    BY <1>1, <1>2 DEF LastLanded
  <2>2. \A r : r.phase \in {"confirm", "update"} /\ r.message \in landed /\ SavedOk(r)
                => LastLanded(r.message, r.started)'
    BY <2>1 DEF SavedOk
  <2> QED BY <1>1, <1>3, <1>4, <2>2 DEF SavedOk
<1>8. Saving'
  BY <1>2, <1>7, IdleSaved DEF Published, Saving
<1> QED BY <1>5, <1>6, <1>8 DEF Published

LEMMA InitPublished == Init => Published
<1> SUFFICES ASSUME Init PROVE Published
  OBVIOUS
<1>1. ClosedLoans = {}
  BY DEF Init, ClosedLoans
<1>2. Table /\ Landed
  BY <1>1, FS_EmptySet DEF Init, Table, Landed
<1>3. \A c \in Calls : calls[c] = Idle
  BY DEF Init
<1> QED BY <1>2, <1>3, IdleSaved DEF Published, Saving

LEMMA StepPublished == IInv /\ IInv' /\ Published /\ [Next]_vars => Published'
<1> SUFFICES ASSUME IInv, IInv', Published, [Next]_vars PROVE Published'
  OBVIOUS
<1>1. ASSUME NEW c \in Calls, Prepare(c) PROVE Published'
  BY <1>1, PrepareSaved, InsertPendingSaved
<1>2. ASSUME NEW c \in Calls, Submit(c) PROVE Published'
  BY <1>2, SubmitSaved
<1>3. CASE \E m \in in_flight : Land(m)
  BY <1>3, LandSaved
<1> QED BY <1>1, <1>2, <1>3, QuietSaved DEF Next, Network

-----------------------------------------------------------------------------
(* The public history *)

\* Of rows with ids below a bound there is one with the largest id.
LEMMA NewestIs ==
  ASSUME NEW H, H # {}, NEW n \in Nat, \A p \in H : p.id \in Nat /\ p.id < n
  PROVE  Newest(H) \in H /\ \A q \in H : q.id <= Newest(H).id
<1> DEFINE Below == {k \in Nat : \A p \in H : p.id + k < n}
<1>1. \E p \in H : \A q \in H : q.id <= p.id
  <2> SUFFICES ASSUME \A p \in H : \E q \in H : ~(q.id <= p.id)
               PROVE  FALSE
    OBVIOUS
  <2>1. 0 \in Below
    OBVIOUS
  <2>2. ASSUME NEW k \in Nat, k \in Below PROVE k + 1 \in Below
    <3> SUFFICES ASSUME NEW p \in H PROVE p.id + (k + 1) < n
      OBVIOUS
    <3>1. PICK q \in H : ~(q.id <= p.id)
      OBVIOUS
    <3>2. q.id + k < n /\ q.id \in Nat /\ p.id \in Nat
      BY <2>2
    <3> QED BY <3>1, <3>2
  <2>3. Nat \subseteq Below
    <3> HIDE DEF Below
    <3> QED BY <2>1, <2>2, NaturalInduction
  <2>4. PICK p \in H : TRUE
    OBVIOUS
  <2>5. p.id + n < n /\ p.id \in Nat
    BY <2>3
  <2> QED BY <2>5
<1> QED BY <1>1 DEF Newest

\* A public import is a confirmed row of its wallet.
LEMMA PublicOf ==
  ASSUME IInv, Published, NEW w, NEW p \in importHistory(w)
  PROVE  \E r \in imports :
           /\ r.wallet = w /\ r.status = "confirmed" /\ p = Public(r)
           /\ p.id = r.id /\ p.message = r.message /\ p.loans = PublicLoans(r)
           /\ RowOk(r) /\ r.id \in Nat /\ r.id < next_id
<1>1. PICK r \in imports : r.wallet = w /\ r.status = "confirmed" /\ p = Public(r)
  BY DEF importHistory
<1>2. p.id = r.id /\ p.message = r.message /\ p.loans = PublicLoans(r)
  BY <1>1 DEF Public
<1>3. RowOk(r) /\ r.id \in Nat /\ r.id < next_id
  BY DEF Published, Table, RowOk
<1> QED BY <1>1, <1>2, <1>3

LEMMA LatestIs ==
  ASSUME IInv, Published, NEW w, importHistory(w) # {}
  PROVE  /\ Newest(importHistory(w)) \in importHistory(w)
         /\ \A q \in importHistory(w) : q.id <= Newest(importHistory(w)).id
<1>1. next_id \in Nat
  BY DEF Published, Table
<1>2. \A p \in importHistory(w) : p.id \in Nat /\ p.id < next_id
  BY PublicOf
<1> QED BY <1>1, <1>2, NewestIs

FoundOn(r, p) == {l \in PublicLoans(r) : Protocol[l.loan] = p}
UnpricedOn(r, p) == {l \in FoundOn(r, p) : ~l.priced}

\* A loan is published once: the ones with a price are those of the score.
LEMMA PricedCount ==
  ASSUME NEW r, IsFiniteSet(r.message.scored \cup r.dropped), NEW p
  PROVE  Cardinality(FoundOn(r, p)) - Cardinality(UnpricedOn(r, p))
           = Cardinality(Fiber(Protocol, r.message.scored, p))
<1> DEFINE scored == r.message.scored
           dropped == r.dropped
           found == {l \in {[loan |-> l, priced |-> l \in scored] : l \in scored \cup dropped} :
                       Protocol[l.loan] = p}
           S == {l \in scored : Protocol[l] = p}
           unpriced == {l \in found : ~l.priced}
           all == {l \in scored \cup dropped : Protocol[l] = p}
           f == [l \in all |-> [loan |-> l, priced |-> l \in scored]]
           g == [l \in S |-> [loan |-> l, priced |-> TRUE]]
           priced == found \ unpriced
<1>1. IsFiniteSet(all) /\ IsFiniteSet(S)
  BY FS_Subset
<1>2. f \in Surjection(all, found)
  BY DEF Surjection
<1>3. IsFiniteSet(found) /\ IsFiniteSet(priced) /\ IsFiniteSet(unpriced)
  <2>1. IsFiniteSet(found)
    <3> HIDE DEF f, all
    <3> QED BY <1>1, <1>2, FS_Surjection
  <2> QED BY <2>1, FS_Subset
<1>4. g \in Bijection(S, priced)
  <2>1. \A x \in S : g[x] \in priced
    OBVIOUS
  <2>2. \A x, y \in S : g[x] = g[y] => x = y
    OBVIOUS
  <2>3. ASSUME NEW t \in priced PROVE \E x \in S : g[x] = t
    <3>1. PICK x \in scored \cup dropped : t = [loan |-> x, priced |-> x \in scored]
      OBVIOUS
    <3>2. t.priced /\ Protocol[t.loan] = p
      OBVIOUS
    <3>3. x \in S /\ t = [loan |-> x, priced |-> TRUE]
      BY <3>1, <3>2
    <3> QED BY <3>3
  <2>4. g \in [S -> priced]
    BY <2>1
  <2> HIDE DEF priced, g
  <2>5. g \in Surjection(S, priced)
    BY <2>3, <2>4 DEF Surjection
  <2>6. g \in Injection(S, priced)
    BY <2>2, <2>4 DEF Injection, IsInjective
  <2> QED BY <2>5, <2>6 DEF Bijection
<1>5. Cardinality(priced) = Cardinality(S)
  <2>1. ExistsBijection(S, priced)
    BY <1>4 DEF ExistsBijection
  <2> HIDE DEF priced
  <2> QED BY <1>1, <2>1, FS_Bijection
<1>6. Cardinality(priced) = Cardinality(found) - Cardinality(found \cap unpriced)
  <2> HIDE DEF unpriced
  <2> QED BY <1>3, FS_Difference
<1>7. found \cap unpriced = unpriced
  OBVIOUS
<1>8. FoundOn(r, p) = found /\ Fiber(Protocol, r.message.scored, p) = S
  BY DEF FoundOn, PublicLoans, Fiber
<1>9. UnpricedOn(r, p) = unpriced
  BY <1>8 DEF UnpricedOn
<1> HIDE DEF priced, unpriced, found, S
<1> QED BY <1>5, <1>6, <1>7, <1>8, <1>9

LEMMA OnChain == IInv /\ Published => ConfirmedIsOnChain
<1> SUFFICES ASSUME IInv, Published PROVE ConfirmedIsOnChain
  OBVIOUS
<1>1. ASSUME NEW r \in imports, r.status = "confirmed"
      PROVE  r.message \in landed /\ \A l \in r.message.fresh : counted[l] > 0
  <2>1. r.message \in landed /\ r.message \in issued
    BY <1>1 DEF Published, Table, RowOk
  <2>2. r.message.fresh \subseteq Loans
    BY <2>1 DEF IInv, Plans, PlanOk
  <2>3. \A l \in r.message.fresh : counted[l] # 0 /\ counted[l] \in {0, 1}
    BY <2>1, <2>2 DEF Published, Landed, IInv, Counts
  <2> QED BY <2>1, <2>3
<1>2. ASSUME NEW w \in Wallets, getLatestImport(w) # NoMessage
      PROVE  LET latest == getLatestImport(w)
                 coverage == coverageOf(latest)
                 priced == [p \in DOMAIN coverage |-> coverage[p].loans - coverage[p].unpriced]
             IN  /\ SumFunctionOnSet(priced, DOMAIN priced) = Cardinality(latest.message.scored)
                 /\ \A l \in latest.loans : closed_at[l.loan] # 0 /\ Owner[l.loan] = w
  <2> DEFINE latest == getLatestImport(w)
             coverage == coverageOf(latest)
             priced == [p \in DOMAIN coverage |-> coverage[p].loans - coverage[p].unpriced]
  <2>1. importHistory(w) # {} /\ latest = Newest(importHistory(w))
    BY <1>2 DEF getLatestImport
  <2>2. latest \in importHistory(w) /\ latest # NoMessage
    BY <1>2, <2>1, LatestIs
  <2>3. PICK r \in imports : /\ r.wallet = w /\ latest.message = r.message
                             /\ latest.loans = PublicLoans(r) /\ RowOk(r)
    BY <2>2, PublicOf
  <2>4. coverage = [p \in Range(Protocol) |-> [loans |-> Cardinality(FoundOn(r, p)),
                                              unpriced |-> Cardinality(UnpricedOn(r, p))]]
    BY <2>2, <2>3 DEF coverageOf, FoundOn, UnpricedOn
  <2> HIDE DEF latest, coverage
  <2> DEFINE scored == r.message.scored
             dropped == r.dropped
  <2>5. scored \cup dropped \subseteq ClosedOf(w)
    BY <2>3 DEF RowOk, Published, Landed, ScoredOk
  <2>6. scored \cup dropped \subseteq ClosedLoans /\ IsFiniteSet(ClosedLoans)
    BY <2>5 DEF ClosedOf, Published, Landed
  <2>7. IsFiniteSet(scored \cup dropped) /\ IsFiniteSet(scored)
    BY <2>6, FS_Subset
  <2>8. \A p \in Range(Protocol) : priced[p] = Cardinality(Fiber(Protocol, scored, p))
    BY <2>4, <2>7, PricedCount
  <2>9. DOMAIN priced = Range(Protocol) /\ IsFiniteSet(Range(Protocol))
    BY <2>4, ImportAssumption
  <2>10. \A l \in scored : Protocol[l] \in Range(Protocol)
    BY <2>6, ImportAssumption DEF ClosedLoans, Range
  <2>11. SumFunctionOnSet(priced, DOMAIN priced) = Cardinality(scored)
    <3> HIDE DEF priced, scored
    <3> QED BY <2>7, <2>8, <2>9, <2>10, SumFibers
  <2>12. ASSUME NEW l \in latest.loans PROVE closed_at[l.loan] # 0 /\ Owner[l.loan] = w
    <3>1. l.loan \in scored \cup dropped
      BY <2>3 DEF PublicLoans
    <3> QED BY <2>5, <3>1 DEF ClosedOf, ClosedLoans
  <2>13. scored = latest.message.scored
    BY <2>3
  <2> QED BY <2>11, <2>12, <2>13 DEF latest, coverage
<1> QED BY <1>1, <1>2 DEF ConfirmedIsOnChain

\* The row marked is newer than every public one, except for a second row of the
\* transaction of the newest.
LEMMA StaysStep ==
  IInv /\ IInv' /\ Published /\ Published' /\ [Next]_vars =>
    [ \A w \in Wallets :
        LET old == importHistory(w)
            new == importHistory(w)'
        IN  /\ old \subseteq new
            /\ old # {} => \A r \in new \ old :
                 r.id > Newest(old).id \/ r.message = Newest(old).message ]_imports
<1> SUFFICES ASSUME IInv, IInv', Published, Published', [Next]_vars, imports' # imports,
                    NEW w \in Wallets
             PROVE  LET old == importHistory(w)
                        new == importHistory(w)'
                    IN  /\ old \subseteq new
                        /\ old # {} => \A r \in new \ old :
                             r.id > Newest(old).id \/ r.message = Newest(old).message
  OBVIOUS
<1> DEFINE old == importHistory(w)
           new == importHistory(w)'
           Shown(R) == {r \in R : r.wallet = w /\ r.status = "confirmed"}
<1>0. old = {Public(r) : r \in Shown(imports)} /\ new = {Public(r) : r \in Shown(imports')}
  BY DEF importHistory, Public, PublicLoans
<1>1. ASSUME NEW c \in Calls, InsertPending(c) PROVE old = new
  <2>1. /\ calls[c].phase = "insert"
        /\ \A r \in imports : r \in imports' \/ r \in calls[c].doomed
        /\ \A r \in imports' : r \in imports \/ r.status = "pending"
    BY <1>1 DEF InsertPending
  <2>2. \A d \in calls[c].doomed : d.status = "pending"
    BY <2>1 DEF Published, Saving, SavedOk
  <2>3. Shown(imports) = Shown(imports')
    BY <2>1, <2>2
  <2> QED BY <1>0, <2>3
<1>2. ASSUME NEW c \in Calls, MarkConfirmed(c)
      PROVE  /\ old \subseteq new
             /\ old # {} => \A p \in new \ old :
                  p.id > Newest(old).id \/ p.message = Newest(old).message
  <2> DEFINE call == calls[c]
             mine == {r \in imports : r.id = call.id /\ r.status = "pending"}
             Marked(r) == [r EXCEPT !.status = "confirmed"]
             m == call.message
  <2>1. call.phase = "update" /\ imports' = (imports \ mine) \cup {Marked(r) : r \in mine}
    BY <1>2 DEF MarkConfirmed
  <2>2. /\ m \in landed /\ m \in issued /\ LastLanded(m, call.started)
        /\ \A r \in mine : r.message = m
    BY <2>1 DEF Published, Saving, SavedOk
  <2>3. \A r \in imports : RowOk(r)
    BY DEF Published, Table
  <2>4. \A r \in mine : Marked(r).id = r.id /\ Marked(r).message = r.message
                        /\ Marked(r).wallet = r.wallet
    BY <2>3 DEF RowOk, IsRow
  <2>5. Shown(imports) \subseteq imports' /\ mine \subseteq imports
    BY <2>1
  <2>6. \A r \in imports' : r \in imports \/ \E q \in mine : r = Marked(q)
    BY <2>1
  <2>7. old \subseteq new
    BY <1>0, <2>5
  <2>8. ASSUME old # {}, NEW p \in new \ old
        PROVE  p.id > Newest(old).id \/ p.message = Newest(old).message
    <3>1. PICK r \in Shown(imports') : p = Public(r)
      BY <1>0
    <3>2. p.id = r.id /\ p.message = r.message
      BY <3>1 DEF Public
    <3>3. r \notin imports
      BY <1>0, <3>1
    <3>4. PICK q \in mine : r = Marked(q)
      BY <2>6, <3>3
    <3>5. q \in imports /\ r.id = q.id /\ r.message = m /\ q.message = m /\ q.wallet = w
      BY <2>2, <2>4, <2>5, <3>1, <3>4
    <3>6. Newest(old) \in old
      BY <2>8, LatestIs
    <3>7. PICK s \in imports : /\ s.wallet = w /\ s.status = "confirmed"
                               /\ Newest(old).id = s.id /\ Newest(old).message = s.message
      BY <3>6, PublicOf
    <3>8. /\ s.message \in landed /\ s.message.wallet = w /\ m.wallet = w
          /\ s.id \in Nat /\ q.id \in Nat
      BY <2>3, <3>5, <3>7 DEF RowOk
    <3>9. /\ q.id = s.id => q = s
          /\ q.id < s.id => q.message.expires <= s.message.expires + MAX_CALL
      BY <3>5, <3>7 DEF Published, Table
    <3>10. q.status = "pending"
      BY <3>4
    <3>11. s.message = m \/ s.message.expires + IMPORT_COOLDOWN_SECS <= m.expires + TX_LIFETIME
      BY <2>2, <3>8 DEF LastLanded
    <3>12. s.message.expires \in Nat /\ m.expires \in Nat
      BY <2>2, <3>7, <2>3 DEF RowOk, IInv, Plans, PlanOk
    <3>13. s.message = m \/ q.id > s.id
      BY <3>5, <3>7, <3>8, <3>9, <3>10, <3>11, <3>12, Durations
    <3> QED BY <3>2, <3>5, <3>7, <3>13
  <2> QED BY <2>7, <2>8
<1>3. (\E c \in Calls : InsertPending(c)) \/ (\E c \in Calls : MarkConfirmed(c))
  BY DEF Next, Prepare, Submit, Network, ReadReputation, ReadClock, FetchHistory, BuildTx,
     DeletePending, DeleteWaits, DeleteResumes, CheckSubmitted, SendSubmitted, SeeConfirmed,
     ConfirmFails, WalletSends, Land, CreateAccount, Restart, CloseOutsideLoan, Tick, vars, table
<1> QED BY <1>1, <1>2, <1>3

-----------------------------------------------------------------------------
(* The theorems *)

\* No outside loan is counted by two imports, though two calls may plan against
\* the same import date and both of their transactions may be sent.
THEOREM NothingCountedTwice == Spec => []CountedOnce
<1>1. IInv => CountedOnce
  BY DEF IInv, Counts, CountedOnce
<1> QED BY <1>1, InitIInv, StepIInv, PTL DEF Spec

\* A public import is on-chain as it was planned, and the coverage shown for the
\* newest one adds up to the loans of its score.
THEOREM PublicIsOnChain == Spec => []ConfirmedIsOnChain
<1>1. Init => IInv /\ Published
  BY InitIInv, InitPublished
<1>2. IInv /\ Published /\ [Next]_vars => (IInv /\ Published)'
  BY StepIInv, StepPublished
<1> QED BY <1>1, <1>2, OnChain, PTL DEF Spec

\* A public import keeps its place and its content, whatever calls interleave.
THEOREM HistoryOnlyGrows == Spec => ConfirmedStays
<1>1. Init => IInv /\ Published
  BY InitIInv, InitPublished
<1>2. IInv /\ Published /\ [Next]_vars => (IInv /\ Published)'
  BY StepIInv, StepPublished
<1> QED BY <1>1, <1>2, StaysStep, PTL DEF Spec, ConfirmedStays
=============================================================================

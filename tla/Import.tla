------------------------------- MODULE Import -------------------------------
(*****************************************************************************)
(* The backend's history import (backend/src/history): a wallet asks for an  *)
(* import transaction, signs it and hands it back, or sends it itself.  The  *)
(* steps of a call are the stretches between two awaits; calls interleave,   *)
(* the server may be restarted between any two, and the network may lose a   *)
(* transaction or its answer.                                                *)
(*                                                                           *)
(* A loan is an outside loan of a wallet.  A score is the set of loans it    *)
(* was computed from.  The program's side (set_imported_score, init_score)   *)
(* is TrustTrail's; here it is the date, the counts and the cooldown.        *)
(*****************************************************************************)
EXTENDS Scoring, FiniteSetsExt, Functions

CONSTANTS
  Wallets, Calls, NoAccount, NoMessage,
  Loans, Owner,   \* outside loans and the wallet of each
  Protocol,       \* the protocol of each loan, one of those checked
  Times,          \* clock values at which something may happen
  TX_LIFETIME,    \* how long a blockhash is accepted (external: Solana)
  MAX_CALL,       \* the longest a call may run
  MAX_IMPORTS     \* bound: how many imports are prepared in all

ASSUME ImportAssumption ==
  /\ Owner \in [Loans -> Wallets] /\ DOMAIN Protocol = Loans
  /\ IsFiniteSet(Range(Protocol))
  /\ Times \subseteq Nat \ {0} /\ TX_LIFETIME \in Nat /\ MAX_CALL \in Nat
  /\ MAX_IMPORTS \in Nat /\ NoAccount \notin Nat
\* A plan is out of date long before its wallet may import again.
ASSUME PlanAssumption == MAX_CALL + TX_LIFETIME < IMPORT_COOLDOWN_SECS

VARIABLES
  now,          \* the cluster's clock
  closed_at,    \* when each outside loan was closed; 0 while it is open
  import_date,  \* UserReputationV2.import_date, or NoAccount
  counted,      \* how many imports have counted each loan on-chain
  landed,       \* import transactions executed on-chain
  issued,       \* import transactions handed to wallets, signed by the writer
  in_flight,    \* transactions sent to the network
  imports,      \* rows of the imports table
  next_id,      \* the table's BIGSERIAL
  calls         \* the HTTP calls being served

chain == <<import_date, counted, landed>>
table == <<imports, next_id>>
vars == <<now, closed_at, chain, issued, in_flight, table, calls>>

\* What set_imported_score is asked to write, and the blockhash's end.
Message ==
  [wallet : Wallets, needs_init : BOOLEAN, scored : SUBSET Loans, fresh : SUBSET Loans,
   expires : Nat]
\* The import_loans of a row are those of the score and those without a price.
Row == [id : Nat, wallet : Wallets, status : {"pending", "confirmed"}, message : Message,
        dropped : SUBSET Loans]

Idle == [phase |-> "idle", wallet |-> CHOOSE w \in Wallets : TRUE, started |-> 0,
         read |-> NoAccount, scored |-> {}, dropped |-> {}, message |-> NoMessage,
         seen |-> {}, doomed |-> {}, id |-> 0]
Running(c) == calls[c].phase # "idle"
\* The calls that may still insert a row.
Preparing ==
  {c \in Calls :
     calls[c].phase \in {"clock", "history", "blockhash", "delete", "blocked", "insert"}}

-----------------------------------------------------------------------------
(* The table *)

\* Mutant: the status is not looked at.
AnyRowOf(w) == {r \in imports : r.wallet = w}
PendingOf(w) == {r \in imports : r.wallet = w /\ r.status = "pending"}

\* Rows deleted by a transaction that has not committed: others wait for them.
Locked == UNION {calls[c].doomed : c \in Calls}

\* The public history; the record page shows the newest, the one of the largest id.
PublicLoans(r) ==
  {[loan |-> l, priced |-> l \in r.message.scored] : l \in r.message.scored \cup r.dropped}
Public(r) == [id |-> r.id, message |-> r.message, loans |-> PublicLoans(r)]
importHistory(w) == {Public(r) : r \in {i \in imports : i.wallet = w /\ i.status = "confirmed"}}
Newest(history) == CHOOSE p \in history : \A q \in history : q.id <= p.id
\* null, as the 404 of a wallet that never imported.
getLatestImport(w) ==
  IF importHistory(w) = {} THEN NoMessage ELSE Newest(importHistory(w))

\* coverage.ts: what the latest import found on each protocol it checked.
coverageOf(latest) ==
  [p \in Range(Protocol) |->
     IF latest = NoMessage THEN [loans |-> 0, unpriced |-> 0]
     ELSE LET found == {l \in latest.loans : Protocol[l.loan] = p}
          IN  [loans |-> Cardinality(found), unpriced |-> Cardinality({l \in found : ~l.priced})]]

-----------------------------------------------------------------------------
(* set_imported_score on-chain *)

\* A date of 0 is "never imported".
CooldownPassed(date) == IF date \in {NoAccount, 0} THEN TRUE ELSE now - date >= IMPORT_COOLDOWN_SECS

\* Mutant: the program does not look at import_date.
ExecutableAtAnyTime(m) ==
  /\ now <= m.expires
  /\ m \notin landed
  /\ m.needs_init <=> import_date[m.wallet] = NoAccount
Executable(m) ==
  /\ now <= m.expires
  /\ m \notin landed
  /\ m.needs_init <=> import_date[m.wallet] = NoAccount
  /\ CooldownPassed(import_date[m.wallet])

-----------------------------------------------------------------------------
(* prepareImport *)

Step(c, change) == calls' = [calls EXCEPT ![c] = change]

ReadReputation(c, w) ==
  /\ calls[c].phase = "idle"
  /\ next_id + Cardinality(Preparing) <= MAX_IMPORTS
  /\ Step(c, [Idle EXCEPT !.phase = "clock", !.wallet = w, !.started = now,
                          !.read = import_date[w]])
  /\ UNCHANGED <<now, closed_at, chain, issued, in_flight, table>>

\* Refused within 15 days of the import date that was read.
ReadClock(c) ==
  LET call == calls[c]
  IN  /\ call.phase = "clock"
      /\ Step(c, IF CooldownPassed(call.read) THEN [call EXCEPT !.phase = "history"]
                 ELSE Idle)
      /\ UNCHANGED <<now, closed_at, chain, issued, in_flight, table>>

\* The closed loans of the wallet; those no source has a price for are dropped.
FetchHistory(c) ==
  /\ calls[c].phase = "history"
  /\ LET closed == {l \in Loans : Owner[l] = calls[c].wallet /\ closed_at[l] # 0}
     IN  \E priced \in SUBSET closed :
           Step(c, [calls[c] EXCEPT !.phase = "blockhash", !.scored = priced,
                                    !.dropped = closed \ priced])
  /\ UNCHANGED <<now, closed_at, chain, issued, in_flight, table>>

\* importPlan.ts isNewSince
IsNewSince(l, date) == closed_at[l] > date

BuildTx(c) ==
  LET call == calls[c]
      date == IF call.read = NoAccount THEN 0 ELSE call.read
  IN  /\ call.phase = "blockhash"
      /\ Step(c, [call EXCEPT !.phase = "delete", !.message =
           [wallet |-> call.wallet, needs_init |-> call.read = NoAccount,
            scored |-> call.scored, fresh |-> {l \in call.scored : IsNewSince(l, date)},
            expires |-> now + TX_LIFETIME]])
      /\ UNCHANGED <<now, closed_at, chain, issued, in_flight, table>>

\* savePending is one SQL transaction: a DELETE, then the INSERTs and COMMIT.
DeletePending(c) ==
  LET old == PendingOf(calls[c].wallet)
  IN  /\ calls[c].phase = "delete"
      /\ old \cap Locked = {}
      /\ Step(c, [calls[c] EXCEPT !.phase = "insert", !.doomed = old])
      /\ UNCHANGED <<now, closed_at, chain, issued, in_flight, table>>

\* A DELETE that meets a row another transaction is deleting waits for it.  It
\* then looks again at the rows it saw, not at those inserted meanwhile (READ
\* COMMITTED: external, PostgreSQL's default).
DeleteWaits(c) ==
  LET old == PendingOf(calls[c].wallet)
  IN  /\ calls[c].phase = "delete"
      /\ old \cap Locked # {}
      /\ Step(c, [calls[c] EXCEPT !.phase = "blocked", !.seen = old])
      /\ UNCHANGED <<now, closed_at, chain, issued, in_flight, table>>
DeleteResumes(c) ==
  LET call == calls[c]
  IN  /\ call.phase = "blocked"
      /\ call.seen \cap Locked = {}
      /\ Step(c, [call EXCEPT !.phase = "insert", !.seen = {},
                             !.doomed = call.seen \cap PendingOf(call.wallet)])
      /\ UNCHANGED <<now, closed_at, chain, issued, in_flight, table>>

InsertPending(c) ==
  LET call == calls[c]
  IN  /\ call.phase = "insert"
      /\ imports' = (imports \ call.doomed) \cup
           {[id |-> next_id, wallet |-> call.wallet, status |-> "pending",
             message |-> call.message, dropped |-> call.dropped]}
      /\ next_id' = next_id + 1
      /\ issued' = issued \cup {call.message}
      /\ Step(c, Idle)
      /\ UNCHANGED <<now, closed_at, chain, in_flight>>

-----------------------------------------------------------------------------
(* submitImport *)

\* The row must be pending and the co-signed message the one it was saved with.
CheckSubmitted(c, m) ==
  /\ calls[c].phase = "idle"
  /\ \E r \in imports :
       /\ r.status = "pending" /\ r.message = m
       /\ Step(c, [Idle EXCEPT !.phase = "send", !.wallet = m.wallet, !.started = now,
                               !.message = m, !.id = r.id])
  /\ UNCHANGED <<now, closed_at, chain, issued, in_flight, table>>

\* sendRawTransaction simulates first.  It may also fail with the transaction
\* already forwarded.
SendSubmitted(c) ==
  LET m == calls[c].message
  IN  /\ calls[c].phase = "send"
      /\ \/ /\ Executable(m)
            /\ in_flight' = in_flight \cup {m}
            /\ Step(c, [calls[c] EXCEPT !.phase = "confirm"])
         \/ /\ in_flight' \in {in_flight, in_flight \cup {m}}
            /\ Step(c, Idle)
      /\ UNCHANGED <<now, closed_at, chain, issued, table>>

\* Mutant: the transaction's result is not awaited.
SeeConfirmedUnawaited(c) ==
  /\ calls[c].phase = "confirm"
  /\ Step(c, [calls[c] EXCEPT !.phase = "update"])
  /\ UNCHANGED <<now, closed_at, chain, issued, in_flight, table>>
SeeConfirmed(c) ==
  /\ calls[c].phase = "confirm"
  /\ calls[c].message \in landed
  /\ Step(c, [calls[c] EXCEPT !.phase = "update"])
  /\ UNCHANGED <<now, closed_at, chain, issued, in_flight, table>>

\* confirmTransaction throws: the blockhash ran out, or the RPC node failed.
ConfirmFails(c) ==
  /\ calls[c].phase = "confirm"
  /\ Step(c, Idle)
  /\ UNCHANGED <<now, closed_at, chain, issued, in_flight, table>>

\* confirmImport: the row is confirmed if it is still there and pending.  The
\* caller does not look at the answer.
MarkConfirmed(c) ==
  LET mine == {r \in imports : r.id = calls[c].id /\ r.status = "pending"}
  IN  /\ calls[c].phase = "update"
      /\ mine \cap Locked = {}
      /\ imports' = (imports \ mine) \cup {[r EXCEPT !.status = "confirmed"] : r \in mine}
      /\ Step(c, Idle)
      /\ UNCHANGED <<now, closed_at, chain, issued, in_flight, next_id>>

-----------------------------------------------------------------------------
(* The wallet, the network and the server's host *)

WalletSends(m) ==
  /\ m \notin in_flight
  /\ in_flight' = in_flight \cup {m}
  /\ UNCHANGED <<now, closed_at, chain, issued, table, calls>>

\* init_score_v2 outside an import, for example before a first loan.
CreateAccount(w) ==
  /\ import_date[w] = NoAccount
  /\ import_date' = [import_date EXCEPT ![w] = 0]
  /\ UNCHANGED <<now, closed_at, counted, landed, issued, in_flight, table, calls>>

\* A transaction the program refuses changes nothing: it is as good as lost.
Land(m) ==
  /\ Executable(m)
  /\ import_date' = [import_date EXCEPT ![m.wallet] = now]
  /\ counted' = [l \in Loans |-> counted[l] + IF l \in m.fresh THEN 1 ELSE 0]
  /\ landed' = landed \cup {m}
  /\ UNCHANGED <<now, closed_at, issued, in_flight, table, calls>>

\* A restart ends every call; Postgres rolls an open transaction back.
Restart ==
  /\ \E c \in Calls : Running(c)
  /\ calls' = [c \in Calls |-> IF Running(c) THEN Idle ELSE calls[c]]
  /\ UNCHANGED <<now, closed_at, chain, issued, in_flight, table>>

CloseOutsideLoan(l) ==
  /\ closed_at[l] = 0
  /\ closed_at' = [closed_at EXCEPT ![l] = now]
  /\ UNCHANGED <<now, chain, issued, in_flight, table, calls>>

Tick ==
  /\ now' \in {t \in Times : t > now}
  /\ \A c \in Calls : Running(c) => now' - calls[c].started <= MAX_CALL
  /\ UNCHANGED <<closed_at, chain, issued, in_flight, table, calls>>

-----------------------------------------------------------------------------

Init ==
  /\ now \in Times
  /\ closed_at = [l \in Loans |-> 0]
  /\ import_date = [w \in Wallets |-> NoAccount]
  /\ counted = [l \in Loans |-> 0]
  /\ landed = {} /\ issued = {} /\ in_flight = {}
  /\ imports = {} /\ next_id = 1
  /\ calls = [c \in Calls |-> Idle]

Prepare(c) ==
  \/ \E w \in Wallets : ReadReputation(c, w)
  \/ ReadClock(c) \/ FetchHistory(c) \/ BuildTx(c) \/ DeletePending(c)
  \/ DeleteWaits(c) \/ DeleteResumes(c) \/ InsertPending(c)
Submit(c) ==
  \/ \E m \in issued : CheckSubmitted(c, m)
  \/ SendSubmitted(c) \/ SeeConfirmed(c) \/ ConfirmFails(c) \/ MarkConfirmed(c)
Network ==
  \/ \E m \in issued : WalletSends(m)
  \/ \E m \in in_flight : Land(m)
  \/ \E w \in Wallets : CreateAccount(w)

Next ==
  \/ \E c \in Calls : Prepare(c) \/ Submit(c)
  \/ Network \/ Restart
  \/ \E l \in Loans : CloseOutsideLoan(l)
  \/ Tick

Spec == Init /\ [][Next]_vars

-----------------------------------------------------------------------------
(* Properties *)

\* The rows and the calls have the shapes of store.ts and importService.ts, and
\* an id names one row.
TypeOK ==
  /\ now \in Times
  /\ closed_at \in [Loans -> Times \cup {0}]
  /\ import_date \in [Wallets -> Times \cup {0, NoAccount}]
  /\ counted \in [Loans -> Nat]
  /\ issued \subseteq Message /\ in_flight \subseteq issued /\ landed \subseteq in_flight
  /\ imports \subseteq Row /\ \A r, s \in imports : r.id = s.id => r = s
  /\ \A r \in imports : r.id < next_id
  /\ \A c \in Calls : calls[c].doomed \subseteq imports /\ calls[c].scored \subseteq Loans

\* No loan is counted by two imports of its wallet (docs/history-import.md:41
\* "so nothing is counted twice"): the date a plan was made against is still
\* the wallet's import_date when the plan lands.
CountedOnce == \A l \in Loans : counted[l] <= 1

\* A public import is on-chain as it was planned: its transaction landed, and the
\* loans it says it counted are counted.  The coverage on the score page adds up
\* to the loans of the wallet's latest one, none of them twice.
ConfirmedIsOnChain ==
  /\ \A r \in imports : r.status = "confirmed" =>
       r.message \in landed /\ \A l \in r.message.fresh : counted[l] > 0
  /\ \A w \in Wallets :
       LET latest == getLatestImport(w)
           coverage == coverageOf(latest)
           priced == [p \in DOMAIN coverage |-> coverage[p].loans - coverage[p].unpriced]
       IN  latest # NoMessage =>
             /\ SumFunctionOnSet(priced, DOMAIN priced) = Cardinality(latest.message.scored)
             /\ \A l \in latest.loans : closed_at[l.loan] # 0 /\ Owner[l.loan] = w

\* A wallet's public history only grows at its head: whatever is prepared,
\* submitted or marked after it, a public import keeps its place and its content
\* (store.ts:102-104 deletes only pending ones), though imports are marked in
\* another order than they were prepared.  The one row that may come in below
\* the head is a second row of the head's own transaction: two prepares in one
\* slot give the same message, and each row can be submitted with it.
ConfirmedStays ==
  [][ \A w \in Wallets :
        LET old == importHistory(w)
            new == importHistory(w)'
        IN  /\ old \subseteq new
            /\ old # {} => \A r \in new \ old :
                 r.id > Newest(old).id \/ r.message = Newest(old).message ]_imports
=============================================================================

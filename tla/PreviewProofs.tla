--------------------------- MODULE PreviewProofs ---------------------------
(*****************************************************************************)
(* The preview, for any number of calls and whatever fails, hangs or         *)
(* restarts: its lock is held by exactly one call from taking it to          *)
(* answering, an answer is served from the cache as long as it is fresh, no  *)
(* window holds more reads than the limits allow, and a caller refused is    *)
(* told a time by which it has room.  And what a preview reads: the loans    *)
(* built from any events are borrow cycles of them, one after the other, and *)
(* the price of each is as near to its peak as any the sources have.         *)
(*****************************************************************************)
EXTENDS Preview, Prices, SumTheorems

CONSTANTS REPAY_ALL, Terms  \* of BuildLoans; its DAY is Preview's
INSTANCE BuildLoans

\* A call is a record with the fields of Init's, whatever they hold.
IsCall(r) ==
  r \in [phase : Phases, wallet : {r.wallet}, ip : {r.ip}, now : {r.now}, row : {r.row},
         worker : {r.worker}, retryAt : {r.retryAt}, storedAt : {r.storedAt}]
Shape ==
  /\ calls = [c \in Calls |-> calls[c]]
  /\ \A c \in Calls : IsCall(calls[c])

IInv == Shape /\ OneReadAtATime

-----------------------------------------------------------------------------
(* What a step may do to one call *)

\* A record with its phase, or its worker too, replaced is a call with that phase.
LEMMA PhaseReplaced ==
  ASSUME NEW r, NEW p \in Phases, IsCall(r)
  PROVE  /\ IsCall([r EXCEPT !.phase = p]) /\ [r EXCEPT !.phase = p].phase = p
         /\ [r EXCEPT !.phase = p].wallet = r.wallet
  BY DEF IsCall

\* Likewise for the record of a call that ended.
LEMMA EndedIsCall ==
  ASSUME NEW r, NEW p \in Phases, IsCall(r)
  PROVE  IsCall(Ended(r, p)) /\ Ended(r, p).phase = p
  BY DEF IsCall, Ended

\* A call is replaced by another record of its kind, the others stay.
LEMMA OneCall ==
  ASSUME Shape, NEW c \in Calls, NEW r, IsCall(r), calls' = [calls EXCEPT ![c] = r]
  PROVE  /\ Shape'
         /\ calls'[c] = r
         /\ \A d \in Calls \ {c} : calls'[d] = calls[d]
<1>1. /\ calls' = [d \in Calls |-> calls'[d]]
      /\ calls'[c] = r
      /\ \A d \in Calls \ {c} : calls'[d] = calls[d]
  BY DEF Shape
<1>2. Shape'
  BY <1>1 DEF Shape
<1> QED BY <1>1, <1>2

\* The lock follows the phase of the call that is replaced: it is kept, released,
\* or taken when free.
LEMMA OneCallSteps ==
  ASSUME IInv, NEW c \in Calls, NEW r, IsCall(r), calls' = [calls EXCEPT ![c] = r],
         \/ (r.phase \in Locked <=> HasLock(c)) /\ held' = held
         \/ HasLock(c) /\ r.phase \notin Locked /\ held' = FALSE
         \/ ~held /\ r.phase \in Locked /\ held' = TRUE
  PROVE  IInv'
<1>1. /\ Shape' /\ calls'[c] = r
      /\ \A d \in Calls \ {c} : calls'[d] = calls[d]
  BY OneCall DEF IInv
<1>2. /\ HasLock(c)' <=> r.phase \in Locked
      /\ \A d \in Calls \ {c} : HasLock(d)' <=> HasLock(d)
  BY <1>1 DEF HasLock
<1>3. OneReadAtATime'
  BY <1>2 DEF IInv, OneReadAtATime
<1> QED BY <1>1, <1>3 DEF IInv

\* A call moves to another phase, the lock with it.
LEMMA CallGoes ==
  ASSUME IInv, NEW c \in Calls, NEW p \in Phases, Goto(c, p),
         \/ (p \in Locked <=> HasLock(c)) /\ held' = held
         \/ ~held /\ p \in Locked /\ held' = TRUE
  PROVE  IInv'
<1> DEFINE r == [calls[c] EXCEPT !.phase = p]
<1>1. IsCall(r) /\ r.phase = p
  BY PhaseReplaced DEF IInv, Shape
<1>2. calls' = [calls EXCEPT ![c] = r]
  BY DEF Goto
<1> HIDE DEF r
<1> QED BY <1>1, <1>2, OneCallSteps

\* A call ends, and releases the lock if it has it.
LEMMA CallAnswers ==
  ASSUME IInv, NEW c \in Calls, NEW p \in Answers, Answer(c, p),
         \/ ~HasLock(c) /\ held' = held
         \/ HasLock(c) /\ held' = FALSE
  PROVE  IInv'
<1> DEFINE r == Ended(calls[c], p)
<1>1. p \in Phases /\ p \notin Locked
  BY DEF Answers, Locked, Phases
<1>2. IsCall(r) /\ r.phase = p
  BY <1>1, EndedIsCall DEF IInv, Shape
<1>3. calls' = [calls EXCEPT ![c] = r]
  BY DEF Answer
<1> HIDE DEF r
<1> QED BY <1>1, <1>2, <1>3, OneCallSteps

\* A limit's check refuses a call and releases the lock, or lets it go on.
LEMMA CallRefused ==
  ASSUME IInv, NEW c \in Calls, HasLock(c), NEW rows, NEW window, NEW limit,
         NEW answer \in Answers, NEW next \in Locked,
         RefuseOr(c, rows, window, limit, answer, next)
  PROVE  IInv'
<1> DEFINE at == Oldest(Since(rows, calls[c].now - window)) + window
           r == [Ended(calls[c], answer) EXCEPT !.retryAt = at]
<1>1. answer \in Phases /\ answer \notin Locked /\ next \in Phases
  BY DEF Answers, Locked, Phases
<1>2. CASE calls' = [calls EXCEPT ![c] = r] /\ held' = FALSE
  <2>1. IsCall(Ended(calls[c], answer)) /\ Ended(calls[c], answer).phase = answer
    BY <1>1, EndedIsCall DEF IInv, Shape
  <2> HIDE DEF at
  <2>2. IsCall(r) /\ r.phase = answer
    BY <2>1 DEF IsCall
  <2> HIDE DEF r
  <2> QED BY <1>1, <1>2, <2>2, OneCallSteps
<1>3. CASE Goto(c, next) /\ held' = held
  BY <1>1, <1>3, CallGoes
<1> QED BY <1>2, <1>3 DEF RefuseOr

-----------------------------------------------------------------------------
(* The theorem *)

LEMMA InitIInv == Init => IInv
<1> SUFFICES ASSUME Init PROVE IInv
  OBVIOUS
<1>1. Shape
  BY DEF Init, Shape, IsCall, Phases
<1>2. \A c \in Calls : ~HasLock(c)
  BY DEF Init, HasLock, Locked
<1> QED BY <1>1, <1>2 DEF Init, IInv, OneReadAtATime

LEMMA NextIInv == IInv /\ [Next]_vars => IInv'
<1> SUFFICES ASSUME IInv, [Next]_vars PROVE IInv'
  OBVIOUS
<1>1. ASSUME NEW c \in Calls, Lookup(c) PROVE IInv'
  <2>1. ~HasLock(c) /\ held' = held
    BY <1>1 DEF Lookup, HasLock, Locked
  <2>2. CASE Answer(c, "cached")
    BY <2>1, <2>2, CallAnswers DEF Answers
  <2>3. CASE Goto(c, "miss")
    BY <2>1, <2>3, CallGoes DEF Phases, Locked
  <2> QED BY <1>1, <2>2, <2>3 DEF Lookup
<1>2. ASSUME NEW c \in Calls, Miss(c) PROVE IInv'
  <2>1. ~HasLock(c)
    BY <1>2 DEF Miss, HasLock, Locked
  <2>2. CASE ~held /\ held' = TRUE /\ Goto(c, "count_ip")
    BY <2>2, CallGoes DEF Phases, Locked
  <2>3. CASE held /\ Answer(c, "busy") /\ held' = held
    BY <2>1, <2>3, CallAnswers DEF Answers
  <2> QED BY <1>2, <2>2, <2>3 DEF Miss
<1>3. ASSUME NEW c \in Calls, CountIp(c) PROVE IInv'
  BY <1>3, CallRefused DEF CountIp, HasLock, Locked, Answers
<1>4. ASSUME NEW c \in Calls, CountDay(c) PROVE IInv'
  BY <1>4, CallRefused DEF CountDay, HasLock, Locked, Answers
<1>5. ASSUME NEW c \in Calls, Clean(c) PROVE IInv'
  BY <1>5, CallGoes DEF Clean, HasLock, Locked, Phases
<1>6. ASSUME NEW c \in Calls, Reserve(c) PROVE IInv'
  <2> DEFINE r == [calls[c] EXCEPT !.phase = "read", !.row = nextId, !.worker = "running"]
  <2>1. IsCall(r) /\ r.phase = "read"
    BY DEF IInv, Shape, IsCall, Phases, Locked
  <2>2. HasLock(c) /\ held' = held /\ calls' = [calls EXCEPT ![c] = r]
    BY <1>6 DEF Reserve, HasLock, Locked, IInv, Shape
  <2> HIDE DEF r
  <2> QED BY <2>1, <2>2, OneCallSteps DEF Locked
<1>7. ASSUME NEW c \in Calls, QueryFails(c) PROVE IInv'
  <2>1. CASE ~HasLock(c) /\ Answer(c, "failed") /\ held' = held
    BY <2>1, CallAnswers DEF Answers
  <2>2. CASE HasLock(c) /\ AnswerAndRelease(c, "failed")
    BY <2>2, CallAnswers DEF Answers, AnswerAndRelease
  <2> QED BY <1>7, <2>1, <2>2 DEF QueryFails, HasLock, Locked
<1>8. ASSUME NEW c \in Calls, WorkerSettles(c) \/ Timer(c) PROVE IInv'
  <2>1. PICK p \in {"store", "fail"} : Settle(c, p)
    BY <1>8 DEF WorkerSettles, Timer
  <2> DEFINE r == [calls[c] EXCEPT !.phase = p, !.worker = "none"]
  <2>2. IsCall(r) /\ r.phase = p
    BY DEF IInv, Shape, IsCall, Phases, Locked
  <2>3. HasLock(c) /\ held' = held /\ calls' = [calls EXCEPT ![c] = r]
    BY <1>8, <2>1 DEF WorkerSettles, Timer, Settle, HasLock, Locked, IInv, Shape
  <2> HIDE DEF r
  <2> QED BY <2>2, <2>3, OneCallSteps DEF Locked
<1>9. ASSUME NEW c \in Calls, Store(c) PROVE IInv'
  <2> DEFINE r == [Ended(calls[c], "ok") EXCEPT !.storedAt = now]
  <2>1. HasLock(c)
    BY <1>9 DEF Store, HasLock, Locked
  <2>2. CASE calls' = [calls EXCEPT ![c] = r] /\ held' = FALSE
    <3>1. IsCall(Ended(calls[c], "ok")) /\ Ended(calls[c], "ok").phase = "ok"
      BY EndedIsCall DEF IInv, Shape, Phases, Answers
    <3>2. IsCall(r) /\ r.phase = "ok"
      BY <3>1 DEF IsCall
    <3> HIDE DEF r
    <3> QED BY <2>1, <2>2, <3>2, OneCallSteps DEF Locked
  <2>3. CASE Goto(c, "fail") /\ held' = held
    BY <2>1, <2>3, CallGoes DEF Locked, Phases
  <2> QED BY <1>9, <2>2, <2>3 DEF Store
<1>10. ASSUME NEW c \in Calls, MarkFailed(c) PROVE IInv'
  BY <1>10, CallAnswers DEF MarkFailed, AnswerAndRelease, HasLock, Locked, Answers
<1>11. ASSUME NEW c \in Calls, WorkerStep(c) PROVE IInv'
  <2>1. PICK e \in Settling : calls' = [calls EXCEPT ![c].worker = e]
    BY <1>11 DEF WorkerStep
  <2> DEFINE r == [calls[c] EXCEPT !.worker = e]
  <2>2. IsCall(r) /\ r.phase = calls[c].phase
    BY DEF IInv, Shape, IsCall
  <2>3. held' = held /\ calls' = [calls EXCEPT ![c] = r]
    BY <1>11, <2>1 DEF WorkerStep
  <2> HIDE DEF r
  <2> QED BY <2>2, <2>3, OneCallSteps DEF HasLock
<1>12. ASSUME NEW c \in Calls, NEW w \in Wallets, NEW ip \in Ips, Start(c, w, ip) PROVE IInv'
  <2> DEFINE r == [calls[c] EXCEPT !.phase = "lookup", !.wallet = w, !.ip = ip, !.now = now]
  <2>1. IsCall(r) /\ r.phase = "lookup"
    BY DEF IInv, Shape, IsCall, Phases
  <2>2. ~HasLock(c) /\ held' = held /\ calls' = [calls EXCEPT ![c] = r]
    BY <1>12 DEF Start, HasLock, Locked
  <2> HIDE DEF r
  <2> QED BY <2>1, <2>2, OneCallSteps DEF Locked
<1>13. CASE Restart
  <2>1. \A c \in Calls : /\ IsCall(Ended(calls[c], "lost"))
                         /\ Ended(calls[c], "lost").phase = "lost"
    BY EndedIsCall DEF IInv, Shape, Phases, Answers
  <2>2. \A c \in Calls : IsCall(calls[c])'
    BY <1>13, <2>1 DEF Restart, IInv, Shape
  <2>3. \A c \in Calls : ~HasLock(c)'
    BY <1>13, <2>1 DEF Restart, HasLock, Locked, Running, Answers
  <2> QED BY <1>13, <2>2, <2>3 DEF Restart, IInv, Shape, OneReadAtATime
<1>14. CASE UNCHANGED vars \/ Tick
  BY <1>14 DEF Tick, vars, IInv, Shape, OneReadAtATime, HasLock, IsCall
<1> QED
  BY <1>1, <1>2, <1>3, <1>4, <1>5, <1>6, <1>7, <1>8, <1>9, <1>10, <1>11, <1>12, <1>13, <1>14
  DEF Next, Serve

\* Two histories are never read at once, and the lock is never left held: for any
\* number of calls, whatever the worker, the database and the host do
\* (preview.ts:66).
THEOREM OneRead == Spec => []OneReadAtATime
<1>1. IInv => OneReadAtATime
  BY DEF IInv
<1> QED BY <1>1, InitIInv, NextIInv, PTL DEF Spec

-----------------------------------------------------------------------------
(* The cache.  A call past its lookup is no later than any answer it could   *)
(* have been given, because at its lookup the row of that answer was in the  *)
(* table, done, and not yet old enough for another call to clean it away.    *)

Early == {"idle", "lookup", "miss", "count_ip", "count_day", "clean", "reserve"}
Reading == {"read", "store", "fail"}
Past == Locked \cup {"miss"}

IsRow(r) ==
  r \in [id : Nat, wallet : {r.wallet}, requester_ip : {r.requester_ip},
         status : {"pending", "done", "failed"}, created_at : Nat]

Typed ==
  /\ now \in Nat /\ nextId \in Nat
  /\ \A r \in import_previews : IsRow(r) /\ r.id < nextId
  /\ \A c \in Calls :
       /\ calls[c].now \in Nat /\ calls[c].storedAt \in Nat
       /\ calls[c].row # NoRow => calls[c].row \in Nat /\ calls[c].row < nextId

\* A call runs for MAX_CALL at most, and reads the clock when it starts.
Timely ==
  \A c \in Calls :
    /\ calls[c].phase # "idle" => calls[c].now <= now
    /\ Running(c) => now <= calls[c].now + MAX_CALL
    /\ calls[c].storedAt <= now

\* A call that reads or has read has a row of its own.
RowsOwned ==
  /\ \A c \in Calls :
       /\ calls[c].phase \in Early => calls[c].row = NoRow
       /\ calls[c].phase \in Reading \cup {"ok"} => calls[c].row # NoRow
       /\ \A r \in import_previews :
            r.id = calls[c].row => r.wallet = calls[c].wallet /\ r.created_at = calls[c].now
  /\ \A c, d \in Calls : c # d /\ calls[c].row = calls[d].row => calls[c].row = NoRow

\* It is in the table until it is cleaned away, and done once the call answered.
RowKept ==
  \A c \in Calls :
    /\ calls[c].phase \in {"read", "store", "ok"}
    /\ now <= calls[c].now + PREVIEW_KEEP_SECS
    => \E r \in import_previews :
         r.id = calls[c].row /\ (calls[c].phase = "ok" => r.status = "done")

\* The answer of c would still serve d.
Late(c, d) ==
  /\ calls[c].phase = "ok" /\ calls[c].wallet = calls[d].wallet
  /\ calls[d].now > calls[c].storedAt
  /\ calls[d].now - calls[c].now < CACHE_HOURS * HOUR
NeverLate ==
  \A c, d \in Calls : Late(c, d) => calls[d].phase \notin Past /\ calls[d].row = NoRow

CInv == Shape /\ Typed /\ Timely /\ RowsOwned /\ RowKept /\ NeverLate

\* What a step leaves of a call that it moves to another phase.
Same(r, s) == s.wallet = r.wallet /\ s.now = r.now /\ s.row = r.row /\ s.storedAt = r.storedAt

LEMMA MovedIsSame ==
  ASSUME NEW r, NEW p \in Phases, IsCall(r)
  PROVE  /\ IsCall([r EXCEPT !.phase = p]) /\ [r EXCEPT !.phase = p].phase = p
         /\ Same(r, [r EXCEPT !.phase = p])
         /\ IsCall(Ended(r, p)) /\ Ended(r, p).phase = p /\ Same(r, Ended(r, p))
  BY DEF IsCall, Ended, Same

\* A running call moves to another phase, and the rows and the clock stay.
LEMMA CallMoves ==
  ASSUME CInv, NEW c \in Calls, NEW r, IsCall(r), calls' = [calls EXCEPT ![c] = r],
         Same(calls[c], r), Running(c), UNCHANGED <<now, import_previews, nextId>>,
         r.phase \notin {"idle", "ok"},
         r.phase \in Early => calls[c].phase \in Early,
         r.phase \in Reading => calls[c].phase \in Reading,
         r.phase \in {"read", "store"} => calls[c].phase \in {"read", "store"},
         r.phase \in Past => \/ calls[c].phase \in Past
                             \/ \A d \in Calls : ~Late(d, c)
  PROVE  CInv'
<1>1. /\ Shape' /\ calls'[c] = r
      /\ \A d \in Calls \ {c} : calls'[d] = calls[d]
  BY OneCall DEF CInv
<1>2. Typed'
  BY <1>1 DEF CInv, Typed, Same
<1>3. Timely'
  BY <1>1 DEF CInv, Timely, Same, Running
<1>4. RowsOwned'
  <2>1. ASSUME NEW d \in Calls
        PROVE  /\ calls'[d].phase \in Early => calls'[d].row = NoRow
               /\ calls'[d].phase \in Reading \cup {"ok"} => calls'[d].row # NoRow
               /\ calls'[d].row = calls[d].row /\ calls'[d].wallet = calls[d].wallet
               /\ calls'[d].now = calls[d].now
    BY <1>1 DEF CInv, RowsOwned, Same
  <2> QED BY <2>1 DEF CInv, RowsOwned
<1>5. RowKept'
  BY <1>1 DEF CInv, RowKept, Same
<1>6. NeverLate'
  <2> SUFFICES ASSUME NEW d \in Calls, NEW e \in Calls, Late(d, e)'
               PROVE  calls'[e].phase \notin Past /\ calls'[e].row = NoRow
    BY DEF NeverLate
  <2>1. Late(d, e)
    BY <1>1 DEF Late, Same
  <2> QED BY <2>1, <1>1 DEF CInv, NeverLate, Same
<1> QED BY <1>1, <1>2, <1>3, <1>4, <1>5, <1>6 DEF CInv

\* The lookup misses only when no answer would serve the call: the row of such an
\* answer cannot have been cleaned away yet.
LEMMA MissIsRight ==
  ASSUME CInv, NEW c \in Calls, Lookup(c), Goto(c, "miss"),
         NEW e \in Calls, Late(e, c)
  PROVE  FALSE
<1>1. ~\E r \in import_previews :
         /\ r.wallet = calls[c].wallet /\ r.status = "done"
         /\ r.created_at > calls[c].now - CACHE_HOURS * HOUR
  <2>1. /\ Ended(calls[c], "cached").phase = "cached"
        /\ [calls[c] EXCEPT !.phase = "miss"].phase = "miss"
    BY MovedIsSame DEF CInv, Shape, Phases, Answers
  <2>2. /\ [calls EXCEPT ![c] = Ended(calls[c], "cached")][c] = Ended(calls[c], "cached")
        /\ [calls EXCEPT ![c].phase = "miss"][c] = [calls[c] EXCEPT !.phase = "miss"]
    BY DEF CInv, Shape
  <2>3. ~Answer(c, "cached")
    BY <2>1, <2>2 DEF Goto, Answer
  <2> QED BY <2>3 DEF Lookup
<1>2. /\ calls[c].now \in Nat /\ calls[e].now \in Nat /\ now \in Nat
      /\ now <= calls[c].now + MAX_CALL
  BY DEF CInv, Typed, Timely, Running, Lookup, Answers
<1>3. CACHE_HOURS * HOUR \in Nat /\ MAX_CALL \in Nat /\ PREVIEW_KEEP_SECS \in Nat
  BY PreviewAssumption DEF PREVIEW_KEEP_SECS
<1>4. now <= calls[e].now + PREVIEW_KEEP_SECS
  BY <1>2, <1>3, KeepAssumption DEF Late
<1>5. PICK r \in import_previews : r.id = calls[e].row /\ r.status = "done"
  BY <1>4 DEF CInv, RowKept, Late
<1>6. r.wallet = calls[e].wallet /\ r.created_at = calls[e].now
  BY <1>5 DEF CInv, RowsOwned
<1> QED BY <1>1, <1>2, <1>3, <1>5, <1>6 DEF Late

LEMMA InitCInv == Init => CInv
<1> SUFFICES ASSUME Init PROVE CInv
  OBVIOUS
<1>1. \A c \in Calls : /\ calls[c].phase = "idle" /\ calls[c].row = NoRow
                       /\ calls[c].now = 0 /\ calls[c].storedAt = 0
  BY DEF Init
<1>2. Shape
  BY DEF Init, Shape, IsCall, Phases
<1>3. now \in Nat
  BY PreviewAssumption DEF Init
<1> QED BY <1>1, <1>2, <1>3 DEF Init, CInv, Typed, Timely, Running, RowsOwned, Early, Reading,
                             RowKept, NeverLate, Late, Answers

\* The steps that only move a call to another phase.
LEMMA PhaseStepsCInv ==
  ASSUME CInv, NEW c \in Calls,
         \/ Lookup(c) \/ Miss(c) \/ CountIp(c) \/ CountDay(c)
         \/ WorkerSettles(c) \/ Timer(c)
  PROVE  CInv'
<1>1. ASSUME NEW p \in Answers \ {"ok"}, Answer(c, p), Running(c),
             UNCHANGED <<now, import_previews, nextId>>
      PROVE  CInv'
  <2> DEFINE r == Ended(calls[c], p)
  <2>1. IsCall(r) /\ r.phase = p /\ Same(calls[c], r)
    BY MovedIsSame DEF CInv, Shape, Phases
  <2>2. calls' = [calls EXCEPT ![c] = r]
    BY <1>1 DEF Answer
  <2> HIDE DEF r
  <2> QED BY <1>1, <2>1, <2>2, CallMoves DEF Answers, Early, Reading, Past, Locked
<1>2. ASSUME NEW p \in Phases \ {"idle", "ok", "read", "store"}, Goto(c, p), Running(c),
             UNCHANGED <<now, import_previews, nextId>>,
             p \in Early => calls[c].phase \in Early,
             p \in Reading => calls[c].phase \in Reading,
             p \in Past => calls[c].phase \in Past \/ \A d \in Calls : ~Late(d, c)
      PROVE  CInv'
  <2> DEFINE r == [calls[c] EXCEPT !.phase = p]
  <2>1. IsCall(r) /\ r.phase = p /\ Same(calls[c], r)
    BY MovedIsSame DEF CInv, Shape
  <2>2. calls' = [calls EXCEPT ![c] = r]
    BY <1>2 DEF Goto
  <2> HIDE DEF r
  <2> QED BY <1>2, <2>1, <2>2, CallMoves
<1>3. CASE Lookup(c)
  <2>1. Running(c) /\ calls[c].phase \in Early /\ UNCHANGED <<now, import_previews, nextId>>
    BY <1>3 DEF Lookup, Running, Answers, Early
  <2>2. CASE Answer(c, "cached")
    BY <2>1, <2>2, <1>1 DEF Answers
  <2>3. CASE Goto(c, "miss")
    <3>1. \A d \in Calls : ~Late(d, c)
      BY <1>3, <2>3, MissIsRight
    <3> QED BY <2>1, <2>3, <3>1, <1>2 DEF Phases, Early, Reading
  <2> QED BY <1>3, <2>2, <2>3 DEF Lookup
<1>4. CASE Miss(c)
  <2>1. /\ Running(c) /\ calls[c].phase \in Early /\ calls[c].phase \in Past
        /\ UNCHANGED <<now, import_previews, nextId>>
    BY <1>4 DEF Miss, Running, Answers, Early, Past
  <2>2. CASE Answer(c, "busy")
    BY <2>1, <2>2, <1>1 DEF Answers
  <2>3. CASE Goto(c, "count_ip")
    BY <2>1, <2>3, <1>2 DEF Phases, Locked, Early, Reading
  <2> QED BY <1>4, <2>2, <2>3 DEF Miss
<1>5. ASSUME NEW rows, NEW window, NEW limit, NEW answer \in Answers \ {"ok"},
             NEW next \in {"count_day", "clean"},
             RefuseOr(c, rows, window, limit, answer, next),
             calls[c].phase \in {"count_ip", "count_day"},
             UNCHANGED <<now, import_previews, nextId>>
      PROVE  CInv'
  <2>1. Running(c) /\ calls[c].phase \in Early /\ calls[c].phase \in Past
    BY <1>5 DEF Running, Answers, Early, Past, Locked
  <2> DEFINE at == Oldest(Since(rows, calls[c].now - window)) + window
             r == [Ended(calls[c], answer) EXCEPT !.retryAt = at]
  <2>2. CASE calls' = [calls EXCEPT ![c] = r]
    <3>1. /\ IsCall(Ended(calls[c], answer)) /\ Ended(calls[c], answer).phase = answer
          /\ Same(calls[c], Ended(calls[c], answer))
      BY MovedIsSame DEF CInv, Shape, Phases
    <3> HIDE DEF at
    <3>2. IsCall(r) /\ r.phase = answer /\ Same(calls[c], r)
      BY <3>1 DEF IsCall, Same
    <3> HIDE DEF r
    <3> QED BY <1>5, <2>1, <2>2, <3>2, CallMoves DEF Answers, Early, Reading, Past, Locked
  <2>3. CASE Goto(c, next)
    BY <1>5, <2>1, <2>3, <1>2 DEF Phases, Locked, Early, Reading
  <2> QED BY <1>5, <2>2, <2>3 DEF RefuseOr
<1>6. CASE CountIp(c)
  BY <1>6, <1>5 DEF CountIp, Answers
<1>7. CASE CountDay(c)
  BY <1>7, <1>5 DEF CountDay, Answers
<1>8. CASE WorkerSettles(c) \/ Timer(c)
  <2>1. PICK p \in {"store", "fail"} : Settle(c, p)
    BY <1>8 DEF WorkerSettles, Timer
  <2> DEFINE r == [calls[c] EXCEPT !.phase = p, !.worker = "none"]
  <2>2. IsCall(r) /\ r.phase = p /\ Same(calls[c], r)
    BY DEF CInv, Shape, IsCall, Phases, Locked, Same
  <2>3. /\ Running(c) /\ calls[c].phase = "read"
        /\ calls' = [calls EXCEPT ![c] = r] /\ UNCHANGED <<now, import_previews, nextId>>
    BY <1>8, <2>1 DEF WorkerSettles, Timer, Settle, Running, Answers, CInv, Shape
  <2> HIDE DEF r
  <2> QED BY <2>2, <2>3, CallMoves DEF Early, Reading, Past, Locked
<1> QED BY <1>3, <1>4, <1>6, <1>7, <1>8

\* Only rows too old for any answer are cleaned away.
LEMMA CleanCInv ==
  ASSUME CInv, NEW c \in Calls, Clean(c)
  PROVE  CInv'
<1> DEFINE r == [calls[c] EXCEPT !.phase = "reserve"]
<1>1. /\ IsCall(r) /\ r.phase = "reserve" /\ Same(calls[c], r)
      /\ calls[c].phase = "clean" /\ Running(c) /\ calls' = [calls EXCEPT ![c] = r]
      /\ import_previews' \subseteq import_previews /\ now' = now /\ nextId' = nextId
  BY MovedIsSame DEF CInv, Shape, Phases, Locked, Clean, Goto, Running, Answers
<1> HIDE DEF r
<1>2. /\ Shape' /\ calls'[c] = r
      /\ \A d \in Calls \ {c} : calls'[d] = calls[d]
  BY <1>1, OneCall DEF CInv
<1>3. Typed' /\ Timely'
  BY <1>1, <1>2 DEF CInv, Typed, Timely, Same, Running
<1>4. RowsOwned'
  BY <1>1, <1>2 DEF CInv, RowsOwned, Same, Early, Reading
<1>5. RowKept'
  <2> SUFFICES ASSUME NEW d \in Calls, calls'[d].phase \in {"read", "store", "ok"},
                      now <= calls'[d].now + PREVIEW_KEEP_SECS
               PROVE  \E q \in import_previews' :
                        q.id = calls'[d].row /\ (calls'[d].phase = "ok" => q.status = "done")
    BY <1>1 DEF RowKept
  <2>1. calls'[d] = calls[d]
    BY <1>1, <1>2
  <2>2. PICK q \in import_previews :
          q.id = calls[d].row /\ (calls[d].phase = "ok" => q.status = "done")
    BY <2>1 DEF CInv, RowKept
  <2>3. q.created_at = calls[d].now
    BY <2>2 DEF CInv, RowsOwned
  <2>4. /\ now \in Nat /\ calls[d].now \in Nat /\ calls[c].now \in Nat
        /\ calls[c].now <= now /\ PREVIEW_KEEP_SECS \in Nat
    BY <1>1, PreviewAssumption DEF CInv, Typed, Timely, PREVIEW_KEEP_SECS
  <2>5. q \in import_previews'
    BY <2>1, <2>3, <2>4 DEF Clean
  <2> QED BY <2>1, <2>2, <2>5
<1>6. NeverLate'
  <2> SUFFICES ASSUME NEW d \in Calls, NEW e \in Calls, Late(d, e)'
               PROVE  calls'[e].phase \notin Past /\ calls'[e].row = NoRow
    BY DEF NeverLate
  <2>1. Late(d, e)
    BY <1>1, <1>2 DEF Late, Same
  <2> QED BY <2>1, <1>1, <1>2 DEF CInv, NeverLate, Same, Past, Locked
<1> QED BY <1>2, <1>3, <1>4, <1>5, <1>6 DEF CInv

\* The row a call reserves is a new one, of its own.
LEMMA ReserveCInv ==
  ASSUME CInv, NEW c \in Calls, calls[c].phase = "reserve",
         import_previews' = import_previews \cup {NewRow(c)}, nextId' = nextId + 1,
         now' = now, NEW r, IsCall(r), calls' = [calls EXCEPT ![c] = r],
         r.wallet = calls[c].wallet, r.now = calls[c].now, r.storedAt = calls[c].storedAt,
         \/ r.phase = "read" /\ r.row = nextId
         \/ r.phase = "failed" /\ r.row = calls[c].row
  PROVE  CInv'
<1>1. /\ Shape' /\ calls'[c] = r
      /\ \A d \in Calls \ {c} : calls'[d] = calls[d]
  BY OneCall DEF CInv
<1>2. /\ NewRow(c).id = nextId /\ NewRow(c).wallet = calls[c].wallet
      /\ NewRow(c).created_at = calls[c].now /\ IsRow(NewRow(c))
  BY DEF NewRow, IsRow, CInv, Typed
<1>3. Running(c) /\ calls[c].row = NoRow /\ NoRow # nextId
  BY PreviewAssumption DEF Running, Answers, CInv, RowsOwned, Early, Typed
<1>4. Typed'
  <2>1. \A q \in import_previews' : IsRow(q) /\ q.id < nextId + 1
    <3>1. \A q \in import_previews : IsRow(q) /\ q.id \in Nat /\ q.id < nextId
      BY DEF CInv, Typed, IsRow
    <3> QED BY <1>2, <3>1 DEF CInv, Typed
  <2>2. nextId + 1 \in Nat /\ \A n \in Nat : n < nextId => n < nextId + 1
    BY DEF CInv, Typed
  <2>3. \A d \in Calls : /\ calls'[d].now \in Nat /\ calls'[d].storedAt \in Nat
                         /\ calls'[d].row # NoRow =>
                              calls'[d].row \in Nat /\ calls'[d].row < nextId + 1
    BY <1>1, <2>2 DEF CInv, Typed
  <2> QED BY <2>1, <2>2, <2>3 DEF CInv, Typed
<1>5. Timely'
  <2>1. calls[c].now <= now /\ now <= calls[c].now + MAX_CALL /\ calls[c].storedAt <= now
    BY <1>3 DEF CInv, Timely
  <2>2. \A d \in Calls \ {c} : Running(d)' <=> Running(d)
    BY <1>1 DEF Running
  <2> QED BY <1>1, <2>1, <2>2 DEF CInv, Timely
<1>6. RowsOwned'
  <2>1. \A d \in Calls :
          /\ calls'[d].phase \in Early => calls'[d].row = NoRow
          /\ calls'[d].phase \in Reading \cup {"ok"} => calls'[d].row # NoRow
    BY <1>1, <1>3 DEF CInv, RowsOwned, Early, Reading
  <2>2. \A d \in Calls : \A q \in import_previews' :
          q.id = calls'[d].row => q.wallet = calls'[d].wallet /\ q.created_at = calls'[d].now
    <3> SUFFICES ASSUME NEW d \in Calls, NEW q \in import_previews', q.id = calls'[d].row
                 PROVE  q.wallet = calls'[d].wallet /\ q.created_at = calls'[d].now
      OBVIOUS
    <3>1. CASE q = NewRow(c)
      BY <3>1, <1>1, <1>2, <1>3 DEF CInv, Typed
    <3>2. CASE q \in import_previews
      BY <3>2, <1>1, <1>3 DEF CInv, Typed, RowsOwned
    <3> QED BY <3>1, <3>2
  <2>3. \A d, e \in Calls :
          d # e /\ calls'[d].row = calls'[e].row => calls'[d].row = NoRow
    BY <1>1, <1>3 DEF CInv, Typed, RowsOwned
  <2> QED BY <2>1, <2>2, <2>3 DEF RowsOwned
<1>7. RowKept'
  BY <1>1, <1>2 DEF CInv, RowKept
<1>8. NeverLate'
  <2> SUFFICES ASSUME NEW d \in Calls, NEW e \in Calls, Late(d, e)'
               PROVE  calls'[e].phase \notin Past /\ calls'[e].row = NoRow
    BY DEF NeverLate
  <2>1. Late(d, e)
    BY <1>1 DEF Late
  <2>2. e # c
    BY <2>1 DEF CInv, NeverLate, Past, Locked
  <2> QED BY <2>1, <2>2, <1>1 DEF CInv, NeverLate
<1> QED BY <1>1, <1>4, <1>5, <1>6, <1>7, <1>8 DEF CInv

\* What a call writes in its row leaves the rows of the others alone.
LEMMA WithStatusKeeps ==
  ASSUME CInv, NEW c \in Calls, calls[c].phase \in Reading,
         NEW status \in {"done", "failed"}
  PROVE  /\ \A q \in WithStatus(calls[c].row, status) :
              \E p \in import_previews :
                /\ IsRow(q) /\ q.id = p.id /\ q.wallet = p.wallet /\ q.created_at = p.created_at
         /\ \A p \in import_previews :
              /\ p.id # calls[c].row => p \in WithStatus(calls[c].row, status)
              /\ p.id = calls[c].row => \E q \in WithStatus(calls[c].row, status) :
                                          q.id = p.id /\ q.status = status
<1> DEFINE written(p) == IF p.id = calls[c].row THEN [p EXCEPT !.status = status] ELSE p
<1>1. \A p \in import_previews :
        /\ IsRow(written(p)) /\ written(p).id = p.id /\ written(p).wallet = p.wallet
        /\ written(p).created_at = p.created_at
        /\ p.id # calls[c].row => written(p) = p
        /\ p.id = calls[c].row => written(p).status = status
  BY DEF CInv, Typed, IsRow
<1>2. WithStatus(calls[c].row, status) = {written(p) : p \in import_previews}
  BY DEF WithStatus
<1> HIDE DEF written
<1> QED BY <1>1, <1>2

\* The call's own row is written as the call is answered or fails.
LEMMA SettleCInv ==
  ASSUME CInv, NEW c \in Calls, NEW r, IsCall(r), calls' = [calls EXCEPT ![c] = r],
         r.wallet = calls[c].wallet, r.now = calls[c].now, r.row = calls[c].row,
         now' = now, nextId' = nextId,
         \/ /\ calls[c].phase = "store" /\ r.phase = "ok" /\ r.storedAt = now
            /\ import_previews' = WithStatus(calls[c].row, "done")
         \/ /\ calls[c].phase \in {"store", "fail"} /\ r.phase \in {"fail", "failed"}
            /\ r.storedAt = calls[c].storedAt
            /\ \/ import_previews' = import_previews
               \/ import_previews' = WithStatus(calls[c].row, "done")
               \/ import_previews' = WithStatus(calls[c].row, "failed")
  PROVE  CInv'
<1>1. /\ Shape' /\ calls'[c] = r
      /\ \A d \in Calls \ {c} : calls'[d] = calls[d]
  BY OneCall DEF CInv
<1>2. /\ calls[c].phase \in Reading /\ Running(c) /\ calls[c].row # NoRow
      /\ calls[c].phase \in Past
  BY DEF Running, Answers, Reading, CInv, RowsOwned, Past, Locked
<1>3. /\ \A q \in import_previews' : \E p \in import_previews :
           /\ IsRow(q) /\ q.id = p.id /\ q.wallet = p.wallet /\ q.created_at = p.created_at
      /\ \A p \in import_previews :
           /\ p.id # calls[c].row => p \in import_previews'
           /\ r.phase = "ok" /\ p.id = calls[c].row
                => \E q \in import_previews' : q.id = p.id /\ q.status = "done"
  BY <1>2, WithStatusKeeps DEF CInv, Typed
<1>4. Typed'
  BY <1>1, <1>3 DEF CInv, Typed
<1>5. Timely'
  BY <1>1, <1>2 DEF CInv, Timely, Running, Typed
<1>6. RowsOwned'
  <2>1. \A d \in Calls :
          /\ calls'[d].phase \in Early => calls'[d].row = NoRow
          /\ calls'[d].phase \in Reading \cup {"ok"} => calls'[d].row # NoRow
          /\ calls'[d].row = calls[d].row /\ calls'[d].wallet = calls[d].wallet
          /\ calls'[d].now = calls[d].now
    BY <1>1, <1>2 DEF CInv, RowsOwned, Early, Reading
  <2> QED BY <2>1, <1>3 DEF CInv, RowsOwned
<1>7. RowKept'
  <2> SUFFICES ASSUME NEW d \in Calls, calls'[d].phase \in {"read", "store", "ok"},
                      now <= calls'[d].now + PREVIEW_KEEP_SECS
               PROVE  \E q \in import_previews' :
                        q.id = calls'[d].row /\ (calls'[d].phase = "ok" => q.status = "done")
    BY DEF RowKept
  <2>1. CASE d = c
    <3>1. calls[c].phase = "store" /\ r.phase = "ok"
      BY <1>1, <2>1
    <3>2. PICK p \in import_previews : p.id = calls[c].row
      BY <1>1, <2>1, <3>1 DEF CInv, RowKept
    <3> QED BY <1>1, <1>3, <2>1, <3>1, <3>2
  <2>2. CASE d # c
    <3>1. calls'[d] = calls[d]
      BY <1>1, <2>2
    <3>2. PICK p \in import_previews :
            p.id = calls[d].row /\ (calls[d].phase = "ok" => p.status = "done")
      BY <3>1 DEF CInv, RowKept
    <3>3. calls[d].row # calls[c].row
      BY <1>2, <2>2 DEF CInv, RowsOwned
    <3> QED BY <1>3, <3>1, <3>2, <3>3
  <2> QED BY <2>1, <2>2
<1>8. NeverLate'
  <2> SUFFICES ASSUME NEW d \in Calls, NEW e \in Calls, Late(d, e)'
               PROVE  calls'[e].phase \notin Past /\ calls'[e].row = NoRow
    BY DEF NeverLate
  <2>1. CASE d = c
    <3>1. calls'[e].now > now
      BY <1>1, <2>1 DEF Late
    <3>2. e # c /\ calls'[e] = calls[e] /\ now \in Nat /\ calls[e].now \in Nat
      BY <1>1, <1>2, <3>1 DEF CInv, Typed, Timely, Running
    <3>3. calls[e].phase = "idle"
      BY <3>1, <3>2 DEF CInv, Timely
    <3> QED BY <3>2, <3>3 DEF CInv, RowsOwned, Past, Locked, Early
  <2>2. CASE d # c
    <3>1. Late(d, e)
      BY <1>1, <2>2 DEF Late
    <3>2. e # c
      BY <3>1, <1>2 DEF CInv, NeverLate
    <3> QED BY <3>1, <3>2, <1>1 DEF CInv, NeverLate
  <2> QED BY <2>1, <2>2
<1> QED BY <1>1, <1>4, <1>5, <1>6, <1>7, <1>8 DEF CInv

\* Every step keeps the cache's invariant.
LEMMA NextCInv == CInv /\ [Next]_vars => CInv'
<1> SUFFICES ASSUME CInv, [Next]_vars PROVE CInv'
  OBVIOUS
<1>1. ASSUME NEW c \in Calls, Reserve(c) PROVE CInv'
  <2> DEFINE r == [calls[c] EXCEPT !.phase = "read", !.row = nextId, !.worker = "running"]
  <2>1. /\ IsCall(r) /\ r.phase = "read" /\ r.row = nextId /\ r.wallet = calls[c].wallet
        /\ r.now = calls[c].now /\ r.storedAt = calls[c].storedAt
    BY DEF CInv, Shape, IsCall, Phases, Locked
  <2>2. calls' = [calls EXCEPT ![c] = r]
    BY <1>1 DEF Reserve, CInv, Shape
  <2> HIDE DEF r
  <2> QED BY <1>1, <2>1, <2>2, ReserveCInv DEF Reserve
<1>2. ASSUME NEW c \in Calls, QueryFails(c) PROVE CInv'
  <2> DEFINE r == Ended(calls[c], "failed")
  <2>1. IsCall(r) /\ r.phase = "failed" /\ Same(calls[c], r)
    BY MovedIsSame DEF CInv, Shape, Phases, Answers
  <2>2. /\ Running(c) /\ calls' = [calls EXCEPT ![c] = r] /\ now' = now
    BY <1>2 DEF QueryFails, AnswerAndRelease, Answer, Running, Answers
  <2> HIDE DEF r
  <2>3. CASE UNCHANGED <<import_previews, nextId>>
    BY <2>1, <2>2, <2>3, CallMoves DEF Early, Reading, Past, Locked
  <2>4. CASE /\ calls[c].phase = "reserve" /\ nextId' = nextId + 1
             /\ import_previews' = import_previews \cup {NewRow(c)}
    BY <2>1, <2>2, <2>4, ReserveCInv DEF Same
  <2> QED BY <1>2, <2>3, <2>4 DEF QueryFails
<1>3. ASSUME NEW c \in Calls, Store(c) PROVE CInv'
  <2> DEFINE r == [Ended(calls[c], "ok") EXCEPT !.storedAt = now]
             s == [calls[c] EXCEPT !.phase = "fail"]
  <2>1. /\ IsCall(Ended(calls[c], "ok")) /\ Ended(calls[c], "ok").phase = "ok"
        /\ Same(calls[c], Ended(calls[c], "ok"))
        /\ IsCall(s) /\ s.phase = "fail" /\ Same(calls[c], s)
    BY MovedIsSame DEF CInv, Shape, Phases, Answers, Locked
  <2>2. /\ IsCall(r) /\ r.phase = "ok" /\ r.storedAt = now
        /\ r.wallet = calls[c].wallet /\ r.now = calls[c].now /\ r.row = calls[c].row
    BY <2>1 DEF IsCall, Same
  <2>3. CASE calls' = [calls EXCEPT ![c] = r] /\ import_previews' = WithStatus(calls[c].row, "done")
    <3> HIDE DEF r
    <3> QED BY <1>3, <2>2, <2>3, SettleCInv DEF Store
  <2>4. CASE /\ Goto(c, "fail")
             /\ import_previews' \in {import_previews, WithStatus(calls[c].row, "done")}
    <3>1. calls' = [calls EXCEPT ![c] = s]
      BY <2>4 DEF Goto
    <3> HIDE DEF s
    <3> QED BY <1>3, <2>1, <2>4, <3>1, SettleCInv DEF Store, Same
  <2> QED BY <1>3, <2>3, <2>4 DEF Store
<1>4. ASSUME NEW c \in Calls, MarkFailed(c) PROVE CInv'
  <2> DEFINE r == Ended(calls[c], "failed")
  <2>1. IsCall(r) /\ r.phase = "failed" /\ Same(calls[c], r)
    BY MovedIsSame DEF CInv, Shape, Phases, Answers
  <2>2. calls' = [calls EXCEPT ![c] = r]
    BY <1>4 DEF MarkFailed, AnswerAndRelease, Answer
  <2> HIDE DEF r
  <2> QED BY <1>4, <2>1, <2>2, SettleCInv DEF MarkFailed, Same
<1>5. ASSUME NEW c \in Calls, NEW r, IsCall(r), Same(calls[c], r), r.phase = calls[c].phase,
             calls' = [calls EXCEPT ![c] = r], UNCHANGED <<now, import_previews, nextId>>
      PROVE  CInv'
  <2>1. /\ Shape' /\ \A d \in Calls : Same(calls[d], calls'[d]) /\ calls'[d].phase = calls[d].phase
    BY <1>5, OneCall DEF CInv, Same
  <2>2. Typed' /\ Timely'
    BY <1>5, <2>1 DEF CInv, Typed, Timely, Same, Running
  <2>3. RowsOwned'
    BY <1>5, <2>1 DEF CInv, RowsOwned, Same
  <2>4. RowKept'
    BY <1>5, <2>1 DEF CInv, RowKept, Same
  <2>5. NeverLate'
    BY <1>5, <2>1 DEF CInv, NeverLate, Late, Same
  <2> QED BY <2>1, <2>2, <2>3, <2>4, <2>5 DEF CInv
<1>6. ASSUME NEW c \in Calls, WorkerStep(c) PROVE CInv'
  <2>1. PICK e \in Settling : calls' = [calls EXCEPT ![c].worker = e]
    BY <1>6 DEF WorkerStep
  <2> DEFINE r == [calls[c] EXCEPT !.worker = e]
  <2>2. IsCall(r) /\ r.phase = calls[c].phase /\ Same(calls[c], r)
    BY DEF CInv, Shape, IsCall, Same
  <2>3. calls' = [calls EXCEPT ![c] = r]
    BY <2>1
  <2> HIDE DEF r
  <2> QED BY <1>5, <1>6, <2>2, <2>3 DEF WorkerStep
<1>7. ASSUME NEW c \in Calls, NEW w \in Wallets, NEW ip \in Ips, Start(c, w, ip) PROVE CInv'
  <2> DEFINE r == [calls[c] EXCEPT !.phase = "lookup", !.wallet = w, !.ip = ip, !.now = now]
  <2>1. /\ IsCall(r) /\ r.phase = "lookup" /\ r.now = now /\ r.row = calls[c].row
        /\ r.storedAt = calls[c].storedAt
    BY DEF CInv, Shape, IsCall, Phases
  <2>2. /\ calls[c].phase = "idle" /\ calls' = [calls EXCEPT ![c] = r]
        /\ UNCHANGED <<now, import_previews, nextId>>
    BY <1>7 DEF Start
  <2> HIDE DEF r
  <2>3. /\ Shape' /\ calls'[c] = r
        /\ \A d \in Calls \ {c} : calls'[d] = calls[d]
    BY <2>1, <2>2, OneCall DEF CInv
  <2>4. calls[c].row = NoRow
    BY <2>2 DEF CInv, RowsOwned, Early
  <2>5. Typed'
    BY <2>1, <2>2, <2>3 DEF CInv, Typed
  <2>6. Timely'
    BY <2>1, <2>2, <2>3, PreviewAssumption DEF CInv, Timely, Typed, Running
  <2>7. RowsOwned'
    <3>1. \A q \in import_previews : q.id # NoRow
      BY PreviewAssumption DEF CInv, Typed, IsRow
    <3> QED BY <2>1, <2>2, <2>3, <2>4, <3>1 DEF CInv, RowsOwned, Early, Reading
  <2>8. RowKept'
    BY <2>1, <2>2, <2>3 DEF CInv, RowKept
  <2>9. NeverLate'
    BY <2>1, <2>2, <2>3, <2>4 DEF CInv, NeverLate, Late, Past, Locked
  <2> QED BY <2>3, <2>5, <2>6, <2>7, <2>8, <2>9 DEF CInv
<1>8. CASE Restart
  <2>1. \A c \in Calls : /\ IsCall(Ended(calls[c], "lost")) /\ Ended(calls[c], "lost").phase = "lost"
                         /\ Same(calls[c], Ended(calls[c], "lost"))
    BY MovedIsSame DEF CInv, Shape, Phases, Answers
  <2>2. /\ calls' = [c \in Calls |-> calls'[c]]
        /\ \A c \in Calls : /\ IsCall(calls'[c]) /\ Same(calls[c], calls'[c])
                            /\ calls'[c].phase \in {calls[c].phase, "lost"} /\ ~Running(c)'
                            /\ Running(c) => calls'[c].phase = "lost"
                            /\ ~Running(c) => calls'[c].phase = calls[c].phase
        /\ UNCHANGED <<now, import_previews, nextId>>
    BY <1>8, <2>1 DEF Restart, CInv, Shape, Running, Answers, Same
  <2>3. Shape' /\ Typed'
    BY <2>2 DEF CInv, Shape, Typed, Same
  <2>4. Timely'
    BY <2>2 DEF CInv, Timely, Same, Running, Answers
  <2>5. RowsOwned'
    BY <2>2 DEF CInv, RowsOwned, Same, Early, Reading
  <2>6. RowKept'
    BY <2>2 DEF CInv, RowKept, Same
  <2>7. NeverLate'
    BY <2>2 DEF CInv, NeverLate, Late, Same, Past, Locked
  <2> QED BY <2>3, <2>4, <2>5, <2>6, <2>7 DEF CInv
<1>9. CASE Tick
  <2>1. /\ now' \in Nat /\ now' > now /\ UNCHANGED <<import_previews, nextId, calls>>
        /\ \A c \in Calls : Running(c) => now' - calls[c].now <= MAX_CALL
    BY <1>9, PreviewAssumption DEF Tick
  <2>2. Typed'
    BY <2>1 DEF CInv, Typed
  <2>3. Timely'
    BY <2>1, PreviewAssumption DEF CInv, Timely, Typed, Running
  <2>4. RowKept'
    BY <2>1, PreviewAssumption DEF CInv, RowKept, Typed, PREVIEW_KEEP_SECS
  <2> QED BY <2>1, <2>2, <2>3, <2>4
      DEF CInv, Shape, IsCall, RowsOwned, NeverLate, Late
<1>10. CASE UNCHANGED vars
  BY <1>10 DEF vars, CInv, Shape, IsCall, Typed, Timely, Running, RowsOwned, RowKept, NeverLate, Late
<1>11. ASSUME NEW c \in Calls, Clean(c) PROVE CInv'
  BY <1>11, CleanCInv
<1>12. ASSUME NEW c \in Calls, \/ Lookup(c) \/ Miss(c) \/ CountIp(c) \/ CountDay(c)
                               \/ WorkerSettles(c) \/ Timer(c)
       PROVE  CInv'
  BY <1>12, PhaseStepsCInv
<1> QED
  BY <1>1, <1>2, <1>3, <1>4, <1>6, <1>7, <1>8, <1>9, <1>10, <1>11, <1>12 DEF Next, Serve

\* An answered wallet is not read again within the cache's hours (preview.ts:158):
\* for any number of calls, rows and wallets, through failures, cleanings and
\* restarts, given that rows are kept for longer than answers are served.
THEOREM AnsweredOnce == Spec => []AnsweredIsCached
<1>1. CInv => AnsweredIsCached
  BY DEF CInv, NeverLate, Late, AnsweredIsCached
<1> QED BY <1>1, InitCInv, NextCInv, PTL DEF Spec

-----------------------------------------------------------------------------
(* The limits.  day chooses the limit: the one of all reads in a day, or of  *)
(* an address in an hour.  A call that was counted is under it until it has  *)
(* reserved, because no other call reserves while it holds the lock; and the *)
(* reads it was not counted with are older than the window, though their     *)
(* rows may have been cleaned away.                                          *)

Window(day) == IF day THEN DAY ELSE HOUR
Limit(day) == IF day THEN PER_DAY ELSE PER_IP_PER_HOUR
\* The phases after the count.
Passed(day) == IF day THEN {"clean", "reserve"} ELSE {"count_day", "clean", "reserve"}

RowsAfter(rows, ip, day, t) ==
  {r \in rows : (day \/ r.requester_ip = ip) /\ r.created_at > t}
RowsIn(rows, ip, day, t) == {r \in RowsAfter(rows, ip, day, t) : r.created_at <= t + Window(day)}
ReadsAfter(served, ip, day, t) ==
  {c \in Calls : served[c].row # NoRow /\ (day \/ served[c].ip = ip) /\ served[c].now > t}
ReadsIn(served, ip, day, t) ==
  {c \in ReadsAfter(served, ip, day, t) : served[c].now <= t + Window(day)}

\* Nobody may pass the limit who has passed its count.
RoomIn(rows, served, ip, day, t) ==
  /\ Cardinality(RowsAfter(rows, ip, day, t)) < Limit(day)
  /\ Cardinality(ReadsAfter(served, ip, day, t)) < Limit(day)
RoomFor(r) ==
  \A day \in BOOLEAN :
    r.phase \in Passed(day) => RoomIn(import_previews, calls, r.ip, day, r.now - Window(day))

Windows ==
  \A ip : \A day \in BOOLEAN : \A t \in Int :
    /\ Cardinality(RowsIn(import_previews, ip, day, t)) <= Limit(day)
    /\ Cardinality(ReadsIn(calls, ip, day, t)) <= Limit(day)

\* The row of a read is there until it is old enough to be cleaned away.
IsRowOf(r, call) == r.id = call.row /\ r.requester_ip = call.ip /\ r.created_at = call.now
ReadKept ==
  \A c \in Calls : calls[c].row # NoRow /\ now <= calls[c].now + PREVIEW_KEEP_SECS
                     => \E r \in import_previews : IsRowOf(r, calls[c])

LInv == IsFiniteSet(import_previews) /\ Windows /\ ReadKept /\ \A c \in Calls : RoomFor(calls[c])

LEMMA LimitNumbers ==
  \A day \in BOOLEAN : /\ Window(day) \in Nat /\ Limit(day) \in Nat \ {0} /\ MAX_CALL \in Nat
                       /\ PREVIEW_KEEP_SECS \in Nat
                       /\ Window(day) + MAX_CALL <= PREVIEW_KEEP_SECS
  BY PreviewAssumption, KeepAssumption DEF Window, Limit, PREVIEW_KEEP_SECS

\* A set that a function covers is no larger.
LEMMA NoLarger ==
  ASSUME NEW S, IsFiniteSet(S), NEW T, NEW f, \A t \in T : \E s \in S : t = f[s]
  PROVE  IsFiniteSet(T) /\ Cardinality(T) <= Cardinality(S)
<1> DEFINE D == {s \in S : f[s] \in T}
           g == [s \in D |-> f[s]]
<1>1. g \in Surjection(D, T)
  <2>1. g \in [D -> T]
    OBVIOUS
  <2>2. \A t \in T : \E s \in D : g[s] = t
    OBVIOUS
  <2> HIDE DEF g, D
  <2> QED BY <2>1, <2>2 DEF Surjection
<1>2. IsFiniteSet(D) /\ Cardinality(D) <= Cardinality(S)
  BY FS_Subset
<1> HIDE DEF g, D
<1>3. IsFiniteSet(T) /\ Cardinality(T) <= Cardinality(D)
  BY <1>1, <1>2, FS_Surjection
<1>4. Cardinality(T) \in Nat /\ Cardinality(D) \in Nat /\ Cardinality(S) \in Nat
  BY <1>2, <1>3, FS_CardinalityType
<1> QED BY <1>2, <1>3, <1>4

LEMMA CallsFinite == IsFiniteSet(Calls)
  BY PreviewAssumption, FS_Interval DEF Calls

LEMMA CountsAreNumbers ==
  ASSUME IsFiniteSet(import_previews), NEW ip, NEW day \in BOOLEAN, NEW t
  PROVE  /\ IsFiniteSet(RowsAfter(import_previews, ip, day, t)) /\ IsFiniteSet(RowsIn(import_previews, ip, day, t))
         /\ IsFiniteSet(ReadsAfter(calls, ip, day, t)) /\ IsFiniteSet(ReadsIn(calls, ip, day, t))
         /\ Cardinality(RowsAfter(import_previews, ip, day, t)) \in Nat
         /\ Cardinality(RowsIn(import_previews, ip, day, t)) \in Nat
         /\ Cardinality(ReadsAfter(calls, ip, day, t)) \in Nat
         /\ Cardinality(ReadsIn(calls, ip, day, t)) \in Nat
<1>1. /\ RowsAfter(import_previews, ip, day, t) \in SUBSET import_previews
      /\ RowsIn(import_previews, ip, day, t) \in SUBSET import_previews
      /\ ReadsAfter(calls, ip, day, t) \in SUBSET Calls /\ ReadsIn(calls, ip, day, t) \in SUBSET Calls
  BY DEF RowsAfter, RowsIn, ReadsAfter, ReadsIn
<1>2. /\ IsFiniteSet(RowsAfter(import_previews, ip, day, t)) /\ IsFiniteSet(RowsIn(import_previews, ip, day, t))
      /\ IsFiniteSet(ReadsAfter(calls, ip, day, t)) /\ IsFiniteSet(ReadsIn(calls, ip, day, t))
  BY <1>1, CallsFinite, FS_Subset
<1> QED BY <1>2, FS_CardinalityType

\* The reads a running call is counted with have rows it counts.
LEMMA ReadsHaveRows ==
  ASSUME CInv, LInv, NEW c \in Calls, Running(c), NEW ip, NEW day \in BOOLEAN,
         Cardinality(RowsAfter(import_previews, ip, day, calls[c].now - Window(day))) < Limit(day)
  PROVE  RoomIn(import_previews, calls, ip, day, calls[c].now - Window(day))
<1> DEFINE t == calls[c].now - Window(day)
           S == RowsAfter(import_previews, ip, day, t)
           T == ReadsAfter(calls, ip, day, t)
           f == [r \in S |-> CHOOSE d \in Calls : calls[d].row = r.id]
<1>1. calls[c].now \in Nat /\ now \in Nat /\ now <= calls[c].now + MAX_CALL /\ t \in Int
  BY LimitNumbers DEF CInv, Typed, Timely
<1>2. ASSUME NEW d \in T PROVE \E r \in S : d = f[r]
  <2>1. /\ d \in Calls /\ calls[d].row # NoRow /\ (day \/ calls[d].ip = ip)
        /\ calls[d].now \in Nat /\ calls[d].now > t
    BY DEF ReadsAfter, CInv, Typed
  <2>2. now <= calls[d].now + PREVIEW_KEEP_SECS
    BY <1>1, <2>1, LimitNumbers
  <2>3. PICK r \in import_previews : IsRowOf(r, calls[d])
    BY <2>1, <2>2 DEF LInv, ReadKept
  <2>4. r \in S /\ r.id = calls[d].row
    BY <2>1, <2>3 DEF RowsAfter, IsRowOf
  <2>5. \A e \in Calls : calls[e].row = r.id => e = d
    BY <2>1, <2>4 DEF CInv, RowsOwned
  <2>6. f[r] = d
    BY <2>1, <2>4, <2>5
  <2> QED BY <2>4, <2>6
<1>3. IsFiniteSet(S)
  BY CountsAreNumbers DEF LInv
<1> HIDE DEF f
<1>4. Cardinality(T) <= Cardinality(S)
  <2> HIDE DEF S, T
  <2> QED BY <1>2, <1>3, NoLarger
<1>5. Cardinality(S) \in Nat /\ Cardinality(T) \in Nat /\ Limit(day) \in Nat
  BY CountsAreNumbers, LimitNumbers DEF LInv
<1> QED BY <1>4, <1>5 DEF RoomIn

\* What a step that reserves no row may do: rows are rewritten but for what the
\* limits count, and only old ones go.
SameCount(p, q) ==
  q.id = p.id /\ q.requester_ip = p.requester_ip /\ q.created_at = p.created_at
RowsUpdated ==
  /\ \E f : \A q \in import_previews' : \E p \in import_previews : q = f[p] /\ SameCount(p, q)
  /\ \A p \in import_previews : now <= p.created_at + PREVIEW_KEEP_SECS =>
       \E q \in import_previews' : SameCount(p, q)
ReadsSame ==
  \A c \in Calls :
    /\ calls'[c].row = calls[c].row
    /\ calls[c].row # NoRow => calls'[c].ip = calls[c].ip /\ calls'[c].now = calls[c].now

LEMMA RowsNoMore ==
  ASSUME IsFiniteSet(import_previews), RowsUpdated, NEW ip, NEW day \in BOOLEAN, NEW t
  PROVE  /\ IsFiniteSet(import_previews')
         /\ Cardinality(RowsAfter(import_previews', ip, day, t)) <= Cardinality(RowsAfter(import_previews, ip, day, t))
         /\ Cardinality(RowsIn(import_previews', ip, day, t)) <= Cardinality(RowsIn(import_previews, ip, day, t))
<1>1. PICK f : \A q \in import_previews' : \E p \in import_previews : q = f[p] /\ SameCount(p, q)
  BY DEF RowsUpdated
<1>2. \A q \in RowsAfter(import_previews', ip, day, t) : \E p \in RowsAfter(import_previews, ip, day, t) : q = f[p]
  BY <1>1 DEF RowsAfter, SameCount
<1>3. \A q \in RowsIn(import_previews', ip, day, t) : \E p \in RowsIn(import_previews, ip, day, t) : q = f[p]
  BY <1>1 DEF RowsIn, RowsAfter, SameCount
<1>4. IsFiniteSet(RowsAfter(import_previews, ip, day, t)) /\ IsFiniteSet(RowsIn(import_previews, ip, day, t))
  BY CountsAreNumbers
<1>5. IsFiniteSet(import_previews')
  BY <1>1, NoLarger
<1>6. Cardinality(RowsAfter(import_previews', ip, day, t)) <= Cardinality(RowsAfter(import_previews, ip, day, t))
  BY <1>2, <1>4, NoLarger
<1>7. Cardinality(RowsIn(import_previews', ip, day, t)) <= Cardinality(RowsIn(import_previews, ip, day, t))
  BY <1>3, <1>4, NoLarger
<1> QED BY <1>5, <1>6, <1>7

LEMMA QuietLimits ==
  ASSUME CInv, LInv, RowsUpdated, ReadsSame, now' \in Nat, now <= now',
         \A c \in Calls : \A day \in BOOLEAN : calls'[c].phase \in Passed(day) =>
           /\ calls'[c].ip = calls[c].ip /\ calls'[c].now = calls[c].now
           /\ RoomIn(import_previews, calls, calls[c].ip, day, calls[c].now - Window(day))
  PROVE  LInv'
<1>1. IsFiniteSet(import_previews) /\ IsFiniteSet(import_previews')
  BY RowsNoMore DEF LInv
<1>2. ASSUME NEW ip, NEW day \in BOOLEAN, NEW t
      PROVE  /\ Cardinality(RowsAfter(import_previews', ip, day, t)) <= Cardinality(RowsAfter(import_previews, ip, day, t))
             /\ Cardinality(RowsIn(import_previews', ip, day, t)) <= Cardinality(RowsIn(import_previews, ip, day, t))
             /\ Cardinality(RowsAfter(import_previews', ip, day, t)) \in Nat
             /\ Cardinality(RowsAfter(import_previews, ip, day, t)) \in Nat
             /\ Cardinality(RowsIn(import_previews', ip, day, t)) \in Nat
             /\ Cardinality(RowsIn(import_previews, ip, day, t)) \in Nat
  <2>1. /\ Cardinality(RowsAfter(import_previews, ip, day, t)) \in Nat
        /\ Cardinality(RowsIn(import_previews, ip, day, t)) \in Nat
    BY <1>1, CountsAreNumbers
  <2>2. IsFiniteSet(RowsAfter(import_previews', ip, day, t)) /\ IsFiniteSet(RowsIn(import_previews', ip, day, t))
    <3>1. /\ RowsAfter(import_previews', ip, day, t) \in SUBSET import_previews'
          /\ RowsIn(import_previews', ip, day, t) \in SUBSET import_previews'
      BY DEF RowsAfter, RowsIn
    <3> QED BY <1>1, <3>1, FS_Subset
  <2>3. /\ Cardinality(RowsAfter(import_previews', ip, day, t)) \in Nat
        /\ Cardinality(RowsIn(import_previews', ip, day, t)) \in Nat
    BY <2>2, FS_CardinalityType
  <2> QED BY <1>1, <2>1, <2>3, RowsNoMore
<1>3. ASSUME NEW ip, NEW day \in BOOLEAN, NEW t
      PROVE  ReadsAfter(calls', ip, day, t) = ReadsAfter(calls, ip, day, t) /\ ReadsIn(calls', ip, day, t) = ReadsIn(calls, ip, day, t)
  BY DEF ReadsSame, ReadsAfter, ReadsIn
<1>4. Windows'
  <2> SUFFICES ASSUME NEW ip, NEW day \in BOOLEAN, NEW t \in Int
               PROVE  /\ Cardinality(RowsIn(import_previews', ip, day, t)) <= Limit(day)
                      /\ Cardinality(ReadsIn(calls', ip, day, t)) <= Limit(day)
    BY DEF Windows
  <2>1. /\ Cardinality(RowsIn(import_previews, ip, day, t)) <= Limit(day)
        /\ Cardinality(ReadsIn(calls, ip, day, t)) <= Limit(day)
    BY DEF LInv, Windows
  <2> QED BY <1>2, <1>3, <2>1, LimitNumbers
<1>5. ASSUME NEW ip, NEW day \in BOOLEAN, NEW t, RoomIn(import_previews, calls, ip, day, t)
      PROVE  RoomIn(import_previews', calls', ip, day, t)
  BY <1>2, <1>3, <1>5, LimitNumbers DEF RoomIn
<1>6. \A c \in Calls : RoomFor(calls[c])'
  BY <1>5 DEF RoomFor, Window, Passed
<1>7. ReadKept'
  <2> SUFFICES ASSUME NEW c \in Calls, calls'[c].row # NoRow,
                      now' <= calls'[c].now + PREVIEW_KEEP_SECS
               PROVE  \E q \in import_previews' : IsRowOf(q, calls'[c])
    BY DEF ReadKept, PREVIEW_KEEP_SECS
  <2>1. /\ calls[c].row # NoRow /\ calls'[c].row = calls[c].row
        /\ calls'[c].ip = calls[c].ip /\ calls'[c].now = calls[c].now
    BY DEF ReadsSame
  <2>2. now <= calls[c].now + PREVIEW_KEEP_SECS
    <3>1. PREVIEW_KEEP_SECS \in Nat /\ now \in Nat /\ calls[c].now \in Nat
      BY PreviewAssumption DEF PREVIEW_KEEP_SECS, CInv, Typed
    <3> QED BY <2>1, <3>1
  <2>3. PICK p \in import_previews : IsRowOf(p, calls[c])
    BY <2>1, <2>2 DEF LInv, ReadKept
  <2>4. PICK q \in import_previews' : SameCount(p, q)
    BY <2>2, <2>3 DEF RowsUpdated, IsRowOf
  <2> QED BY <2>1, <2>3, <2>4 DEF IsRowOf, SameCount
<1> QED BY <1>1, <1>4, <1>6, <1>7 DEF LInv

\* A call reserves under the limits it was counted against: no other call has
\* reserved since.
LEMMA InsertLimits ==
  ASSUME IInv, CInv, LInv, NEW c \in Calls, calls[c].phase = "reserve", NEW r,
         calls' = [calls EXCEPT ![c] = r], r.ip = calls[c].ip, r.now = calls[c].now,
         r.phase \in {"read", "failed"}, r.row \in {NoRow, nextId}, now' = now,
         import_previews' = import_previews \cup {NewRow(c)}
  PROVE  LInv'
<1> DEFINE new == NewRow(c)
           at == calls[c].now
<1>1. /\ calls'[c] = r
      /\ \A d \in Calls \ {c} : calls'[d] = calls[d]
  BY DEF CInv, Shape
<1>2. new.id = nextId /\ new.requester_ip = calls[c].ip /\ new.created_at = at
  BY DEF NewRow
<1>3. IsFiniteSet(import_previews) /\ IsFiniteSet(import_previews')
  BY FS_AddElement DEF LInv
<1>4. \A day \in BOOLEAN : RoomIn(import_previews, calls, calls[c].ip, day, at - Window(day))
  BY DEF LInv, RoomFor, Passed
<1>5. /\ at \in Nat /\ nextId \in Nat /\ calls[c].row = NoRow
      /\ \A d \in Calls : calls[d].now \in Nat
      /\ \A q \in import_previews : q.created_at \in Nat
  BY DEF CInv, Typed, RowsOwned, Early, IsRow
<1> HIDE DEF new, at
<1>6. Windows'
  <2> SUFFICES ASSUME NEW ip, NEW day \in BOOLEAN, NEW t \in Int
               PROVE  /\ Cardinality(RowsIn(import_previews', ip, day, t)) <= Limit(day)
                      /\ Cardinality(ReadsIn(calls', ip, day, t)) <= Limit(day)
    BY DEF Windows
  <2> DEFINE old == RowsIn(import_previews, ip, day, t)
             reads == ReadsIn(calls, ip, day, t)
             inWindow == (day \/ calls[c].ip = ip) /\ t < at /\ at <= t + Window(day)
             counted == RowsAfter(import_previews, calls[c].ip, day, at - Window(day))
             countedReads == ReadsAfter(calls, calls[c].ip, day, at - Window(day))
  <2>1. /\ Cardinality(old) <= Limit(day) /\ Cardinality(reads) <= Limit(day)
        /\ Cardinality(counted) < Limit(day) /\ Cardinality(countedReads) < Limit(day)
        /\ Limit(day) \in Nat /\ Window(day) \in Nat
    BY <1>4, LimitNumbers DEF LInv, Windows, RoomIn
  <2>2. /\ IsFiniteSet(old) /\ IsFiniteSet(reads) /\ IsFiniteSet(counted)
        /\ IsFiniteSet(countedReads)
        /\ Cardinality(old) \in Nat /\ Cardinality(reads) \in Nat
        /\ Cardinality(counted) \in Nat /\ Cardinality(countedReads) \in Nat
    BY <1>3, CountsAreNumbers
  <2>3. inWindow => old \subseteq counted /\ reads \subseteq countedReads
    <3> SUFFICES ASSUME inWindow PROVE old \subseteq counted /\ reads \subseteq countedReads
      OBVIOUS
    <3>1. \A x \in Nat : x > t => x > at - Window(day)
      BY <1>5, <2>1
    <3> QED BY <1>5, <3>1 DEF RowsIn, RowsAfter, ReadsIn, ReadsAfter
  <2>4. /\ RowsIn(import_previews', ip, day, t) \in {old, old \cup {new}}
        /\ ~inWindow => RowsIn(import_previews', ip, day, t) = old
    BY <1>2, <1>5 DEF RowsIn, RowsAfter, new
  <2>5. /\ ReadsIn(calls', ip, day, t) \in {reads, reads \cup {c}}
        /\ ~inWindow => ReadsIn(calls', ip, day, t) = reads
    <3>1. \A d \in Calls : d \in ReadsIn(calls', ip, day, t) <=>
            /\ calls'[d].row # NoRow /\ (day \/ calls'[d].ip = ip)
            /\ calls'[d].now > t /\ calls'[d].now <= t + Window(day)
      BY DEF ReadsIn, ReadsAfter
    <3>2. \A d \in Calls : d \in reads <=>
            /\ calls[d].row # NoRow /\ (day \/ calls[d].ip = ip)
            /\ calls[d].now > t /\ calls[d].now <= t + Window(day)
      BY DEF ReadsIn, ReadsAfter
    <3>3. ReadsIn(calls', ip, day, t) \subseteq Calls /\ reads \subseteq Calls
      BY DEF ReadsIn, ReadsAfter
    <3>4. \A d \in Calls \ {c} : d \in ReadsIn(calls', ip, day, t) <=> d \in reads
      BY <1>1, <3>1, <3>2
    <3>5. c \notin reads
      BY <1>5, <3>2
    <3>6. c \in ReadsIn(calls', ip, day, t) => inWindow
      BY <1>1, <1>5, <2>1, <3>1 DEF at
    <3> DEFINE R == ReadsIn(calls', ip, day, t)
    <3> HIDE DEF reads, inWindow, R
    <3>7. CASE c \in R
      <4>1. R = reads \cup {c}
        BY <3>3, <3>4, <3>7 DEF R
      <4> QED BY <3>6, <3>7, <4>1 DEF R
    <3>8. CASE c \notin R
      <4>2. \A d \in Calls : d \in R <=> d \in reads
        BY <3>4, <3>5, <3>8 DEF R
      <4>3. R \subseteq Calls /\ reads \subseteq Calls
        BY <3>3 DEF R
      <4>1. R = reads
        BY <4>2, <4>3
      <4> QED BY <4>1 DEF R
    <3> QED BY <3>7, <3>8
  <2> HIDE DEF old, reads, counted, countedReads, inWindow
  <2>6. Cardinality(RowsIn(import_previews', ip, day, t)) <= Limit(day)
    <3>1. inWindow => Cardinality(old) <= Cardinality(counted)
      BY <2>2, <2>3, FS_Subset
    <3>2. Cardinality(old \cup {new}) = IF new \in old THEN Cardinality(old) ELSE Cardinality(old) + 1
      BY <2>2, FS_AddElement
    <3>3. CASE inWindow
      <4>1. Cardinality(old) + 1 <= Limit(day)
        BY <2>1, <2>2, <3>1, <3>3
      <4>2. Cardinality(old \cup {new}) <= Limit(day)
        BY <2>1, <2>2, <3>2, <4>1
      <4> QED BY <2>1, <2>4, <4>2
    <3>4. CASE ~inWindow
      BY <2>1, <2>4, <3>4
    <3> QED BY <3>3, <3>4
  <2>7. Cardinality(ReadsIn(calls', ip, day, t)) <= Limit(day)
    <3>1. inWindow => Cardinality(reads) <= Cardinality(countedReads)
      BY <2>2, <2>3, FS_Subset
    <3>2. Cardinality(reads \cup {c}) = IF c \in reads THEN Cardinality(reads) ELSE Cardinality(reads) + 1
      BY <2>2, FS_AddElement
    <3>3. CASE inWindow
      <4>1. Cardinality(reads) + 1 <= Limit(day)
        BY <2>1, <2>2, <3>1, <3>3
      <4>2. Cardinality(reads \cup {c}) <= Limit(day)
        BY <2>1, <2>2, <3>2, <4>1
      <4> QED BY <2>1, <2>5, <4>2
    <3>4. CASE ~inWindow
      BY <2>1, <2>5, <3>4
    <3> QED BY <3>3, <3>4
  <2> QED BY <2>6, <2>7
<1>7. \A d \in Calls : RoomFor(calls[d])'
  <2>1. \A d \in Calls \ {c} : ~HasLock(d)
    BY DEF IInv, OneReadAtATime, HasLock, Locked
  <2>2. \A d \in Calls : \A day \in BOOLEAN : calls'[d].phase \notin Passed(day)
    BY <1>1, <2>1 DEF HasLock, Locked, Passed
  <2> QED BY <2>2 DEF RoomFor, Passed
<1>8. ReadKept'
  <2> SUFFICES ASSUME NEW d \in Calls, calls'[d].row # NoRow,
                      now <= calls'[d].now + PREVIEW_KEEP_SECS
               PROVE  \E q \in import_previews' : IsRowOf(q, calls'[d])
    BY DEF ReadKept, PREVIEW_KEEP_SECS
  <2>1. CASE d = c
    BY <1>1, <1>2, <2>1 DEF IsRowOf, new, at
  <2>2. CASE d # c
    BY <1>1, <2>2 DEF LInv, ReadKept
  <2> QED BY <2>1, <2>2
<1> QED BY <1>3, <1>6, <1>7, <1>8 DEF LInv

\* What the limits look at, of a call that moves to another phase.
SameRead(r, s) == s.row = r.row /\ s.ip = r.ip /\ s.now = r.now

LEMMA MovedIsSameRead ==
  ASSUME NEW r, NEW p, IsCall(r)
  PROVE  /\ [r EXCEPT !.phase = p].phase = p /\ SameRead(r, [r EXCEPT !.phase = p])
         /\ Ended(r, p).phase = p /\ SameRead(r, Ended(r, p))
  BY DEF IsCall, Ended, SameRead

LEMMA RowsUnchanged ==
  ASSUME UNCHANGED import_previews
  PROVE  RowsUpdated
<1> DEFINE f == [p \in import_previews |-> p]
<1>1. \A q \in import_previews' : \E p \in import_previews : q = f[p] /\ SameCount(p, q)
  BY DEF SameCount
<1> HIDE DEF f
<1> QED BY <1>1 DEF RowsUpdated, SameCount

\* A step of one call.
LEMMA OneCallLimits ==
  ASSUME CInv, LInv, RowsUpdated, now' = now, NEW c \in Calls, NEW r,
         calls' = [calls EXCEPT ![c] = r], SameRead(calls[c], r),
         \A day \in BOOLEAN : r.phase \in Passed(day) =>
           RoomIn(import_previews, calls, calls[c].ip, day, calls[c].now - Window(day))
  PROVE  LInv'
<1>1. /\ calls'[c] = r
      /\ \A d \in Calls \ {c} : calls'[d] = calls[d]
  BY DEF CInv, Shape
<1>2. now' \in Nat /\ now <= now'
  BY DEF CInv, Typed
<1>3. ReadsSame
  BY <1>1 DEF ReadsSame, SameRead
<1>4. \A d \in Calls : \A day \in BOOLEAN : calls'[d].phase \in Passed(day) =>
        /\ calls'[d].ip = calls[d].ip /\ calls'[d].now = calls[d].now
        /\ RoomIn(import_previews, calls, calls[d].ip, day, calls[d].now - Window(day))
  BY <1>1 DEF LInv, RoomFor, SameRead
<1> QED BY <1>2, <1>3, <1>4, QuietLimits

LEMMA LockedStepLimits ==
  ASSUME CInv, LInv, NEW c \in Calls, CountIp(c) \/ CountDay(c) \/ Clean(c)
  PROVE  LInv'
<1> DEFINE ip == calls[c].ip
           Room(day) == RoomIn(import_previews, calls, ip, day, calls[c].now - Window(day))
           Left(day) == RowsAfter(import_previews, ip, day, calls[c].now - Window(day))
<1>0. IsCall(calls[c]) /\ now' = now
  BY DEF CInv, Shape, CountIp, CountDay, Clean
<1>1. ASSUME NEW rows, NEW window, NEW limit, NEW answer \in Answers, NEW next,
             RefuseOr(c, rows, window, limit, answer, next), RowsUpdated,
             Cardinality(Since(rows, calls[c].now - window)) < limit =>
               \A day \in BOOLEAN : next \in Passed(day) => Room(day)
      PROVE  LInv'
  <2> DEFINE at == Oldest(Since(rows, calls[c].now - window)) + window
             r == [Ended(calls[c], answer) EXCEPT !.retryAt = at]
             s == [calls[c] EXCEPT !.phase = next]
  <2>1. CASE calls' = [calls EXCEPT ![c] = r]
    <3> HIDE DEF at
    <3>1. r.phase = answer /\ SameRead(calls[c], r)
      BY <1>0 DEF IsCall, Ended, SameRead
    <3> HIDE DEF r
    <3> QED BY <1>0, <1>1, <2>1, <3>1, OneCallLimits DEF Passed, Answers
  <2>2. CASE Goto(c, next) /\ Cardinality(Since(rows, calls[c].now - window)) < limit
    <3>1. calls' = [calls EXCEPT ![c] = s]
      BY <2>2 DEF Goto
    <3>2. s.phase = next /\ SameRead(calls[c], s)
      BY <1>0, MovedIsSameRead
    <3> HIDE DEF s
    <3> QED BY <1>0, <1>1, <2>2, <3>1, <3>2, OneCallLimits
  <2> QED BY <1>1, <2>1, <2>2 DEF RefuseOr
<1>2. CASE CountIp(c)
  <2>1. Since(RowsOf(ip), calls[c].now - HOUR) = Left(FALSE)
    BY DEF Since, RowsOf, RowsAfter, Window
  <2>2. Running(c) /\ RowsUpdated
    BY <1>2, RowsUnchanged DEF CountIp, Running, Answers
  <2>3. Cardinality(Left(FALSE)) < Limit(FALSE) => Room(FALSE)
    BY <2>2, ReadsHaveRows
  <2>4. Limit(FALSE) = PER_IP_PER_HOUR
    BY DEF Limit
  <2> HIDE DEF Room, Left
  <2>5. \A day \in BOOLEAN : "count_day" \in Passed(day) => day = FALSE
    BY DEF Passed
  <2>6. Cardinality(Since(RowsOf(ip), calls[c].now - HOUR)) < PER_IP_PER_HOUR =>
          \A day \in BOOLEAN : "count_day" \in Passed(day) => Room(day)
    BY <2>1, <2>3, <2>4, <2>5
  <2>7. "ip_limit" \in Answers
    BY DEF Answers
  <2> QED BY <1>1, <1>2, <2>2, <2>6, <2>7 DEF CountIp
<1>3. CASE CountDay(c)
  <2>1. Since(import_previews, calls[c].now - DAY) = Left(TRUE)
    BY DEF Since, RowsAfter, Window
  <2>2. Running(c) /\ RowsUpdated
    BY <1>3, RowsUnchanged DEF CountDay, Running, Answers
  <2>3. Cardinality(Left(TRUE)) < Limit(TRUE) => Room(TRUE)
    BY <2>2, ReadsHaveRows
  <2>4. Room(FALSE) /\ Limit(TRUE) = PER_DAY
    BY <1>3 DEF CountDay, LInv, RoomFor, Passed, Limit
  <2> HIDE DEF Room, Left
  <2>5. Cardinality(Since(import_previews, calls[c].now - DAY)) < PER_DAY =>
          \A day \in BOOLEAN : "clean" \in Passed(day) => Room(day)
    BY <2>1, <2>3, <2>4
  <2>6. "day_limit" \in Answers
    BY DEF Answers
  <2> QED BY <1>1, <1>3, <2>2, <2>5, <2>6 DEF CountDay
<1>4. CASE Clean(c)
  <2> DEFINE s == [calls[c] EXCEPT !.phase = "reserve"]
             f == [p \in import_previews |-> p]
  <2>1. /\ calls[c].phase = "clean" /\ calls' = [calls EXCEPT ![c] = s]
        /\ import_previews' =
             {q \in import_previews : q.created_at >= calls[c].now - PREVIEW_KEEP_SECS}
    BY <1>4 DEF Clean, Goto
  <2>2. s.phase = "reserve" /\ SameRead(calls[c], s)
    BY <1>0, MovedIsSameRead
  <2>3. RowsUpdated
    <3>1. \A q \in import_previews' : \E p \in import_previews : q = f[p] /\ SameCount(p, q)
      BY <2>1 DEF SameCount
    <3>2. calls[c].now <= now /\ calls[c].now \in Nat /\ now \in Nat /\ PREVIEW_KEEP_SECS \in Nat
      BY <2>1, PreviewAssumption DEF CInv, Timely, Typed, PREVIEW_KEEP_SECS
    <3>3. \A p \in import_previews : now <= p.created_at + PREVIEW_KEEP_SECS
                                       => p \in import_previews'
      BY <2>1, <3>2 DEF CInv, Typed, IsRow
    <3> HIDE DEF f
    <3> QED BY <3>1, <3>3 DEF RowsUpdated, SameCount
  <2>4. \A day \in BOOLEAN : Room(day)
    BY <2>1 DEF LInv, RoomFor, Passed
  <2> HIDE DEF s, f
  <2> QED BY <1>0, <2>1, <2>2, <2>3, <2>4, OneCallLimits
<1> QED BY <1>2, <1>3, <1>4

LEMMA WithStatusUpdates ==
  ASSUME CInv, NEW id, NEW status, import_previews' = WithStatus(id, status)
  PROVE  RowsUpdated
<1> DEFINE written(p) == IF p.id = id THEN [p EXCEPT !.status = status] ELSE p
           f == [p \in import_previews |-> written(p)]
<1>1. \A p \in import_previews : SameCount(p, written(p))
  BY DEF CInv, Typed, IsRow, SameCount
<1>2. import_previews' = {written(p) : p \in import_previews}
  BY DEF WithStatus
<1>3. \A p \in import_previews : f[p] = written(p)
  OBVIOUS
<1> HIDE DEF f, written
<1>4. \A q \in import_previews' : \E p \in import_previews : q = f[p] /\ SameCount(p, q)
  BY <1>1, <1>2, <1>3
<1>5. \A p \in import_previews : \E q \in import_previews' : SameCount(p, q)
  BY <1>1, <1>2
<1> QED BY <1>4, <1>5 DEF RowsUpdated

\* The steps of one call that is not counted or reserving.
LEMMA ServeLimits ==
  ASSUME CInv, LInv, NEW c \in Calls,
         \/ Lookup(c) \/ Miss(c) \/ WorkerSettles(c) \/ Timer(c) \/ Store(c) \/ MarkFailed(c)
         \/ WorkerStep(c)
  PROVE  LInv'
<1> DEFINE call == calls[c]
<1>0. IsCall(call)
  BY DEF CInv, Shape
<1>1. now' = now
  BY DEF Lookup, Miss, WorkerSettles, Timer, Store, MarkFailed, WorkerStep
<1>2. RowsUpdated
  <2>1. \/ import_previews' = import_previews
        \/ import_previews' = WithStatus(call.row, "done")
        \/ import_previews' = WithStatus(call.row, "failed")
    BY DEF Lookup, Miss, WorkerSettles, Timer, Store, MarkFailed, WorkerStep
  <2> QED BY <2>1, RowsUnchanged, WithStatusUpdates
<1>3. PICK r : /\ calls' = [calls EXCEPT ![c] = r]
               /\ SameRead(call, r)
               /\ (r.phase = call.phase \/ \A day \in BOOLEAN : r.phase \notin Passed(day))
  <2>1. CASE WorkerStep(c)
    <3>1. PICK e \in Settling : calls' = [calls EXCEPT ![c].worker = e]
      BY <2>1 DEF WorkerStep
    <3> DEFINE s == [call EXCEPT !.worker = e]
    <3>2. calls' = [calls EXCEPT ![c] = s]
      BY <3>1
    <3>3. SameRead(call, s) /\ s.phase = call.phase
      BY <1>0 DEF IsCall, SameRead
    <3> HIDE DEF s
    <3> QED BY <3>2, <3>3
  <2>2. CASE WorkerSettles(c) \/ Timer(c)
    <3>1. PICK p \in {"store", "fail"} : Settle(c, p)
      BY <2>2 DEF WorkerSettles, Timer
    <3> DEFINE s == [call EXCEPT !.phase = p, !.worker = "none"]
    <3>2. calls' = [calls EXCEPT ![c] = s]
      BY <3>1 DEF Settle
    <3>3. SameRead(call, s) /\ s.phase = p
      BY <1>0 DEF IsCall, SameRead
    <3> HIDE DEF s
    <3>4. \A day \in BOOLEAN : s.phase \notin Passed(day)
      BY <3>3 DEF Passed
    <3> QED BY <3>2, <3>3, <3>4
  <2>3. CASE \E p \in Answers : Answer(c, p)
    <3>1. PICK p \in Answers : Answer(c, p)
      BY <2>3
    <3> DEFINE s == Ended(call, p)
    <3>2. calls' = [calls EXCEPT ![c] = s]
      BY <3>1 DEF Answer
    <3>3. s.phase = p /\ SameRead(call, s)
      BY <1>0, MovedIsSameRead
    <3> HIDE DEF s
    <3>4. \A day \in BOOLEAN : s.phase \notin Passed(day)
      BY <3>3 DEF Passed, Answers
    <3> QED BY <3>2, <3>3, <3>4
  <2>4. CASE \E p \in {"miss", "count_ip", "fail"} : Goto(c, p)
    <3>1. PICK p \in {"miss", "count_ip", "fail"} : Goto(c, p)
      BY <2>4
    <3> DEFINE s == [call EXCEPT !.phase = p]
    <3>2. calls' = [calls EXCEPT ![c] = s]
      BY <3>1 DEF Goto
    <3>3. s.phase = p /\ SameRead(call, s)
      BY <1>0, MovedIsSameRead
    <3> HIDE DEF s
    <3>4. \A day \in BOOLEAN : s.phase \notin Passed(day)
      BY <3>3 DEF Passed
    <3> QED BY <3>2, <3>3, <3>4
  <2>5. CASE calls' = [calls EXCEPT ![c] = [Ended(call, "ok") EXCEPT !.storedAt = now]]
    <3> DEFINE s == [Ended(call, "ok") EXCEPT !.storedAt = now]
    <3>1. s.phase = "ok" /\ SameRead(call, s)
      BY <1>0 DEF IsCall, Ended, SameRead
    <3> HIDE DEF s
    <3>2. \A day \in BOOLEAN : s.phase \notin Passed(day)
      BY <3>1 DEF Passed
    <3>3. calls' = [calls EXCEPT ![c] = s]
      BY <2>5 DEF s
    <3> QED BY <3>1, <3>2, <3>3
  <2>6. CASE Lookup(c) \/ Miss(c)
    BY <2>3, <2>4, <2>6 DEF Lookup, Miss, Answers
  <2>7. CASE Store(c)
    BY <2>4, <2>5, <2>7 DEF Store
  <2>8. CASE MarkFailed(c)
    BY <2>3, <2>8 DEF MarkFailed, AnswerAndRelease, Answers
  <2> QED BY <2>1, <2>2, <2>6, <2>7, <2>8
<1>4. \A day \in BOOLEAN : r.phase \in Passed(day) =>
        RoomIn(import_previews, calls, calls[c].ip, day, calls[c].now - Window(day))
  BY <1>3 DEF LInv, RoomFor
<1>5. calls' = [calls EXCEPT ![c] = r] /\ SameRead(calls[c], r)
  BY <1>3
<1> HIDE DEF call
<1> QED BY <1>1, <1>2, <1>4, <1>5, OneCallLimits

LEMMA NextLInv == IInv /\ CInv /\ LInv /\ [Next]_vars => LInv'
<1> SUFFICES ASSUME IInv, CInv, LInv, [Next]_vars PROVE LInv'
  OBVIOUS
<1>1. ASSUME NEW c \in Calls, Reserve(c) PROVE LInv'
  <2> DEFINE r == [calls[c] EXCEPT !.phase = "read", !.row = nextId, !.worker = "running"]
  <2>1. r.phase = "read" /\ r.row = nextId /\ r.ip = calls[c].ip /\ r.now = calls[c].now
    BY DEF CInv, Shape, IsCall
  <2>2. calls' = [calls EXCEPT ![c] = r]
    BY <1>1 DEF Reserve, CInv, Shape
  <2> HIDE DEF r
  <2> QED BY <1>1, <2>1, <2>2, InsertLimits DEF Reserve
<1>2. ASSUME NEW c \in Calls, QueryFails(c) PROVE LInv'
  <2> DEFINE r == Ended(calls[c], "failed")
  <2>1. r.phase = "failed" /\ SameRead(calls[c], r)
    BY MovedIsSameRead DEF CInv, Shape
  <2>2. calls' = [calls EXCEPT ![c] = r] /\ now' = now
    BY <1>2 DEF QueryFails, AnswerAndRelease, Answer
  <2> HIDE DEF r
  <2>3. CASE UNCHANGED import_previews
    BY <2>1, <2>2, <2>3, RowsUnchanged, OneCallLimits DEF Passed
  <2>4. CASE /\ calls[c].phase = "reserve"
             /\ import_previews' = import_previews \cup {NewRow(c)}
    <3>1. calls[c].row = NoRow
      BY <2>4 DEF CInv, RowsOwned, Early
    <3> QED BY <2>1, <2>2, <2>4, <3>1, InsertLimits DEF SameRead
  <2> QED BY <1>2, <2>3, <2>4 DEF QueryFails
<1>3. ASSUME NEW c \in Calls, NEW w \in Wallets, NEW ip \in Ips, Start(c, w, ip) PROVE LInv'
  <2> DEFINE r == [calls[c] EXCEPT !.phase = "lookup", !.wallet = w, !.ip = ip, !.now = now]
  <2>1. r.phase = "lookup" /\ r.row = calls[c].row
    BY DEF CInv, Shape, IsCall
  <2>2. /\ calls[c].phase = "idle" /\ calls' = [calls EXCEPT ![c] = r]
        /\ UNCHANGED <<now, import_previews>>
    BY <1>3 DEF Start
  <2> HIDE DEF r
  <2>3. /\ calls'[c] = r
        /\ \A d \in Calls \ {c} : calls'[d] = calls[d]
    BY <2>2 DEF CInv, Shape
  <2>4. ReadsSame
    BY <2>1, <2>2, <2>3 DEF ReadsSame, CInv, RowsOwned, Early
  <2>5. \A d \in Calls : \A day \in BOOLEAN : calls'[d].phase \in Passed(day) =>
          /\ calls'[d].ip = calls[d].ip /\ calls'[d].now = calls[d].now
          /\ RoomIn(import_previews, calls, calls[d].ip, day, calls[d].now - Window(day))
    BY <2>1, <2>3 DEF LInv, RoomFor, Passed
  <2>6. now' \in Nat /\ now <= now'
    BY <2>2 DEF CInv, Typed
  <2> QED BY <2>2, <2>4, <2>5, <2>6, RowsUnchanged, QuietLimits
<1>4. CASE Restart \/ Tick \/ UNCHANGED vars
  <2>1. now' \in Nat /\ now <= now' /\ UNCHANGED import_previews
    BY <1>4, PreviewAssumption DEF Restart, Tick, vars, CInv, Typed
  <2>2. \A c \in Calls : \/ calls'[c] = calls[c]
                         \/ calls'[c] = Ended(calls[c], "lost")
    BY <1>4 DEF Restart, Tick, vars
  <2>3. \A c \in Calls : Ended(calls[c], "lost").phase = "lost" /\ SameRead(calls[c], Ended(calls[c], "lost"))
    BY MovedIsSameRead DEF CInv, Shape
  <2>4. ReadsSame
    BY <2>2, <2>3 DEF ReadsSame, SameRead
  <2>5. \A d \in Calls : \A day \in BOOLEAN : calls'[d].phase \in Passed(day) =>
          /\ calls'[d].ip = calls[d].ip /\ calls'[d].now = calls[d].now
          /\ RoomIn(import_previews, calls, calls[d].ip, day, calls[d].now - Window(day))
    BY <2>2, <2>3 DEF LInv, RoomFor, Passed
  <2> QED BY <2>1, <2>4, <2>5, RowsUnchanged, QuietLimits
<1>5. ASSUME NEW c \in Calls, CountIp(c) \/ CountDay(c) \/ Clean(c) PROVE LInv'
  BY <1>5, LockedStepLimits
<1>6. ASSUME NEW c \in Calls, \/ Lookup(c) \/ Miss(c) \/ WorkerSettles(c) \/ Timer(c)
                              \/ Store(c) \/ MarkFailed(c) \/ WorkerStep(c)
      PROVE  LInv'
  BY <1>6, ServeLimits
<1> QED BY <1>1, <1>2, <1>3, <1>4, <1>5, <1>6 DEF Next, Serve

LEMMA InitLInv == Init => LInv
<1> SUFFICES ASSUME Init PROVE LInv
  OBVIOUS
<1>1. /\ \A c \in Calls : calls[c].phase = "idle" /\ calls[c].row = NoRow
      /\ import_previews = {}
  BY DEF Init
<1>2. ASSUME NEW ip, NEW day \in BOOLEAN, NEW t
      PROVE  RowsIn(import_previews, ip, day, t) = {} /\ ReadsIn(calls, ip, day, t) = {}
  BY <1>1 DEF RowsIn, RowsAfter, ReadsIn, ReadsAfter
<1>3. Windows
  BY <1>2, FS_EmptySet, LimitNumbers DEF Windows
<1>4. ReadKept /\ \A c \in Calls : RoomFor(calls[c])
  BY <1>1 DEF ReadKept, RoomFor, Passed
<1> QED BY <1>1, <1>3, <1>4, FS_EmptySet DEF LInv

LEMMA LimitsHold == CInv /\ LInv => WithinLimits
<1> SUFFICES ASSUME CInv, LInv, NEW c \in Calls
             PROVE  LET from == calls[c].now - 1
                    IN  /\ Cardinality({d \in Reads(from, HOUR) : calls[d].ip = calls[c].ip})
                             <= PER_IP_PER_HOUR
                        /\ Cardinality(Reads(from, DAY)) <= PER_DAY
  BY DEF WithinLimits
<1> DEFINE from == calls[c].now - 1
<1>1. from \in Int
  BY DEF CInv, Typed
<1> HIDE DEF from
<1>2. {d \in Reads(from, HOUR) : calls[d].ip = calls[c].ip} = ReadsIn(calls, calls[c].ip, FALSE, from)
  BY DEF Reads, ReadsIn, ReadsAfter, Window
<1>3. Reads(from, DAY) = ReadsIn(calls, calls[c].ip, TRUE, from)
  BY DEF Reads, ReadsIn, ReadsAfter, Window
<1>4. /\ Cardinality(ReadsIn(calls, calls[c].ip, FALSE, from)) <= Limit(FALSE)
      /\ Cardinality(ReadsIn(calls, calls[c].ip, TRUE, from)) <= Limit(TRUE)
  BY <1>1 DEF LInv, Windows
<1>5. Limit(FALSE) = PER_IP_PER_HOUR /\ Limit(TRUE) = PER_DAY
  BY DEF Limit
<1> QED BY <1>2, <1>3, <1>4, <1>5 DEF from

-----------------------------------------------------------------------------
(* The times to come back *)

\* A non-empty set of numbers has a least one.
LEMMA LeastNumber ==
  ASSUME NEW S, S \subseteq Nat, S # {}
  PROVE  Min(S) \in S /\ \A n \in S : Min(S) <= n
<1> DEFINE R == OpToRel(<, Nat)
<1>1. IsWellFoundedOn(R, Nat)
  BY NatLessThanWellFounded
<1>2. \A x, y \in Nat : <<x, y>> \in R <=> x < y
  BY DEF OpToRel
<1> HIDE DEF R
<1>3. PICK x \in S : \A y \in S : ~(<<y, x>> \in R)
  BY <1>1, WFMin
<1>4. \A y \in S : x <= y
  <2> TAKE y \in S
  <2>1. x \in Nat /\ y \in Nat /\ ~(<<y, x>> \in R)
    BY <1>3
  <2>2. ~(y < x)
    BY <1>2, <2>1
  <2> QED BY <2>1, <2>2
<1> QED BY <1>3, <1>4 DEF Min

\* Some of a finite set, but not all of it.
LEMMA FewerWithout ==
  ASSUME NEW S, IsFiniteSet(S), NEW T \in SUBSET S, NEW x \in S \ T,
         NEW n \in Nat, Cardinality(S) <= n
  PROVE  Cardinality(T) < n
<1>1. /\ IsFiniteSet(T) /\ IsFiniteSet(S \ {x})
      /\ Cardinality(S \ {x}) = Cardinality(S) - 1
  BY FS_Subset, FS_RemoveElement
<1>2. T \subseteq S \ {x}
  OBVIOUS
<1>3. Cardinality(T) <= Cardinality(S \ {x})
  BY <1>1, <1>2, FS_Subset
<1>4. Cardinality(T) \in Nat /\ Cardinality(S) \in Nat
  BY <1>1, FS_CardinalityType
<1> QED BY <1>1, <1>3, <1>4

\* Of the rows no later than a call, those still counted once the oldest has left
\* the window are fewer than the limit.
LEMMA OldestLeaves ==
  ASSUME CInv, LInv, NEW ip, NEW day \in BOOLEAN, NEW n \in Int,
         NEW S, S = RowsAfter(import_previews, ip, day, n - Window(day)),
         NEW T, \A r \in T : r \in S /\ r.created_at > Oldest(S) /\ r.created_at <= n
  PROVE  Cardinality(T) < Limit(day)
<1>1. Limit(day) \in Nat \ {0} /\ Window(day) \in Nat
  BY LimitNumbers
<1>2. CASE S = {}
  <2>1. T = {}
    BY <1>2
  <2> QED BY <1>1, <2>1, FS_EmptySet
<1>3. CASE S # {} /\ ~(\E r \in S : r.created_at <= n)
  <2>1. T = {}
    BY <1>3
  <2> QED BY <1>1, <2>1, FS_EmptySet
<1>4. CASE \E r \in S : r.created_at <= n
  <2> DEFINE times == {r.created_at : r \in S}
             N == RowsIn(import_previews, ip, day, n - Window(day))
  <2>1. \A r \in S : r.created_at \in Nat
    BY DEF RowsAfter, CInv, Typed, IsRow
  <2>2. times \subseteq Nat /\ times # {}
    BY <1>4, <2>1
  <2>3. Oldest(S) = Min(times)
    BY DEF Oldest
  <2>4. Min(times) \in times /\ \A t \in times : Min(times) <= t
    <3> HIDE DEF times
    <3> QED BY <2>2, LeastNumber
  <2>5. PICK first \in S : first.created_at = Oldest(S) /\ \A r \in S : first.created_at <= r.created_at
    BY <2>3, <2>4
  <2>6. \A r : r \in N <=> r \in S /\ r.created_at <= n
    BY <1>1 DEF RowsIn
  <2>7. first \in N /\ first \notin T
    BY <1>4, <2>1, <2>5, <2>6
  <2>8. T \in SUBSET N
    BY <2>6
  <2>9. IsFiniteSet(N) /\ Cardinality(N) <= Limit(day)
    BY <1>1, CountsAreNumbers DEF LInv, Windows
  <2> HIDE DEF N
  <2> QED BY <1>1, <2>7, <2>8, <2>9, FewerWithout
<1> QED BY <1>2, <1>3, <1>4

\* Only the count of a limit refuses a call for it.
LEMMA OnlyCountsRefuse ==
  ASSUME CInv, [Next]_vars, NEW c \in Calls,
         calls[c].phase \in {"count_ip", "count_day"}, calls'[c].phase \in {"ip_limit", "day_limit"}
  PROVE  CountIp(c) \/ CountDay(c)
<1>0. calls = [d \in Calls |-> calls[d]] /\ \A d \in Calls : IsCall(calls[d])
  BY DEF CInv, Shape
<1>1. ASSUME NEW d \in Calls, NEW r, calls' = [calls EXCEPT ![d] = r] PROVE d = c /\ r = calls'[c]
  BY <1>0, <1>1
<1>2. ASSUME NEW d \in Calls, NEW p, Goto(d, p) PROVE d = c /\ p \in {"ip_limit", "day_limit"}
  BY <1>0, <1>1, <1>2 DEF Goto, IsCall
<1>3. ASSUME NEW d \in Calls, NEW p, Answer(d, p) PROVE d = c /\ p \in {"ip_limit", "day_limit"}
  BY <1>0, <1>1, <1>3 DEF Answer, Ended, IsCall
<1>4. ASSUME NEW d \in Calls, Serve(d) PROVE CountIp(c) \/ CountDay(c)
  <2>1. ~Lookup(d)
    BY <1>2, <1>3 DEF Lookup
  <2>2. ~Miss(d)
    BY <1>2, <1>3 DEF Miss
  <2>3. ~Clean(d)
    BY <1>2 DEF Clean
  <2>4. ~Reserve(d) /\ ~WorkerSettles(d) /\ ~Timer(d)
    <3>1. d # c => calls[c] = calls'[c] \/ ~(Reserve(d) \/ WorkerSettles(d) \/ Timer(d))
      BY <1>0 DEF Reserve, WorkerSettles, Timer, Settle
    <3> QED BY <3>1 DEF Reserve, WorkerSettles, Timer
  <2>5. ~QueryFails(d)
    BY <1>3 DEF QueryFails, AnswerAndRelease
  <2>6. ~Store(d)
    <3>1. d # c => calls[c] = calls'[c] \/ ~Store(d)
      BY <1>0, <1>2 DEF Store
    <3> QED BY <3>1 DEF Store
  <2>7. ~MarkFailed(d)
    BY <1>3 DEF MarkFailed, AnswerAndRelease
  <2>8. ASSUME CountIp(d) \/ CountDay(d) PROVE d = c
    <3>1. d # c => calls[c] = calls'[c]
      BY <1>0, <1>2, <2>8 DEF CountIp, CountDay, RefuseOr
    <3> QED BY <3>1
  <2> QED BY <1>4, <2>1, <2>2, <2>3, <2>4, <2>5, <2>6, <2>7, <2>8 DEF Serve
<1>5. ASSUME NEW d \in Calls, WorkerStep(d) PROVE FALSE
  <2>1. PICK e \in Settling : calls' = [calls EXCEPT ![d].worker = e]
    BY <1>5 DEF WorkerStep
  <2>2. calls'[c].phase = calls[c].phase
    BY <1>0, <2>1 DEF IsCall
  <2> QED BY <2>2
<1>6. ASSUME NEW d \in Calls, NEW w \in Wallets, NEW ip \in Ips, Start(d, w, ip) PROVE FALSE
  <2>1. d # c
    BY <1>6 DEF Start
  <2>2. calls'[c] = calls[c]
    BY <1>0, <1>6, <2>1 DEF Start
  <2> QED BY <2>2
<1>7. ~Restart
  <2>1. Ended(calls[c], "lost").phase = "lost"
    BY <1>0 DEF Ended, IsCall
  <2> QED BY <2>1 DEF Restart
<1>8. ~Tick /\ ~UNCHANGED vars
  BY DEF Tick, vars
<1> QED BY <1>4, <1>5, <1>6, <1>7, <1>8 DEF Next

\* The time a refused call is given, and what is still counted then.
LEMMA RefusedSteps ==
  ASSUME CInv, LInv, NEW c \in Calls, NEW day \in BOOLEAN, NEW rows, NEW answer, NEW next,
         \A r : r \in rows <=> r \in import_previews /\ (day \/ r.requester_ip = calls[c].ip),
         RefuseOr(c, rows, Window(day), Limit(day), answer, next),
         calls[c].phase # next, calls'[c].phase # next
  PROVE  Cardinality(StillCounted(rows, c, Window(day))) < Limit(day)
<1> DEFINE n == calls[c].now
           S == RowsAfter(import_previews, calls[c].ip, day, n - Window(day))
           T == StillCounted(rows, c, Window(day))
<1>0. /\ calls = [d \in Calls |-> calls[d]] /\ IsCall(calls[c])
      /\ n \in Int /\ Window(day) \in Nat
  BY LimitNumbers DEF CInv, Shape, Typed
<1>1. ~Goto(c, next)
  BY <1>0 DEF Goto, IsCall
<1>2. Since(rows, n - Window(day)) = S
  BY DEF Since, RowsAfter
<1>3. calls' = [calls EXCEPT ![c] = [Ended(@, answer) EXCEPT
                  !.retryAt = Oldest(S) + Window(day)]]
  BY <1>1, <1>2 DEF RefuseOr
<1>4. calls'[c].retryAt = Oldest(S) + Window(day)
  BY <1>0, <1>3 DEF Ended, IsCall
<1>5. Cardinality(S) >= Limit(day)
  BY <1>1, <1>2 DEF RefuseOr
<1>6. S # {} => Oldest(S) \in Nat
  <2> DEFINE times == {r.created_at : r \in S}
  <2>1. \A r \in S : r.created_at \in Nat
    BY DEF RowsAfter, CInv, Typed, IsRow
  <2>2. ASSUME S # {} PROVE times \subseteq Nat /\ times # {}
    BY <2>1, <2>2
  <2> HIDE DEF times
  <2>3. S # {} => Min(times) \in Nat
    BY <2>2, LeastNumber
  <2> QED BY <2>3 DEF Oldest, times
<1>7. S # {}
  <2>1. Limit(day) \in Nat \ {0}
    BY LimitNumbers
  <2> HIDE DEF S
  <2>2. Cardinality({}) = 0
    BY FS_EmptySet
  <2>3. CASE S = {}
    <3>1. Cardinality(S) = 0
      BY <2>2, <2>3
    <3> QED BY <1>5, <2>1, <3>1
  <2> QED BY <2>3
<1>8. Oldest(S) \in Nat
  BY <1>6, <1>7
<1>9. ASSUME NEW r \in T PROVE r \in S /\ r.created_at > Oldest(S) /\ r.created_at <= n
  <2>1. r \in rows /\ r.created_at > (Oldest(S) + Window(day)) - Window(day) /\ r.created_at <= n
    <3> HIDE DEF S
    <3> QED BY <1>4 DEF StillCounted, Since
  <2>2. r.created_at > Oldest(S)
    <3> HIDE DEF S
    <3>1. (Oldest(S) + Window(day)) - Window(day) = Oldest(S)
      BY <1>0, <1>8
    <3> QED BY <2>1, <3>1
  <2>3. Oldest(S) > n - Window(day)
    <3> DEFINE times == {q.created_at : q \in S}
    <3>1. \A q \in S : q.created_at \in Nat
      BY DEF RowsAfter, CInv, Typed, IsRow
    <3>2. times \subseteq Nat /\ times # {}
      BY <1>7, <3>1
    <3>3. Min(times) \in times
      <4> HIDE DEF times
      <4> QED BY <3>2, LeastNumber
    <3> QED BY <3>3 DEF Oldest, RowsAfter
  <2>4. r.created_at \in Nat
    BY <2>1 DEF CInv, Typed, IsRow
  <2>5. r.created_at > n - Window(day)
    BY <1>0, <1>8, <2>2, <2>3, <2>4
  <2> QED BY <2>1, <2>2, <2>5 DEF RowsAfter
<1> HIDE DEF S, T
<1> QED BY <1>0, <1>9, OldestLeaves DEF S, T

LEMMA RetryAtSteps ==
  ASSUME CInv, LInv, [Next]_vars, NEW c \in Calls
  PROVE  /\ calls[c].phase = "count_ip" /\ calls'[c].phase = "ip_limit"
              => Cardinality(StillCounted(RowsOf(calls[c].ip), c, HOUR)) < PER_IP_PER_HOUR
         /\ calls[c].phase = "count_day" /\ calls'[c].phase = "day_limit"
              => Cardinality(StillCounted(import_previews, c, DAY)) < PER_DAY
<1>0. Window(FALSE) = HOUR /\ Limit(FALSE) = PER_IP_PER_HOUR /\ Window(TRUE) = DAY /\ Limit(TRUE) = PER_DAY
  BY DEF Window, Limit
<1>1. ASSUME calls[c].phase = "count_ip", calls'[c].phase = "ip_limit"
      PROVE  Cardinality(StillCounted(RowsOf(calls[c].ip), c, HOUR)) < PER_IP_PER_HOUR
  <2>1. CountIp(c)
    BY <1>1, OnlyCountsRefuse DEF CountDay
  <2>2. RefuseOr(c, RowsOf(calls[c].ip), Window(FALSE), Limit(FALSE), "ip_limit", "count_day")
    BY <1>0, <2>1 DEF CountIp
  <2>3. \A r : r \in RowsOf(calls[c].ip) <=>
                 r \in import_previews /\ (FALSE \/ r.requester_ip = calls[c].ip)
    BY DEF RowsOf
  <2>4. Cardinality(StillCounted(RowsOf(calls[c].ip), c, Window(FALSE))) < Limit(FALSE)
    BY <1>1, <2>2, <2>3, RefusedSteps
  <2> QED BY <1>0, <2>4
<1>2. ASSUME calls[c].phase = "count_day", calls'[c].phase = "day_limit"
      PROVE  Cardinality(StillCounted(import_previews, c, DAY)) < PER_DAY
  <2>1. CountDay(c)
    BY <1>2, OnlyCountsRefuse DEF CountIp
  <2>2. RefuseOr(c, import_previews, Window(TRUE), Limit(TRUE), "day_limit", "clean")
    BY <1>0, <2>1 DEF CountDay
  <2>3. Cardinality(StillCounted(import_previews, c, Window(TRUE))) < Limit(TRUE)
    BY <1>2, <2>2, RefusedSteps
  <2> QED BY <1>0, <2>3
<1> QED BY <1>1, <1>2

\* Neither limit is ever passed (preview.ts:2): over any window of an hour or a
\* day, whatever fails, is cleaned away or restarted between counting and reading.
THEOREM ReadsWithinLimits == Spec => []WithinLimits
  BY InitIInv, InitCInv, InitLInv, NextIInv, NextCInv, NextLInv, LimitsHold, PTL DEF Spec

\* A refused call is told a time by which it has room, but for reads of calls that
\* began after it (preview.ts:146).
THEOREM RetryAtHolds == Spec => RetryAtIsEnough
<1>1. CInv /\ LInv /\ [Next]_vars =>
        [\A c \in Calls :
           /\ calls[c].phase = "count_ip" /\ calls'[c].phase = "ip_limit"
                => Cardinality(StillCounted(RowsOf(calls[c].ip), c, HOUR)) < PER_IP_PER_HOUR
           /\ calls[c].phase = "count_day" /\ calls'[c].phase = "day_limit"
                => Cardinality(StillCounted(import_previews, c, DAY)) < PER_DAY]_vars
  BY RetryAtSteps
<1> QED BY <1>1, InitIInv, InitCInv, InitLInv, NextIInv, NextCInv, NextLInv, PTL
      DEF Spec, RetryAtIsEnough

-----------------------------------------------------------------------------
(* The order events are built in *)

\* How ByTime compares two events, and the place it gives each.
Before(events, j, i) ==
  \/ events[j].timestamp < events[i].timestamp
  \/ events[j].timestamp = events[i].timestamp /\ j < i
Below(events, i) == {j \in DOMAIN events : Before(events, j, i)}
Place(events) == [i \in DOMAIN events |-> 1 + Cardinality(Below(events, i))]

Timed(events, n) == DOMAIN events = 1..n /\ \A i \in 1..n : events[i].timestamp \in Nat

\* Of two events one goes first, and whatever goes before it goes before the other.
LEMMA BeforeOrders ==
  ASSUME NEW n \in Nat, NEW events, Timed(events, n)
  PROVE  /\ \A i \in 1..n : ~Before(events, i, i)
         /\ \A i, j \in 1..n : i # j => Before(events, i, j) \/ Before(events, j, i)
         /\ \A i, j, k \in 1..n :
              Before(events, i, j) /\ Before(events, j, k) => Before(events, i, k)
         /\ \A i, j \in 1..n :
              Before(events, i, j) => events[i].timestamp <= events[j].timestamp
  BY DEF Before, Timed

\* An event's place is after those of the events before it.
LEMMA PlaceRises ==
  ASSUME NEW n \in Nat, NEW events, Timed(events, n)
  PROVE  /\ Place(events) \in [1..n -> 1..n]
         /\ \A i, j \in 1..n :
              Before(events, j, i) => Place(events)[j] < Place(events)[i]
<1>1. IsFiniteSet(1..n) /\ Cardinality(1..n) = n
  BY FS_Interval
<1>2. DOMAIN events = 1..n
  BY DEF Timed
<1>3. \A i \in 1..n : /\ Below(events, i) \subseteq 1..n
                      /\ i \notin Below(events, i) /\ IsFiniteSet(Below(events, i))
                      /\ Cardinality(Below(events, i)) \in Nat
  BY <1>1, <1>2, BeforeOrders, FS_Subset, FS_CardinalityType DEF Below
<1>4. ASSUME NEW i \in 1..n PROVE Place(events)[i] \in 1..n
  <2>1. Below(events, i) \subseteq (1..n) \ {i}
    BY <1>3
  <2>2. IsFiniteSet((1..n) \ {i}) /\ Cardinality((1..n) \ {i}) = n - 1
    BY <1>1, FS_RemoveElement
  <2>3. Cardinality(Below(events, i)) <= n - 1
    BY <2>1, <2>2, FS_Subset
  <2> QED BY <1>2, <1>3, <2>3 DEF Place
<1>5. ASSUME NEW i \in 1..n, NEW j \in 1..n, Before(events, j, i)
      PROVE  Place(events)[j] < Place(events)[i]
  <2>1. j \in Below(events, i) /\ Below(events, j) \subseteq Below(events, i) \ {j}
    BY <1>2, <1>3, <1>5, BeforeOrders DEF Below
  <2>2. /\ IsFiniteSet(Below(events, i) \ {j})
        /\ Cardinality(Below(events, i) \ {j}) = Cardinality(Below(events, i)) - 1
    BY <1>3, <2>1, FS_RemoveElement
  <2>3. Cardinality(Below(events, j)) <= Cardinality(Below(events, i)) - 1
    BY <2>1, <2>2, FS_Subset
  <2> QED BY <1>2, <1>3, <2>3 DEF Place
<1> QED BY <1>2, <1>4, <1>5 DEF Place

\* Every place is taken.
LEMMA PlaceTaken ==
  ASSUME NEW n \in Nat, NEW events, Timed(events, n), NEW k \in 1..n
  PROVE  \E i \in 1..n : Place(events)[i] = k
<1> DEFINE p == Place(events)
<1>1. p \in [1..n -> 1..n] /\ \A i, j \in 1..n : i # j => p[i] # p[j]
  <2>1. \A i, j \in 1..n : p[i] \in Nat /\ p[j] \in Nat
    BY PlaceRises
  <2> QED BY <2>1, PlaceRises, BeforeOrders
<1> HIDE DEF p
<1>2. p \in Injection(1..n, 1..n)
  BY <1>1 DEF Injection, IsInjective
<1>3. p \in Surjection(1..n, 1..n)
  BY <1>2, FS_Injection, FS_Interval
<1> QED BY <1>3 DEF Surjection, p

\* ByTime lists the events by their times.
LEMMA ByTimeSorts ==
  ASSUME NEW n \in Nat, NEW events, Timed(events, n)
  PROVE  LET sorted == ByTime(events)
         IN  /\ DOMAIN sorted = 1..n
             /\ \A k \in 1..n : \E i \in 1..n : sorted[k] = events[i]
             /\ \A k, l \in 1..n : k < l => sorted[k].timestamp <= sorted[l].timestamp
<1> DEFINE p == Place(events)
           at(k) == CHOOSE i \in 1..n : p[i] = k
           s == [k \in 1..n |-> events[at(k)]]
<1>1. \A k \in 1..n : at(k) \in 1..n /\ p[at(k)] = k
  BY PlaceTaken
<1>2. ByTime(events) = Tuple(s)
  BY DEF ByTime, Timed, Place, Below, Before
<1>3. Tuple(s) = s
  BY DEF Tuple
<1>4. ASSUME NEW k \in 1..n, NEW l \in 1..n, k < l
      PROVE  events[at(k)].timestamp <= events[at(l)].timestamp
  <2> DEFINE i == at(k)
             j == at(l)
  <2>1. i \in 1..n /\ j \in 1..n /\ p[i] = k /\ p[j] = l
    BY <1>1
  <2> HIDE DEF i, j
  <2>2. i # j /\ ~Before(events, j, i)
    BY <1>4, <2>1, PlaceRises
  <2>3. events[i].timestamp <= events[j].timestamp
    BY <2>1, <2>2, BeforeOrders
  <2> QED BY <2>3 DEF i, j
<1>5. ByTime(events) = s
  BY <1>2, <1>3
<1> HIDE DEF at, p
<1>6. /\ DOMAIN s = 1..n
      /\ \A k \in 1..n : \E i \in 1..n : s[k] = events[i]
      /\ \A k, l \in 1..n : k < l => s[k].timestamp <= s[l].timestamp
  BY <1>1, <1>4
<1> HIDE DEF s
<1> QED BY <1>5, <1>6

-----------------------------------------------------------------------------
(* The loans built, event by event *)

\* What the fold of Built makes of the events s, with its answers g for fewer.
Nothing == [open |-> {}, loans |-> <<>>]
BuildStep(events, g, s) ==
  IF s = {} THEN Nothing ELSE OnEvent(g[s \ {Max(s)}], events[Max(s)])
IsBuild(g, events, n) == g = [s \in SUBSET (1..n) |-> BuildStep(events, g, s)]

LEMMA MaxIn ==
  ASSUME NEW n \in Nat, NEW s \in SUBSET (1..n), s # {}
  PROVE  Max(s) \in s /\ \A k \in s : k <= Max(s)
<1> DEFINE below == {n - k : k \in s}
<1>0. \A k \in s : k \in Nat /\ n - k \in Nat
  OBVIOUS
<1>1. below \subseteq Nat /\ below # {}
  <2> HIDE DEF below
  <2>1. below \subseteq Nat
    BY <1>0 DEF below
  <2>2. PICK k : k \in s
    OBVIOUS
  <2>3. n - k \in below
    BY <2>2 DEF below
  <2> QED BY <2>1, <2>3
<1>2. Min(below) \in below /\ \A m \in below : Min(below) <= m
  BY <1>1, LeastNumber
<1>3. PICK k \in s : Min(below) = n - k
  BY <1>2
<1>4. \A l \in s : k >= l
  <2> TAKE l \in s
  <2>1. n - l \in below
    OBVIOUS
  <2>2. n - k <= n - l
    BY <1>2, <1>3, <2>1
  <2> QED BY <1>0, <2>2
<1> QED BY <1>4 DEF Max

\* The function that the fold chooses exists.
LEMMA BuildExists ==
  ASSUME NEW n \in Nat, NEW events
  PROVE  \E g : IsBuild(g, events, n)
<1> DEFINE S == 1..n
           Upto(m) == {s \in SUBSET S : Cardinality(s) <= m}
           Good == {m \in Nat : \E g : g = [s \in Upto(m) |-> BuildStep(events, g, s)]}
<1>0. IsFiniteSet(S)
  BY FS_Interval
<1>1. \A s \in SUBSET S : IsFiniteSet(s) /\ Cardinality(s) \in Nat
  BY <1>0, FS_Subset, FS_CardinalityType
<1>2. 0 \in Good
  <2>1. \A s \in Upto(0) : s = {}
    BY <1>1, FS_EmptySet
  <2> DEFINE g == [s \in Upto(0) |-> Nothing]
  <2>2. g = [s \in Upto(0) |-> BuildStep(events, g, s)]
    BY <2>1 DEF BuildStep
  <2> QED BY <2>2
<1>3. \A m \in Nat : m \in Good => m + 1 \in Good
  <2> SUFFICES ASSUME NEW m \in Nat, m \in Good PROVE m + 1 \in Good
    OBVIOUS
  <2>1. PICK g : g = [s \in Upto(m) |-> BuildStep(events, g, s)]
    OBVIOUS
  <2> DEFINE h == [s \in Upto(m + 1) |-> BuildStep(events, g, s)]
  <2>2. ASSUME NEW s \in Upto(m + 1), s # {} PROVE s \ {Max(s)} \in Upto(m)
    <3>1. Max(s) \in s
      BY <2>2, MaxIn
    <3>2. Cardinality(s \ {Max(s)}) = Cardinality(s) - 1
      BY <1>1, <3>1, FS_RemoveElement
    <3>3. Cardinality(s) <= m + 1 /\ Cardinality(s) \in Nat /\ s \ {Max(s)} \in SUBSET S
      BY <1>1
    <3>4. Cardinality(s \ {Max(s)}) <= m
      BY <3>2, <3>3
    <3> QED BY <3>3, <3>4
  <2>3. Upto(m) \subseteq Upto(m + 1)
    BY <1>1
  <2>4. \A s \in Upto(m) : h[s] = g[s]
    <3> HIDE DEF Upto
    <3> QED BY <2>1, <2>3
  <2>5. \A s \in Upto(m + 1) : BuildStep(events, g, s) = BuildStep(events, h, s)
    <3> HIDE DEF h, Upto
    <3> QED BY <2>2, <2>4 DEF BuildStep
  <2>6. h = [s \in Upto(m + 1) |-> BuildStep(events, h, s)]
    <3> HIDE DEF Upto
    <3> QED BY <2>5
  <2> HIDE DEF h, Upto
  <2> QED BY <2>6
<1> DEFINE N == Cardinality(S)
<1>4. N \in Good
  <2> HIDE DEF Good
  <2> QED BY <1>0, <1>2, <1>3, NaturalInduction, FS_CardinalityType
<1>5. Upto(N) = SUBSET S
  BY <1>0, FS_Subset, <1>1
<1> QED BY <1>4, <1>5 DEF IsBuild

\* Built takes the events one after the other: st[k] is what the first k leave.
LEMMA BuiltByEvent ==
  ASSUME NEW n \in Nat, NEW events, DOMAIN events = 1..n
  PROVE  \E st : /\ st[0] = Nothing
                 /\ \A k \in 0..(n - 1) : st[k + 1] = OnEvent(st[k], events[k + 1])
                 /\ FoldLeft(OnEvent, Nothing, events) = st[n]
<1> DEFINE g == CHOOSE g : g = [s \in SUBSET (1..n) |-> BuildStep(events, g, s)]
           st == [k \in 0..n |-> g[1..k]]
<1>1. IsBuild(g, events, n)
  BY BuildExists DEF IsBuild
<1>2. FoldLeft(OnEvent, Nothing, events) = g[1..n]
  BY DEF FoldLeft, MapThenFoldSet, BuildStep
<1> HIDE DEF g
<1>3. st[0] = Nothing
  <2>1. 1..0 = {} /\ {} \in SUBSET (1..n)
    OBVIOUS
  <2> QED BY <1>1, <2>1 DEF IsBuild, BuildStep
<1>4. ASSUME NEW k \in 0..(n - 1) PROVE st[k + 1] = OnEvent(st[k], events[k + 1])
  <2> DEFINE s == 1..(k + 1)
  <2>1. s \in SUBSET (1..n) /\ s # {} /\ k + 1 \in s /\ s \ {k + 1} = 1..k
    OBVIOUS
  <2>2. Max(s) = k + 1
    <3>1. Max(s) \in s /\ \A l \in s : l <= Max(s)
      BY <2>1, MaxIn
    <3>2. \A l \in s : l \in Nat /\ l <= k + 1
      OBVIOUS
    <3> QED BY <2>1, <3>1, <3>2
  <2>3. g[s] = OnEvent(g[s \ {Max(s)}], events[Max(s)])
    <3> HIDE DEF s
    <3> QED BY <1>1, <2>1 DEF IsBuild, BuildStep
  <2>4. g[1..(k + 1)] = OnEvent(g[1..k], events[k + 1])
    BY <2>1, <2>2, <2>3
  <2> QED BY <2>4
<1>5. st[n] = g[1..n]
  OBVIOUS
<1> QED BY <1>2, <1>3, <1>4, <1>5

-----------------------------------------------------------------------------
(* What is known of the loans, open and closed, at a time *)

CreditEvents(Names) ==
  [protocol : Names, position : Names, mint : Names, kind : {"borrow", "repay", "liquidation"},
   amount : Int, paid : Int, timestamp : Nat, signature : Nat, dueAt : Nat]
BuiltLoans(Names) ==
  [protocol : Names, position : Names, mint : Names, principal : Int,
   openedAt : Nat, closedAt : Nat, dueAt : Nat,
   outcome : {ON_TIME, LATE, LIQUIDATED, DEFAULTED}, peakAt : Nat,
   openSignature : Nat, peakSignature : Nat, endSignature : Nat]
OpenLoans(E) ==
  [first : E, debt : Int, peak : Int, peakEvent : E, borrowed : Int, repaid : Int]

\* A loan runs from a borrow to a repay or a liquidation of its position.
Spans(l, a, z) ==
  /\ a.kind = "borrow" /\ z.kind # "borrow" /\ Key(a) = Key(l) /\ Key(z) = Key(l)
  /\ l.openedAt = a.timestamp /\ l.openSignature = a.signature
  /\ l.closedAt = z.timestamp /\ l.endSignature = z.signature
  /\ z.kind = "liquidation" => l.outcome \in {LIQUIDATED, DEFAULTED}
  /\ l.outcome = ON_TIME => l.dueAt = 0 \/ l.closedAt <= l.dueAt

IsOpen(o, E, t) ==
  /\ o \in OpenLoans(E) /\ o.first.kind = "borrow"
  /\ o.first.timestamp <= o.peakEvent.timestamp /\ o.peakEvent.timestamp <= t
IsLoan(l, E, t) ==
  /\ l.openedAt <= l.peakAt /\ l.peakAt <= l.closedAt /\ l.closedAt <= t
  /\ \E a, z \in E : Spans(l, a, z)
\* The loan l was over when the loan k was closed, and opened if of its position.
Over(l, k) ==
  l.closedAt <= k.closedAt /\ (Key(l) = Key(k) => l.closedAt <= k.openedAt)

OneOpen(open, E, t) ==
  /\ \A o \in open : IsOpen(o, E, t)
  /\ \A o, p \in open : Key(o.first) = Key(p.first) => o = p
LoansBuilt(loans, E, Names, t) ==
  /\ loans \in Seq(BuiltLoans(Names))
  /\ \A i \in 1..Len(loans) : IsLoan(loans[i], E, t)
  /\ \A i, j \in 1..Len(loans) : i < j => Over(loans[i], loans[j])
\* No loan of a position with an open one ended after that was opened.
OpenAfter(open, loans) ==
  \A o \in open, i \in 1..Len(loans) :
    Key(o.first) = Key(loans[i]) => loans[i].closedAt <= o.first.timestamp
BInv(st, E, Names, t) ==
  /\ st = [open |-> st.open, loans |-> st.loans]
  /\ OneOpen(st.open, E, t) /\ LoansBuilt(st.loans, E, Names, t) /\ OpenAfter(st.open, st.loans)

Sound(E, Names, t) == E \subseteq CreditEvents(Names) /\ t \in Nat

LEMMA EventFields ==
  ASSUME NEW Names, NEW e \in CreditEvents(Names)
  PROVE  /\ e.protocol \in Names /\ e.position \in Names /\ e.mint \in Names
         /\ e.kind \in {"borrow", "repay", "liquidation"} /\ e.amount \in Int /\ e.paid \in Int
         /\ e.timestamp \in Nat /\ e.signature \in Nat /\ e.dueAt \in Nat
  BY DEF CreditEvents

LEMMA LoanFields ==
  ASSUME NEW Names, NEW l \in BuiltLoans(Names)
  PROVE  l.openedAt \in Nat /\ l.peakAt \in Nat /\ l.closedAt \in Nat
  BY DEF BuiltLoans

\* What holds at a time holds later.
LEMMA StillOpen ==
  ASSUME NEW Names, NEW E, NEW t, Sound(E, Names, t), NEW u \in Nat, t <= u,
         NEW open, OneOpen(open, E, t)
  PROVE  OneOpen(open, E, u)
<1>1. ASSUME NEW o \in open PROVE IsOpen(o, E, u)
  <2>1. IsOpen(o, E, t) /\ o.peakEvent \in E
    BY DEF OneOpen, IsOpen, OpenLoans
  <2>2. o.peakEvent.timestamp \in Nat
    BY <2>1, EventFields DEF Sound
  <2> QED BY <2>1, <2>2 DEF IsOpen, Sound
<1> QED BY <1>1 DEF OneOpen

LEMMA StillBuilt ==
  ASSUME NEW Names, NEW E, NEW t, Sound(E, Names, t), NEW u \in Nat, t <= u,
         NEW loans, LoansBuilt(loans, E, Names, t)
  PROVE  LoansBuilt(loans, E, Names, u)
<1>1. ASSUME NEW i \in 1..Len(loans) PROVE IsLoan(loans[i], E, u)
  <2>1. loans[i] \in BuiltLoans(Names) /\ IsLoan(loans[i], E, t)
    BY DEF LoansBuilt
  <2>2. loans[i].closedAt \in Nat
    BY <2>1, LoanFields
  <2> QED BY <2>1, <2>2 DEF IsLoan, Sound
<1> QED BY <1>1 DEF LoansBuilt

\* The loan of a position is opened, or goes on.
LEMMA OpenReplaced ==
  ASSUME NEW Names, NEW E, NEW t, Sound(E, Names, t), NEW u \in Nat, t <= u,
         NEW st, BInv(st, E, Names, t), NEW open, open \subseteq st.open,
         NEW o, IsOpen(o, E, u), \A p \in open : Key(p.first) # Key(o.first),
         \A i \in 1..Len(st.loans) :
           Key(o.first) = Key(st.loans[i]) => st.loans[i].closedAt <= o.first.timestamp
  PROVE  BInv([open |-> open \cup {o}, loans |-> st.loans], E, Names, u)
<1>1. OneOpen(st.open, E, u) /\ LoansBuilt(st.loans, E, Names, u)
  BY StillOpen, StillBuilt DEF BInv
<1>2. OneOpen(open \cup {o}, E, u)
  BY <1>1 DEF OneOpen
<1>3. OpenAfter(open \cup {o}, st.loans)
  BY DEF OpenAfter, BInv
<1> QED BY <1>1, <1>2, <1>3 DEF BInv

\* The loan of a position is closed by an event of it.
LEMMA OpenClosed ==
  ASSUME NEW Names, NEW E, NEW t, Sound(E, Names, t), NEW z \in E, t <= z.timestamp,
         z.kind # "borrow",
         NEW st, BInv(st, E, Names, t), NEW old \in st.open, Key(old.first) = Key(z),
         NEW open, open \subseteq st.open \ {old},
         NEW o, IsOpen(o, E, t), o.first = old.first,
         NEW outcome \in {ON_TIME, LATE, LIQUIDATED, DEFAULTED},
         z.kind = "liquidation" => outcome \in {LIQUIDATED, DEFAULTED},
         outcome = ON_TIME => DueOf(o, z) = 0 \/ z.timestamp <= DueOf(o, z)
  PROVE  BInv([open |-> open, loans |-> Append(st.loans, Close(o, z, outcome))],
              E, Names, z.timestamp)
<1> DEFINE u == z.timestamp
           l == Close(o, z, outcome)
           built == st.loans
           all == Append(built, l)
<1>1. /\ z \in CreditEvents(Names) /\ u \in Nat /\ t \in Nat
      /\ o.first \in CreditEvents(Names) /\ o.peakEvent \in CreditEvents(Names)
      /\ o.first \in E /\ o.peak \in Int
  BY EventFields DEF Sound, IsOpen, OpenLoans
<1>2. o.first.timestamp \in Nat /\ o.peakEvent.timestamp \in Nat
  BY <1>1, EventFields
<1>3. /\ l.openedAt = o.first.timestamp /\ l.closedAt = u /\ l.peakAt = o.peakEvent.timestamp
      /\ l.dueAt = DueOf(o, z) /\ l.outcome = outcome
      /\ l.openSignature = o.first.signature /\ l.endSignature = z.signature
      /\ Key(l) = Key(o.first)
  BY DEF Close, Key
<1>4. l \in BuiltLoans(Names)
  <2>1. DueOf(o, z) \in Nat
    BY <1>1, EventFields DEF DueOf
  <2>2. /\ o.first.protocol \in Names /\ o.first.position \in Names /\ o.first.mint \in Names
        /\ o.first.signature \in Nat /\ o.peakEvent.signature \in Nat /\ z.signature \in Nat
    BY <1>1, EventFields
  <2> QED BY <1>1, <1>2, <2>1, <2>2 DEF Close, BuiltLoans
<1>5. Spans(l, o.first, z)
  BY <1>3 DEF Spans, IsOpen
<1>6. IsLoan(l, E, u)
  <2>1. \E a, b \in E : Spans(l, a, b)
    BY <1>1, <1>5
  <2>2. l.openedAt <= l.peakAt /\ l.peakAt <= l.closedAt /\ l.closedAt <= u
    BY <1>1, <1>2, <1>3 DEF IsOpen
  <2> QED BY <2>1, <2>2 DEF IsLoan
<1> HIDE DEF l
<1>7. /\ built \in Seq(BuiltLoans(Names)) /\ all \in Seq(BuiltLoans(Names))
      /\ Len(built) \in Nat /\ Len(all) = Len(built) + 1 /\ all[Len(built) + 1] = l
      /\ \A i \in 1..Len(built) : all[i] = built[i] /\ built[i] \in BuiltLoans(Names)
  BY <1>4 DEF BInv, LoansBuilt
<1>8. LoansBuilt(built, E, Names, u)
  BY <1>1, StillBuilt DEF BInv
<1>9. \A i \in 1..Len(built) : Over(built[i], l)
  <2> TAKE i \in 1..Len(built)
  <2>1. IsLoan(built[i], E, u)
    BY <1>8 DEF LoansBuilt
  <2>2. Key(built[i]) = Key(old.first) => built[i].closedAt <= old.first.timestamp
    BY DEF BInv, OpenAfter
  <2> QED BY <1>3, <2>1, <2>2 DEF IsLoan, Over
<1> HIDE DEF all, built
<1>10. LoansBuilt(all, E, Names, u)
  <2>1. ASSUME NEW i \in 1..Len(all) PROVE IsLoan(all[i], E, u)
    <3>1. i \in 1..Len(built) \/ i = Len(built) + 1
      BY <1>7
    <3> QED BY <1>6, <1>7, <1>8, <3>1 DEF LoansBuilt
  <2>2. ASSUME NEW i \in 1..Len(all), NEW j \in 1..Len(all), i < j PROVE Over(all[i], all[j])
    <3>1. /\ i \in 1..Len(built)
          /\ j \in 1..Len(built) \/ j = Len(built) + 1
      BY <1>7, <2>2
    <3> QED BY <1>7, <1>8, <1>9, <2>2, <3>1 DEF LoansBuilt
  <2> QED BY <1>7, <2>1, <2>2 DEF LoansBuilt
<1>11. OneOpen(open, E, u)
  BY <1>1, StillOpen DEF BInv, OneOpen
<1>12. OpenAfter(open, all)
  <2> SUFFICES ASSUME NEW p \in open, NEW i \in 1..Len(all), Key(p.first) = Key(all[i])
               PROVE  all[i].closedAt <= p.first.timestamp
    BY DEF OpenAfter
  <2>1. p \in st.open /\ Key(p.first) # Key(l)
    BY <1>3 DEF BInv, OneOpen
  <2>2. i \in 1..Len(built)
    BY <1>7, <2>1
  <2> QED BY <1>7, <2>1, <2>2 DEF BInv, OpenAfter, built
<1> QED BY <1>10, <1>11, <1>12 DEF BInv, all, built, l

-----------------------------------------------------------------------------
(* What an event does *)

LEMMA OpenFields ==
  ASSUME NEW E, NEW o \in OpenLoans(E)
  PROVE  /\ o.first \in E /\ o.debt \in Int /\ o.peak \in Int /\ o.peakEvent \in E
         /\ o.borrowed \in Int /\ o.repaid \in Int
  BY DEF OpenLoans

\* An open loan after a borrow, and after a repay of some of it.
LoanGrown(o, debt, sum, peak, e) ==
  [o EXCEPT !.debt = debt, !.borrowed = sum, !.peak = peak, !.peakEvent = e]
LoanRepaid(o, debt, sum) == [o EXCEPT !.debt = debt, !.repaid = sum]

LEMMA OpenGrown ==
  ASSUME NEW E, NEW o \in OpenLoans(E), NEW debt \in Int, NEW sum \in Int,
         NEW peak \in Int, NEW e \in E
  PROVE  LET new == LoanGrown(o, debt, sum, peak, e)
         IN  new \in OpenLoans(E) /\ new.first = o.first /\ new.peakEvent = e
  BY DEF OpenLoans, LoanGrown

LEMMA OpenRepaid ==
  ASSUME NEW E, NEW o \in OpenLoans(E), NEW debt \in Int, NEW sum \in Int
  PROVE  LET new == LoanRepaid(o, debt, sum)
         IN  new \in OpenLoans(E) /\ new.first = o.first /\ new.peakEvent = o.peakEvent
  BY DEF OpenLoans, LoanRepaid

LEMMA BorrowKeeps ==
  ASSUME NEW Names, NEW E, NEW t, Sound(E, Names, t), NEW e \in E, t <= e.timestamp,
         NEW st, BInv(st, E, Names, t), e.kind = "borrow"
  PROVE  BInv(Borrowed(st, e), E, Names, e.timestamp)
<1> DEFINE u == e.timestamp
           olds == Current(st, e)
           o == IF olds = {} THEN OpenLoan(e) ELSE CHOOSE x \in olds : TRUE
           debt == o.debt + e.amount
           sum == o.borrowed + e.amount
           peak == IF debt > o.peak THEN debt ELSE o.peak
           at == IF debt > o.peak THEN e ELSE o.peakEvent
           new == LoanGrown(o, debt, sum, peak, at)
           open == st.open \ olds
<1>1. /\ e.timestamp \in Nat /\ t \in Nat /\ e.amount \in Int
  BY EventFields DEF Sound
<1>2. /\ IsOpen(o, E, u) /\ Key(o.first) = Key(e)
      /\ \A i \in 1..Len(st.loans) :
           Key(o.first) = Key(st.loans[i]) => st.loans[i].closedAt <= o.first.timestamp
  <2>1. CASE olds = {}
    <3>1. o = OpenLoan(e)
      BY <2>1
    <3>2. IsOpen(OpenLoan(e), E, u) /\ OpenLoan(e).first = e
      BY <1>1 DEF OpenLoan, IsOpen, OpenLoans
    <3>3. \A i \in 1..Len(st.loans) : st.loans[i].closedAt <= u
      BY <1>1, StillBuilt DEF BInv, LoansBuilt, IsLoan
    <3> HIDE DEF o
    <3> QED BY <3>1, <3>2, <3>3
  <2>2. CASE olds # {}
    <3>1. o \in olds
      BY <2>2
    <3>2. o \in st.open /\ Key(o.first) = Key(e)
      BY <3>1 DEF Current
    <3> HIDE DEF o
    <3>3. IsOpen(o, E, u)
      BY <1>1, <3>2, StillOpen DEF BInv, OneOpen
    <3> QED BY <3>2, <3>3 DEF BInv, OpenAfter
  <2> QED BY <2>1, <2>2
<1> HIDE DEF o
<1>3. o \in OpenLoans(E) /\ o.first \in E /\ o.peakEvent \in E
  BY <1>2 DEF IsOpen, OpenLoans
<1>4. o.first.timestamp \in Nat /\ o.peakEvent.timestamp \in Nat
  BY <1>3, EventFields DEF Sound
<1>5. /\ new \in OpenLoans(E) /\ new.first = o.first /\ new.peakEvent \in {e, o.peakEvent}
  <2>1. debt \in Int /\ sum \in Int /\ peak \in Int /\ at \in {e, o.peakEvent} /\ at \in E
    BY <1>1, <1>2, <1>3, OpenFields DEF IsOpen
  <2> HIDE DEF debt, sum, peak, at
  <2>2. new \in OpenLoans(E) /\ new.first = o.first /\ new.peakEvent = at
    BY <1>3, <2>1, OpenGrown
  <2> QED BY <2>1, <2>2
<1> HIDE DEF new
<1>6. IsOpen(new, E, u)
  BY <1>1, <1>2, <1>4, <1>5 DEF IsOpen
<1>7. open \subseteq st.open /\ \A p \in open : Key(p.first) # Key(new.first)
  BY <1>2, <1>5 DEF Current
<1>8. Borrowed(st, e) = [open |-> open \cup {new}, loans |-> st.loans]
  <2>1. st = [open |-> st.open, loans |-> st.loans]
    BY DEF BInv
  <2>2. Borrowed(st, e) = [st EXCEPT !.open = (@ \ olds) \cup {new}]
    BY DEF Borrowed, LoanGrown, new, o
  <2> HIDE DEF olds
  <2> QED BY <2>1, <2>2
<1> HIDE DEF open
<1>9. BInv([open |-> open \cup {new}, loans |-> st.loans], E, Names, u)
  BY <1>1, <1>2, <1>5, <1>6, <1>7, OpenReplaced
<1> QED BY <1>8, <1>9

LEMMA RepayKeeps ==
  ASSUME NEW Names, NEW E, NEW t, Sound(E, Names, t), NEW e \in E, t <= e.timestamp,
         NEW st, BInv(st, E, Names, t), e.kind = "repay",
         NEW old \in st.open, Key(old.first) = Key(e)
  PROVE  BInv(Repaid(st, e, old), E, Names, e.timestamp)
<1> DEFINE u == e.timestamp
           debt == old.debt - e.amount
           sum == old.repaid + (IF e.amount = REPAY_ALL THEN e.paid ELSE e.amount)
           o == LoanRepaid(old, debt, sum)
           due == DueOf(o, e)
           outcome == IF Short(o, e) THEN LiquidationOutcome(e.protocol, due, u)
                      ELSE RepayOutcome(e.protocol, due, u)
           rest == st.open \ {old}
<1>1. e.timestamp \in Nat /\ t \in Nat /\ e.amount \in Int /\ e.paid \in Int
  BY EventFields DEF Sound
<1>2. IsOpen(old, E, t) /\ old \in OpenLoans(E)
  BY DEF BInv, OneOpen, IsOpen
<1>3. o \in OpenLoans(E) /\ o.first = old.first /\ o.peakEvent = old.peakEvent
  <2>1. debt \in Int /\ sum \in Int
    BY <1>1, <1>2, OpenFields
  <2> HIDE DEF debt, sum
  <2> QED BY <1>2, <2>1, OpenRepaid, Zenon
<1>4. /\ outcome \in {ON_TIME, LATE, LIQUIDATED, DEFAULTED}
      /\ outcome = ON_TIME => due = 0 \/ u <= due
  <2> HIDE DEF due, u
  <2> QED BY DEF LiquidationOutcome, RepayOutcome, ON_TIME, LATE, LIQUIDATED, DEFAULTED
<1>5. st = [open |-> st.open, loans |-> st.loans]
  BY DEF BInv
<1>6. Repaid(st, e, old) =
        IF o.debt <= 0
        THEN [open |-> rest \ {o}, loans |-> Append(st.loans, Close(o, e, outcome))]
        ELSE [open |-> rest \cup {o}, loans |-> st.loans]
  <2>1. [st EXCEPT !.open = @ \ {old}] = [open |-> rest, loans |-> st.loans]
    BY <1>5
  <2>2. Repaid(st, e, old) =
          LET r == [st EXCEPT !.open = @ \ {old}]
          IN  IF o.debt <= 0 THEN Closed(r, o, e, outcome) ELSE [r EXCEPT !.open = @ \cup {o}]
    BY DEF Repaid, LoanRepaid
  <2> HIDE DEF o, rest, outcome
  <2>3. LET r == [open |-> rest, loans |-> st.loans]
        IN  /\ Closed(r, o, e, outcome)
                 = [open |-> rest \ {o}, loans |-> Append(st.loans, Close(o, e, outcome))]
            /\ [r EXCEPT !.open = @ \cup {o}] = [open |-> rest \cup {o}, loans |-> st.loans]
    BY DEF Closed
  <2> QED BY <2>1, <2>2, <2>3
<1> HIDE DEF o
<1>7. IsOpen(o, E, t)
  BY <1>2, <1>3 DEF IsOpen
<1>8. CASE o.debt <= 0
  <2>1. rest \ {o} \subseteq st.open \ {old}
    OBVIOUS
  <2> HIDE DEF rest, outcome
  <2>2. BInv([open |-> rest \ {o}, loans |-> Append(st.loans, Close(o, e, outcome))], E, Names, u)
    BY <1>1, <1>3, <1>4, <1>7, <2>1, OpenClosed
  <2> QED BY <1>6, <1>8, <2>2
<1>9. CASE ~(o.debt <= 0)
  <2>1. rest \subseteq st.open /\ \A p \in rest : Key(p.first) # Key(o.first)
    BY <1>3 DEF BInv, OneOpen
  <2>2. \A i \in 1..Len(st.loans) :
          Key(o.first) = Key(st.loans[i]) => st.loans[i].closedAt <= o.first.timestamp
    BY <1>3 DEF BInv, OpenAfter
  <2>3. IsOpen(o, E, u)
    <3>1. o.peakEvent.timestamp \in Nat
      BY <1>3, EventFields DEF OpenLoans, Sound
    <3> QED BY <1>1, <1>7, <3>1 DEF IsOpen
  <2> HIDE DEF rest
  <2>4. BInv([open |-> rest \cup {o}, loans |-> st.loans], E, Names, u)
    BY <1>1, <2>1, <2>2, <2>3, OpenReplaced
  <2> QED BY <1>6, <1>9, <2>4
<1> QED BY <1>8, <1>9

LEMMA LiquidationKeeps ==
  ASSUME NEW Names, NEW E, NEW t, Sound(E, Names, t), NEW e \in E, t <= e.timestamp,
         NEW st, BInv(st, E, Names, t), e.kind # "borrow",
         NEW o \in st.open, Key(o.first) = Key(e)
  PROVE  BInv(Liquidated(st, e, o), E, Names, e.timestamp)
<1> DEFINE outcome == LiquidationOutcome(e.protocol, DueOf(o, e), e.timestamp)
<1>1. outcome \in {LIQUIDATED, DEFAULTED} /\ outcome # ON_TIME
  BY DEF LiquidationOutcome, ON_TIME, LIQUIDATED, DEFAULTED
<1>2. IsOpen(o, E, t)
  BY DEF BInv, OneOpen
<1>3. Liquidated(st, e, o)
        = [open |-> st.open \ {o}, loans |-> Append(st.loans, Close(o, e, outcome))]
  BY DEF Liquidated, Closed
<1> HIDE DEF outcome
<1>4. BInv([open |-> st.open \ {o}, loans |-> Append(st.loans, Close(o, e, outcome))],
           E, Names, e.timestamp)
  BY <1>1, <1>2, OpenClosed
<1> QED BY <1>3, <1>4

LEMMA EventKeeps ==
  ASSUME NEW Names, NEW E, NEW t, Sound(E, Names, t), NEW e \in E, t <= e.timestamp,
         NEW st, BInv(st, E, Names, t)
  PROVE  BInv(OnEvent(st, e), E, Names, e.timestamp)
<1>1. CASE e.kind = "borrow"
  BY <1>1, BorrowKeeps DEF OnEvent
<1>2. CASE e.kind # "borrow" /\ Current(st, e) = {}
  <2>1. OnEvent(st, e) = st /\ e.timestamp \in Nat
    BY <1>2, EventFields DEF OnEvent, Sound
  <2> QED BY <2>1, StillOpen, StillBuilt DEF BInv
<1>3. CASE e.kind # "borrow" /\ Current(st, e) # {}
  <2> DEFINE o == CHOOSE x \in Current(st, e) : TRUE
  <2>1. o \in st.open /\ Key(o.first) = Key(e)
    BY <1>3 DEF Current
  <2>2. OnEvent(st, e) = IF e.kind = "repay" THEN Repaid(st, e, o) ELSE Liquidated(st, e, o)
    BY <1>3 DEF OnEvent
  <2> HIDE DEF o
  <2>3. CASE e.kind = "repay"
    BY <2>1, <2>2, <2>3, RepayKeeps
  <2>4. CASE e.kind # "repay"
    BY <1>3, <2>1, <2>2, <2>4, LiquidationKeeps
  <2> QED BY <2>3, <2>4
<1> QED BY <1>1, <1>2, <1>3

\* The loans built are borrow cycles of the events: each runs from a borrow to a
\* repay or liquidation of its position, with its peak in between, and of two
\* loans of one position the first is over when the second opens, whatever the
\* events and their order (buildLoans.ts).
THEOREM LoansInOrder ==
  ASSUME NEW Names, NEW n \in Nat, NEW events \in [1..n -> CreditEvents(Names)]
  PROVE  LET loans == Built(events)
         IN  /\ loans \in Seq(BuiltLoans(Names))
             /\ \A i \in 1..Len(loans) :
                  /\ loans[i].openedAt <= loans[i].peakAt /\ loans[i].peakAt <= loans[i].closedAt
                  /\ \E a, z \in 1..n : Spans(loans[i], events[a], events[z])
             /\ \A i, j \in 1..Len(loans) : i < j => Over(loans[i], loans[j])
<1> DEFINE sorted == ByTime(events)
           E == {events[i] : i \in 1..n}
<1>1. Timed(events, n)
  BY EventFields DEF Timed
<1>2. /\ DOMAIN sorted = 1..n
      /\ \A k \in 1..n : \E i \in 1..n : sorted[k] = events[i]
      /\ \A k, l \in 1..n : k < l => sorted[k].timestamp <= sorted[l].timestamp
  BY <1>1, ByTimeSorts
<1>3. E \subseteq CreditEvents(Names) /\ \A k \in 1..n : sorted[k] \in E
  BY <1>2
<1>4. \A k \in 1..n : sorted[k].timestamp \in Nat
  BY <1>3, EventFields
<1> HIDE DEF sorted, E
<1>5. PICK st : /\ st[0] = Nothing
                /\ \A k \in 0..(n - 1) : st[k + 1] = OnEvent(st[k], sorted[k + 1])
                /\ FoldLeft(OnEvent, Nothing, sorted) = st[n]
  BY <1>2, BuiltByEvent
<1>6. Built(events) = st[n].loans
  BY <1>5 DEF Built, Nothing, sorted
<1> DEFINE T(k) == IF k = 0 THEN 0 ELSE sorted[k].timestamp
           Good == {k \in Nat : k <= n => BInv(st[k], E, Names, T(k))}
<1>7. 0 \in Good
  <2>1. /\ <<>> \in Seq(BuiltLoans(Names)) /\ Len(<<>>) = 0 /\ 1..0 = {}
    OBVIOUS
  <2>2. BInv(Nothing, E, Names, 0)
    BY <2>1 DEF BInv, Nothing, OneOpen, LoansBuilt, OpenAfter
  <2> QED BY <1>5, <2>2
<1>8. ASSUME NEW k \in Nat, k \in Good PROVE k + 1 \in Good
  <2> SUFFICES ASSUME k + 1 <= n PROVE BInv(st[k + 1], E, Names, T(k + 1))
    OBVIOUS
  <2> DEFINE e == sorted[k + 1]
  <2>1. k \in 0..(n - 1) /\ k + 1 \in 1..n /\ k + 1 # 0 /\ k <= n
    OBVIOUS
  <2>2. BInv(st[k], E, Names, T(k)) /\ st[k + 1] = OnEvent(st[k], e) /\ T(k + 1) = e.timestamp
    BY <1>5, <1>8, <2>1
  <2>3. e \in E /\ T(k) \in Nat /\ T(k) <= e.timestamp
    <3>1. e \in E /\ e.timestamp \in Nat
      BY <1>3, <1>4, <2>1
    <3>2. CASE k = 0
      BY <3>1, <3>2
    <3>3. CASE k # 0
      <4>1. k \in 1..n /\ k < k + 1
        BY <2>1, <3>3
      <4> QED BY <1>2, <1>4, <2>1, <3>1, <3>3, <4>1
    <3> QED BY <3>2, <3>3
  <2> HIDE DEF T, e
  <2>4. Sound(E, Names, T(k))
    BY <1>3, <2>3 DEF Sound
  <2>5. BInv(OnEvent(st[k], e), E, Names, e.timestamp)
    BY <2>2, <2>3, <2>4, EventKeeps
  <2> QED BY <2>2, <2>5
<1>9. n \in Good
  <2> HIDE DEF Good
  <2> QED BY <1>7, <1>8, NaturalInduction
<1>10. LoansBuilt(Built(events), E, Names, T(n))
  BY <1>6, <1>9 DEF BInv
<1>11. \A i \in 1..Len(Built(events)) :
        LET l == Built(events)[i]
        IN  /\ l.openedAt <= l.peakAt /\ l.peakAt <= l.closedAt
            /\ \E a, z \in 1..n : Spans(l, events[a], events[z])
  BY <1>10 DEF LoansBuilt, IsLoan, E
<1> QED BY <1>10, <1>11 DEF LoansBuilt

-----------------------------------------------------------------------------
(* What a loan is priced at *)

\* Times no further apart than d see a price no further apart than d.
LEMMA GapMoves ==
  ASSUME NEW p, NEW d \in Nat, NEW s \in Nat, NEW t \in Nat,
         p.at \in Nat, s - t <= d, t - s <= d
  PROVE  Gap(p, s) \in Nat /\ Gap(p, s) <= Gap(p, t) + d
  BY DEF Gap

\* Birdeye answers with a price that none of its prices is nearer than.
LEMMA NearestQuote ==
  ASSUME NEW quotes, quotes \subseteq Nat, NEW at \in Nat, quotes # {}
  PROVE  LET b == BirdeyeSource(quotes, at)
         IN  /\ \E t \in quotes : b = [at |-> t, source |-> "birdeye"]
             /\ \A t \in quotes : Gap(b, at) <= Gap([at |-> t, source |-> "birdeye"], at)
<1> DEFINE points == {[at |-> t, source |-> "birdeye"] : t \in quotes}
           gaps == {Gap(p, at) : p \in points}
<1>1. \A p \in points : Gap(p, at) \in Nat
  BY DEF Gap
<1>2. gaps \subseteq Nat /\ gaps # {}
  BY <1>1
<1>3. Min(gaps) \in gaps /\ \A n \in gaps : Min(gaps) <= n
  BY <1>2, LeastNumber
<1>4. \E p \in points : \A q \in points : Gap(p, at) <= Gap(q, at)
  BY <1>3
<1>5. points # {} /\ BirdeyeSource(quotes, at)
                       = CHOOSE p \in points : \A q \in points : Gap(p, at) <= Gap(q, at)
  BY DEF BirdeyeSource
<1> QED BY <1>4, <1>5

\* Binance answers with a trade no earlier than asked for, and none between.
LEMMA FirstTrade ==
  ASSUME NEW trades, trades \subseteq Nat, NEW at \in Nat, NEW t \in trades, t >= at
  PROVE  LET b == BinanceTrade(trades, at)
         IN  /\ \E s \in trades : b = [at |-> s, source |-> "binance"]
             /\ b.at \in trades /\ at <= b.at /\ b.at <= t
<1> DEFINE later == {s \in trades : s >= at}
<1>1. later # {} /\ later \subseteq Nat
  OBVIOUS
<1>2. Min(later) \in later /\ Min(later) <= t
  BY <1>1, LeastNumber
<1>3. BinanceTrade(trades, at) = [at |-> Min(later), source |-> "binance"]
  BY <1>1 DEF BinanceTrade
<1> DEFINE first == Min(later)
<1>4. first \in trades /\ at <= first /\ first <= t
  BY <1>2
<1> HIDE DEF first
<1>5. BinanceTrade(trades, at) = [at |-> first, source |-> "binance"]
  BY <1>3 DEF first
<1> QED BY <1>4, <1>5

\* What priceAt answers is as near as either source, or of the day it trusts Binance.
LEMMA PriceIsAnswer ==
  ASSUME NEW market, NEW at, NEW q \in {LiveSources(market, at).binance, LiveSources(market, at).birdeye},
         q # NoPrice,
         \A a \in {LiveSources(market, at).binance, LiveSources(market, at).birdeye} :
            a # NoPrice => Gap(a, at) \in Nat
  PROVE  LET p == PriceAt(market, at)
         IN  /\ p # NoPrice
             /\ p \in {LiveSources(market, at).binance, LiveSources(market, at).birdeye}
             /\ Gap(p, at) <= MAX_BINANCE_GAP_SECS \/ Gap(p, at) <= Gap(q, at)
  BY PriceAssumption DEF PriceAt

\* Two times of one minute are less than a minute apart.
LEMMA SameMinute ==
  ASSUME NEW s \in Nat, NEW t \in Nat, s \div PRICE_CACHE_SECS = t \div PRICE_CACHE_SECS
  PROVE  s - t <= PRICE_CACHE_SECS - 1 /\ t - s <= PRICE_CACHE_SECS - 1
<1> DEFINE c == PRICE_CACHE_SECS
           m == s \div c
<1>1. c \in Nat \ {0}
  BY PriceAssumption
<1>2. m \in Nat /\ m * c <= s /\ s < m * c + c /\ m * c <= t /\ t < m * c + c
  BY <1>1
<1> HIDE DEF m, c
<1>3. m * c \in Nat
  BY <1>1, <1>2
<1> QED BY <1>1, <1>2, <1>3 DEF c

\* The lookup that a loan shares was made for a loan no later in the list, of its minute.
LEMMA SharedIsFirst ==
  ASSUME NEW loans, NEW i \in Nat \ {0}
  PROVE  \E j \in 1..i : /\ SharedPeak(loans, i) = loans[j].peakAt
                         /\ loans[j].peakAt \div PRICE_CACHE_SECS = loans[i].peakAt \div PRICE_CACHE_SECS
<1> DEFINE minute(j) == loans[j].peakAt \div PRICE_CACHE_SECS
           same == {j \in 1..i : minute(j) = minute(i)}
<1>1. same \subseteq Nat /\ i \in same
  OBVIOUS
<1>2. Min(same) \in same /\ \A n \in same : Min(same) <= n
  BY <1>1, LeastNumber
<1> DEFINE j == Min(same)
<1>3. \A k \in 1..(j - 1) : minute(k) # minute(i)
  <2> HIDE DEF j, minute
  <2> TAKE k \in 1..(j - 1)
  <2>1. j \in 1..i
    BY <1>2 DEF j
  <2>2. k \in 1..i /\ k < j
    BY <2>1
  <2>3. k \notin same
    BY <1>2, <2>1, <2>2 DEF j
  <2> QED BY <2>2, <2>3
<1>4. \E h \in 1..i : minute(h) = minute(i) /\ \A k \in 1..(h - 1) : minute(k) # minute(i)
  BY <1>2, <1>3
<1> QED BY <1>4 DEF SharedPeak

\* The price a loan gets is as near as any price Birdeye has, and as near as the
\* first Binance trade from its peak on unless an earlier loan of the list peaked
\* later in the same minute; and it gets none only if there is none (prices.ts).
THEOREM PricesAreNear ==
  ASSUME NEW market, market.trades \subseteq Nat, market.quotes \subseteq Nat,
         NEW loans, NEW i \in Nat \ {0}, \A j \in 1..i : loans[j].peakAt \in Nat
  PROVE  LET found == PriceOf(market, loans, i)
             answers == LiveSources(market, loans[i].peakAt)
             inOrder == \A j \in 1..i :
               loans[j].peakAt \div PRICE_CACHE_SECS = loans[i].peakAt \div PRICE_CACHE_SECS
                 => loans[j].peakAt <= loans[i].peakAt
             fine(q) == q = NoPrice \/ (found # NoPrice /\ AsNear(PricedLoan(loans[i], found), q))
         IN  fine(answers.birdeye) /\ (inOrder => fine(answers.binance))
<1> DEFINE found == PriceOf(market, loans, i)
           peak == loans[i].peakAt
           at == SharedPeak(loans, i)
           answers == LiveSources(market, peak)
           then == LiveSources(market, at)
           slack == PRICE_CACHE_SECS - 1
           inOrder == \A j \in 1..i :
             loans[j].peakAt \div PRICE_CACHE_SECS = peak \div PRICE_CACHE_SECS
               => loans[j].peakAt <= peak
           fine(q) == q = NoPrice \/ (found # NoPrice /\ AsNear(PricedLoan(loans[i], found), q))
<1>1. /\ at \in Nat /\ peak \in Nat /\ at \div PRICE_CACHE_SECS = peak \div PRICE_CACHE_SECS
      /\ inOrder => at <= peak
  <2>1. PICK j \in 1..i : /\ at = loans[j].peakAt
                          /\ loans[j].peakAt \div PRICE_CACHE_SECS = peak \div PRICE_CACHE_SECS
    BY SharedIsFirst
  <2>2. i \in 1..i /\ at \in Nat /\ peak \in Nat
    BY <2>1
  <2>3. at \div PRICE_CACHE_SECS = peak \div PRICE_CACHE_SECS
    BY <2>1
  <2>4. inOrder => at <= peak
    BY <2>1
  <2> QED BY <2>2, <2>3, <2>4
<1>2. slack \in Nat /\ at - peak <= slack /\ peak - at <= slack
  <2>1. slack \in Nat
    BY PriceAssumption
  <2>2. at \in Nat /\ peak \in Nat /\ at \div PRICE_CACHE_SECS = peak \div PRICE_CACHE_SECS
    BY <1>1
  <2> HIDE DEF at, peak
  <2>3. at - peak <= slack /\ peak - at <= slack
    BY <2>2, SameMinute
  <2> QED BY <2>1, <2>3
<1>3. found = PriceAt(market, at)
  BY DEF PriceOf
<1>4. \A q \in {then.binance, then.birdeye} :
        q # NoPrice => q.at \in Nat /\ Gap(q, at) \in Nat
  <2>1. then.birdeye # NoPrice => then.birdeye.at \in Nat
    <3> SUFFICES ASSUME then.birdeye # NoPrice PROVE then.birdeye.at \in Nat
      OBVIOUS
    <3>1. market.quotes # {}
      BY DEF LiveSources, BirdeyeSource
    <3>2. \E t \in market.quotes : then.birdeye = [at |-> t, source |-> "birdeye"]
      BY <1>1, <3>1, NearestQuote DEF LiveSources
    <3> QED BY <3>2
  <2>2. then.binance # NoPrice => then.binance.at \in Nat
    <3> SUFFICES ASSUME then.binance # NoPrice PROVE then.binance.at \in Nat
      OBVIOUS
    <3>1. then.binance = BinanceTrade(market.trades, at) /\ \E t \in market.trades : t >= at
      BY DEF LiveSources, BinanceTrade
    <3>2. then.binance.at \in market.trades
      BY <1>1, <3>1, FirstTrade
    <3> QED BY <3>2
  <2> QED BY <1>1, <2>1, <2>2 DEF Gap
<1>5. ASSUME NEW a \in {answers.binance, answers.birdeye}, a.at \in Nat,
             NEW q \in {then.binance, then.birdeye}, q # NoPrice,
             Gap(q, at) <= Gap(a, at)
      PROVE  fine(a)
  <2>1. /\ found # NoPrice /\ found \in {then.binance, then.birdeye}
        /\ Gap(found, at) <= MAX_BINANCE_GAP_SECS \/ Gap(found, at) <= Gap(q, at)
    BY <1>3, <1>4, <1>5, PriceIsAnswer
  <2>2. Gap(found, peak) \in Nat /\ Gap(found, peak) <= Gap(found, at) + slack
    BY <1>1, <1>2, <1>4, <2>1, GapMoves
  <2>3. /\ Gap(a, at) \in Nat /\ Gap(a, at) <= Gap(a, peak) + slack /\ Gap(a, peak) \in Nat
    BY <1>1, <1>2, <1>5, GapMoves DEF Gap
  <2>4. LET p == PricedLoan(loans[i], found)
        IN  p.loan = loans[i] /\ p.priceGapSecs = Gap(found, peak)
    BY DEF PricedLoan
  <2>5. Gap(found, at) \in Nat /\ Gap(q, at) \in Nat
    BY <1>4, <1>5, <2>1
  <2>6. AsNear(PricedLoan(loans[i], found), a)
    BY <1>2, <1>5, <2>1, <2>2, <2>3, <2>4, <2>5, PriceAssumption DEF AsNear
  <2> QED BY <2>1, <2>6
<1>6. fine(answers.birdeye)
  <2> SUFFICES ASSUME answers.birdeye # NoPrice PROVE fine(answers.birdeye)
    OBVIOUS
  <2>1. market.quotes # {}
    BY DEF LiveSources, BirdeyeSource
  <2>2. PICK t \in market.quotes : answers.birdeye = [at |-> t, source |-> "birdeye"]
    BY <1>1, <2>1, NearestQuote DEF LiveSources
  <2>3. /\ \E s \in market.quotes : then.birdeye = [at |-> s, source |-> "birdeye"]
        /\ Gap(then.birdeye, at) <= Gap(answers.birdeye, at)
    BY <1>1, <2>1, <2>2, NearestQuote DEF LiveSources
  <2>4. then.birdeye # NoPrice
    BY <2>3, PriceAssumption
  <2>5. answers.birdeye.at \in Nat
    BY <2>2
  <2> QED BY <1>5, <2>3, <2>4, <2>5
<1>7. ASSUME inOrder PROVE fine(answers.binance)
  <2> SUFFICES ASSUME answers.binance # NoPrice PROVE fine(answers.binance)
    OBVIOUS
  <2>1. at <= peak
    BY <1>1, <1>7
  <2>2. market.listed /\ answers.binance = BinanceTrade(market.trades, peak)
    BY DEF LiveSources
  <2>3. PICK s \in market.trades : s >= peak
    BY <2>2 DEF BinanceTrade
  <2>4. answers.binance.at \in market.trades /\ peak <= answers.binance.at
    BY <1>1, <2>2, <2>3, FirstTrade
  <2>5. then.binance = BinanceTrade(market.trades, at)
    BY <2>2 DEF LiveSources
  <2>6. answers.binance.at >= at
    BY <1>1, <2>1, <2>4
  <2> DEFINE first == BinanceTrade(market.trades, at)
             last == answers.binance.at
  <2>7. /\ \E r \in market.trades : first = [at |-> r, source |-> "binance"]
        /\ first.at \in market.trades /\ at <= first.at /\ first.at <= last
    <3>1. at \in Nat /\ last \in market.trades /\ last >= at
      BY <1>1, <2>4, <2>6
    <3> HIDE DEF at, last
    <3> QED BY <3>1, FirstTrade
  <2>8. then.binance # NoPrice
    <3>1. first # NoPrice
      BY <2>7, PriceAssumption
    <3> QED BY <2>5, <3>1
  <2>9. Gap(then.binance, at) <= Gap(answers.binance, at)
    BY <1>1, <2>4, <2>5, <2>6, <2>7 DEF Gap
  <2> QED BY <1>5, <2>4, <2>8, <2>9
<1> QED BY <1>6, <1>7

\* Of one position, whose loans follow each other, every loan is priced as near to
\* its peak as either source allows, whatever its history (prices.ts:1-5).
THEOREM PositionPriced ==
  ASSUME NEW Names, NEW n \in Nat, NEW events \in [1..n -> CreditEvents(Names)],
         \A i, j \in 1..n : Key(events[i]) = Key(events[j]),
         NEW market, market.trades \subseteq Nat, market.quotes \subseteq Nat,
         NEW i \in 1..Len(Built(events))
  PROVE  LET loans == Built(events)
             found == PriceOf(market, loans, i)
             answers == LiveSources(market, loans[i].peakAt)
         IN  \A q \in {answers.binance, answers.birdeye} :
               q = NoPrice \/ (found # NoPrice /\ AsNear(PricedLoan(loans[i], found), q))
<1> DEFINE loans == Built(events)
<1>1. /\ loans \in Seq(BuiltLoans(Names))
      /\ \A j \in 1..Len(loans) :
           /\ loans[j].openedAt <= loans[j].peakAt /\ loans[j].peakAt <= loans[j].closedAt
           /\ \E a, z \in 1..n : Spans(loans[j], events[a], events[z])
      /\ \A j, k \in 1..Len(loans) : j < k => Over(loans[j], loans[k])
  BY LoansInOrder
<1> HIDE DEF loans
<1>2. Len(loans) \in Nat /\ \A j \in 1..Len(loans) : loans[j] \in BuiltLoans(Names)
  BY <1>1
<1>3. i \in Nat \ {0} /\ i \in 1..Len(loans) /\ \A j \in 1..i : j \in 1..Len(loans)
  BY <1>2 DEF loans
<1>4. \A j \in 1..Len(loans) :
        loans[j].openedAt \in Nat /\ loans[j].peakAt \in Nat /\ loans[j].closedAt \in Nat
  BY <1>2, LoanFields
<1>5. \A j, k \in 1..Len(loans) : Key(loans[j]) = Key(loans[k])
  BY <1>1 DEF Spans
<1>6. ASSUME NEW j \in 1..i PROVE loans[j].peakAt <= loans[i].peakAt
  <2>1. j = i \/ j < i
    BY <1>3
  <2>2. j \in 1..Len(loans)
    BY <1>3
  <2>3. CASE j < i
    <3>1. loans[j].closedAt <= loans[i].openedAt
      BY <1>1, <1>3, <1>5, <2>2, <2>3 DEF Over
    <3>2. loans[j].peakAt <= loans[j].closedAt /\ loans[i].openedAt <= loans[i].peakAt
      BY <1>1, <1>3, <2>2
    <3>3. /\ loans[j].peakAt \in Nat /\ loans[j].closedAt \in Nat
          /\ loans[i].openedAt \in Nat /\ loans[i].peakAt \in Nat
      BY <1>3, <1>4, <2>2
    <3> QED BY <3>1, <3>2, <3>3
  <2> QED BY <1>3, <1>4, <2>1, <2>3
<1>7. \A j \in 1..i : loans[j].peakAt \in Nat
  BY <1>3, <1>4
<1> DEFINE found == PriceOf(market, loans, i)
           answers == LiveSources(market, loans[i].peakAt)
           fine(q) == q = NoPrice \/ (found # NoPrice /\ AsNear(PricedLoan(loans[i], found), q))
<1>8. fine(answers.birdeye) /\ fine(answers.binance)
  BY <1>3, <1>6, <1>7, PricesAreNear
<1> QED BY <1>8 DEF loans
=============================================================================

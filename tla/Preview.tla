------------------------------ MODULE Preview ------------------------------
(*****************************************************************************)
(* The read-only import preview (backend/src/history/preview.ts): a cache of *)
(* earlier answers, an in-memory lock that lets one history be read at a     *)
(* time, two limits counted over the rows of import_previews, and a worker   *)
(* thread that does the reading and may answer, fail, run out of memory or   *)
(* hang.  A step is what runs between two awaits.  A database call may fail  *)
(* with or without its effect, and the server may be restarted.              *)
(*****************************************************************************)
EXTENDS Integers, FiniteSetsExt

CONSTANTS
  Wallets, Ips,
  CALLS,             \* the number of HTTP calls, numbered as they arrive
  NoRow,
  HOUR, DAY,         \* in units of the model's clock
  CACHE_HOURS, PER_IP_PER_HOUR, PER_DAY,  \* the PreviewLimits
  Times,             \* clock values at which something may happen
  MAX_CALL           \* the longest a call may run, PREVIEW_TIMEOUT_MS included

ASSUME PreviewAssumption ==
  /\ HOUR \in Nat \ {0} /\ DAY \in Nat \ {0} /\ CACHE_HOURS \in Nat \ {0}
  /\ PER_IP_PER_HOUR \in Nat \ {0} /\ PER_DAY \in Nat \ {0}
  /\ CALLS \in Nat /\ Times \subseteq Nat /\ MAX_CALL \in Nat
  /\ NoRow \notin Nat

VARIABLES
  now,
  import_previews,  \* the rows: [id, wallet, requester_ip, status, created_at]
  nextId,           \* the table's BIGSERIAL
  held,             \* the PreviewLock
  calls             \* the HTTP calls: [phase, wallet, ip, now, row, worker, retryAt, storedAt]

vars == <<now, import_previews, nextId, held, calls>>

Calls == 1..CALLS
PREVIEW_KEEP_SECS == 2 * DAY

\* The rows are kept for longer than an answer is served from them, and than the
\* limits count them.
ASSUME KeepAssumption ==
  /\ CACHE_HOURS * HOUR + MAX_CALL <= PREVIEW_KEEP_SECS
  /\ HOUR <= DAY /\ MAX_CALL <= DAY

\* A call that ended is in the phase named for its answer: "failed" stands for the
\* statuses 422, 500, 502 and 504, and "lost" is no answer.
Answers == {"cached", "ok", "busy", "ip_limit", "day_limit", "failed", "lost"}
Locked == {"count_ip", "count_day", "clean", "reserve", "read", "store", "fail"}
Phases == Answers \cup Locked \cup {"idle", "lookup", "miss"}
Running(c) == calls[c].phase \notin Answers \cup {"idle"}

\* The first event of a worker that the API's thread has not handled yet.
Settling == {"message", "error"}

Goto(c, phase) == calls' = [calls EXCEPT ![c].phase = phase]
Ended(call, answer) == [call EXCEPT !.phase = answer, !.worker = "none"]
Answer(c, answer) == calls' = [calls EXCEPT ![c] = Ended(@, answer)]
\* The finally block of previewImport.
AnswerAndRelease(c, answer) == Answer(c, answer) /\ held' = FALSE

-----------------------------------------------------------------------------
(* previewImport *)

\* The clock is read once, here; every later comparison uses it.
Start(c, w, ip) ==
  /\ calls[c].phase = "idle" /\ \A d \in Calls : d < c => calls[d].phase # "idle"
  /\ calls' = [calls EXCEPT ![c] =
       [@ EXCEPT !.phase = "lookup", !.wallet = w, !.ip = ip, !.now = now]]
  /\ UNCHANGED <<now, import_previews, nextId, held>>

\* The query runs in the database; a miss is acted on in a later step.
Lookup(c) ==
  LET fresh == \E r \in import_previews :
        /\ r.wallet = calls[c].wallet /\ r.status = "done"
        /\ r.created_at > calls[c].now - CACHE_HOURS * HOUR
  IN  /\ calls[c].phase = "lookup"
      /\ IF fresh THEN Answer(c, "cached") ELSE Goto(c, "miss")
      /\ UNCHANGED <<now, import_previews, nextId, held>>

\* Mutant: the lock is taken whether it is free or not.
MissIgnoresLock(c) ==
  /\ calls[c].phase = "miss"
  /\ Goto(c, "count_ip") /\ held' = TRUE
  /\ UNCHANGED <<now, import_previews, nextId>>
Miss(c) ==
  /\ calls[c].phase = "miss"
  /\ \/ ~held /\ held' = TRUE /\ Goto(c, "count_ip")
     \/ held /\ Answer(c, "busy") /\ UNCHANGED held
  /\ UNCHANGED <<now, import_previews, nextId>>

-----------------------------------------------------------------------------
(* freshPreview, under the lock *)

RowsOf(ip) == {r \in import_previews : r.requester_ip = ip}
\* Mutant: only the reads that succeeded are counted.
DoneSince(rows, t) == {r \in rows : r.created_at > t /\ r.status = "done"}
Since(rows, t) == {r \in rows : r.created_at > t}
Oldest(rows) == Min({r.created_at : r \in rows})

\* Mutant: the caller is told to come back when its newest row leaves the window.
RefuseUntilNow(c, rows, window, limit, answer, next) ==
  LET counted == Since(rows, calls[c].now - window)
  IN  \/ /\ Cardinality(counted) >= limit
         /\ calls' = [calls EXCEPT ![c] =
              [Ended(@, answer) EXCEPT !.retryAt = Oldest(counted) + window - 1]]
         /\ held' = FALSE
      \/ /\ Cardinality(counted) < limit
         /\ Goto(c, next) /\ UNCHANGED held

\* countSince and the refusal that follows it.
RefuseOr(c, rows, window, limit, answer, next) ==
  LET counted == Since(rows, calls[c].now - window)
  IN  \/ /\ Cardinality(counted) >= limit
         /\ calls' = [calls EXCEPT ![c] =
              [Ended(@, answer) EXCEPT !.retryAt = Oldest(counted) + window]]
         /\ held' = FALSE
      \/ /\ Cardinality(counted) < limit
         /\ Goto(c, next) /\ UNCHANGED held

CountIp(c) ==
  /\ calls[c].phase = "count_ip"
  /\ RefuseOr(c, RowsOf(calls[c].ip), HOUR, PER_IP_PER_HOUR, "ip_limit", "count_day")
  /\ UNCHANGED <<now, import_previews, nextId>>

CountDay(c) ==
  /\ calls[c].phase = "count_day"
  /\ RefuseOr(c, import_previews, DAY, PER_DAY, "day_limit", "clean")
  /\ UNCHANGED <<now, import_previews, nextId>>

Clean(c) ==
  /\ calls[c].phase = "clean"
  /\ import_previews' =
       {r \in import_previews : r.created_at >= calls[c].now - PREVIEW_KEEP_SECS}
  /\ Goto(c, "reserve")
  /\ UNCHANGED <<now, nextId, held>>

NewRow(c) == [id |-> nextId, wallet |-> calls[c].wallet, requester_ip |-> calls[c].ip,
              status |-> "pending", created_at |-> calls[c].now]

\* The row is reserved before the history is read, and the worker started.
Reserve(c) ==
  /\ calls[c].phase = "reserve"
  /\ import_previews' = import_previews \cup {NewRow(c)} /\ nextId' = nextId + 1
  /\ calls' = [calls EXCEPT ![c].phase = "read", ![c].row = nextId, ![c].worker = "running"]
  /\ UNCHANGED <<now, held>>

\* A query before the read fails: the error is answered as it is.  An INSERT may
\* have been committed all the same.
QueryFails(c) ==
  \/ /\ calls[c].phase = "lookup"
     /\ Answer(c, "failed")
     /\ UNCHANGED <<now, import_previews, nextId, held>>
  \/ /\ calls[c].phase \in {"count_ip", "count_day", "clean", "reserve"}
     /\ \/ UNCHANGED <<import_previews, nextId>>
        \/ /\ calls[c].phase = "reserve"
           /\ import_previews' = import_previews \cup {NewRow(c)} /\ nextId' = nextId + 1
     /\ AnswerAndRelease(c, "failed")
     /\ UNCHANGED now

-----------------------------------------------------------------------------
(* runWorker *)

\* What the worker's thread may do: post the preview; throw, outgrow its heap or
\* exit without an answer; or nothing at all.
WorkerStep(c) ==
  /\ calls[c].worker = "running"
  /\ \E e \in Settling : calls' = [calls EXCEPT ![c].worker = e]
  /\ UNCHANGED <<now, import_previews, nextId, held>>

\* The first of the worker's events and the timer settles the promise; finish()
\* clears the timer and terminates the worker.
Settle(c, phase) == calls' = [calls EXCEPT ![c].phase = phase, ![c].worker = "none"]

WorkerSettles(c) ==
  /\ calls[c].phase = "read" /\ calls[c].worker \in Settling
  /\ Settle(c, IF calls[c].worker = "message" THEN "store" ELSE "fail")
  /\ UNCHANGED <<now, import_previews, nextId, held>>

\* Mutant: no timer is set.
NoTimer(c) == FALSE /\ UNCHANGED vars
Timer(c) ==
  /\ calls[c].phase = "read"
  /\ Settle(c, "fail")
  /\ UNCHANGED <<now, import_previews, nextId, held>>

-----------------------------------------------------------------------------
(* The end of freshPreview *)

WithStatus(id, status) ==
  {IF r.id = id THEN [r EXCEPT !.status = status] ELSE r : r \in import_previews}

\* Mutant: the preview is answered and never stored.
StoreNothing(c) ==
  /\ calls[c].phase = "store"
  /\ calls' = [calls EXCEPT ![c] = [Ended(@, "ok") EXCEPT !.storedAt = now]]
  /\ held' = FALSE
  /\ UNCHANGED <<now, import_previews, nextId>>
\* The catch block also runs when storing the preview failed.
Store(c) ==
  /\ calls[c].phase = "store"
  /\ \/ /\ import_previews' = WithStatus(calls[c].row, "done")
        /\ calls' = [calls EXCEPT ![c] = [Ended(@, "ok") EXCEPT !.storedAt = now]]
        /\ held' = FALSE
     \/ /\ import_previews' \in {import_previews, WithStatus(calls[c].row, "done")}
        /\ Goto(c, "fail") /\ UNCHANGED held
  /\ UNCHANGED <<now, nextId>>

\* The UPDATE in the catch block may fail in its turn.
MarkFailed(c) ==
  /\ calls[c].phase = "fail"
  /\ import_previews' \in {import_previews, WithStatus(calls[c].row, "failed")}
  /\ AnswerAndRelease(c, "failed")
  /\ UNCHANGED <<now, nextId>>

-----------------------------------------------------------------------------
(* The server's host and the clock *)

\* The lock, the workers and the calls are lost; the rows stay as they are.
Restart ==
  /\ \E c \in Calls : Running(c)
  /\ held' = FALSE
  /\ calls' = [c \in Calls |-> IF Running(c) THEN Ended(calls[c], "lost")
                               ELSE calls[c]]
  /\ UNCHANGED <<now, import_previews, nextId>>

Tick ==
  /\ now' \in {t \in Times : t > now}
  /\ \A c \in Calls : Running(c) => now' - calls[c].now <= MAX_CALL
  /\ UNCHANGED <<import_previews, nextId, held, calls>>

Init ==
  /\ now \in Times
  /\ import_previews = {} /\ nextId = 0
  /\ held = FALSE
  /\ calls = [c \in Calls |->
       [phase |-> "idle", wallet |-> CHOOSE w \in Wallets : TRUE,
        ip |-> CHOOSE ip \in Ips : TRUE, now |-> 0, row |-> NoRow,
        worker |-> "none", retryAt |-> 0, storedAt |-> 0]]

\* What the API's own thread and the database do for a call that was started.
Serve(c) ==
  \/ Lookup(c) \/ Miss(c)
  \/ CountIp(c) \/ CountDay(c) \/ Clean(c) \/ Reserve(c) \/ QueryFails(c)
  \/ WorkerSettles(c) \/ Timer(c) \/ Store(c) \/ MarkFailed(c)

Next ==
  \/ \E c \in Calls : Serve(c) \/ WorkerStep(c)
  \/ \E c \in Calls, w \in Wallets, ip \in Ips : Start(c, w, ip)
  \/ Restart \/ Tick

Spec == Init /\ [][Next]_vars

\* Every query is answered or fails and every timer fires in the end; a worker
\* owes nothing.
FairSpec == Spec /\ \A c \in Calls : WF_vars(Serve(c))

-----------------------------------------------------------------------------
(* Properties *)

HasLock(c) == calls[c].phase \in Locked

\* The lock is held exactly while one call is between taking it and answering,
\* whichever way that call ends (preview.ts:66): two histories are never read at
\* once, and no failure or restart leaves the lock held for ever.
OneReadAtATime ==
  /\ \A c, d \in Calls : HasLock(c) /\ HasLock(d) => c = d
  /\ held = \E c \in Calls : HasLock(c)

\* However reads end, and however the server is restarted between counting and
\* reserving, no window of an hour holds more than the limit's reads of an IP, and
\* no window of a day more than the daily limit (preview.ts:2): stated over the
\* reads that were started, not over the rows the code counts.
Reads(from, window) ==
  {c \in Calls : calls[c].row # NoRow /\ calls[c].now > from /\ calls[c].now <= from + window}
WithinLimits ==
  \A c \in Calls :
    LET from == calls[c].now - 1
    IN  /\ Cardinality({d \in Reads(from, HOUR) : calls[d].ip = calls[c].ip})
             <= PER_IP_PER_HOUR
        /\ Cardinality(Reads(from, DAY)) <= PER_DAY

\* Once a read of a wallet was answered, a call made later within the cache hours
\* of that read never reads the wallet again (preview.ts:158), though other reads,
\* cleanings and restarts may come between.
AnsweredIsCached ==
  \A c, d \in Calls :
    /\ calls[c].phase = "ok" /\ calls[c].wallet = calls[d].wallet
    /\ calls[d].now > calls[c].storedAt
    /\ calls[d].now - calls[c].now < CACHE_HOURS * HOUR
    => calls[d].row = NoRow

\* A caller refused by a limit that comes back at retryAt is refused again by that
\* limit only for reads of calls that began after its own (preview.ts:146): of the
\* rows no later than its call, fewer than the limit are still counted at retryAt.
StillCounted(rows, c, window) ==
  {r \in Since(rows, calls'[c].retryAt - window) : r.created_at <= calls[c].now}
RetryAtIsEnough ==
  [][\A c \in Calls :
       /\ calls[c].phase = "count_ip" /\ calls'[c].phase = "ip_limit"
            => Cardinality(StillCounted(RowsOf(calls[c].ip), c, HOUR)) < PER_IP_PER_HOUR
       /\ calls[c].phase = "count_day" /\ calls'[c].phase = "day_limit"
            => Cardinality(StillCounted(import_previews, c, DAY)) < PER_DAY]_vars

\* Every call ends, whatever its worker does, as does the lock's hold with it
\* (runWorker.ts:31): the timer settles a read that never answers.
EveryCallAnswered == \A c \in Calls : Running(c) ~> ~Running(c)
=============================================================================

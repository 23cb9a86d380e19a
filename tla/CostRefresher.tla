--------------------------- MODULE CostRefresher ---------------------------
(***************************************************************************)
(* The background scraper of cost-plugin data (CacheRefresher) and the     *)
(* cache table it fills (CostPluginCache), next to the endpoints that      *)
(* change a provider's credentials, clear the cache or ask for a refresh,  *)
(* database errors and restarts.                                           *)
(*                                                                         *)
(* A key is a (provider, kind) pair that the provider's plugin supports;   *)
(* the keys here are those of one provider.  Deadlines are kept as the     *)
(* time that is left, the age of an entry saturates at its TTL, and        *)
(* `account' is the version of the credentials an entry was scraped with.  *)
(* Jitter and the _refresh_all flag, which nothing sets, are left out.     *)
(***************************************************************************)
EXTENDS Integers

CONSTANTS
  Keys, NoKey,
  TTL,           \* ttl_minutes: entries this old are stale
  Throttle,      \* throttle_seconds: least time between two scrapes of a key
  BackoffBase, BackoffCap,
  FailureCap,    \* bound: consecutive failures saturate here
  MaxCalls,      \* bound: calls of the endpoints in one behaviour
  MaxFaults      \* bound: database errors and restarts in one behaviour

ASSUME RefresherAssumption ==
  /\ NoKey \notin Keys
  /\ TTL \in Nat \ {0} /\ Throttle \in Nat
  /\ BackoffBase \in Nat /\ BackoffCap \in Nat
  /\ FailureCap \in Nat \ {0}
  /\ MaxCalls \in Nat /\ MaxFaults \in Nat

NoGate == -1

VARIABLES
  entry,     \* the cost_plugin_cache row of each key
  cred,      \* the version of the credentials that are stored
  pending, quiet, failures, gate, throttle,   \* CacheRefresher's tables
  wake,      \* the event its thread waits for
  pc,        \* what the thread is about to do
  todo,      \* the keys this pass has not come to
  taken,     \* the requests this pass has taken
  late, hot, \* keys held back by backoff or throttle when the pass began
  lag,       \* the time since the pass began
  scraping,  \* the key being scraped
  using,     \* the credentials it is scraped with
  admin,     \* what the endpoint's thread is about to do
  asked,     \* a request came after the last one was taken (of the model)
  owed,      \* keys requested and not scraped since (of the model)
  calls, faults

tables == <<pending, quiet, failures, gate, throttle>>
pass == <<todo, taken, late, hot, lag, scraping, using>>
history == <<asked, owed>>
vars == <<entry, cred, tables, wake, pc, pass, admin, history, calls, faults>>

PCs == {"start", "scan", "scrape", "mark", "remark", "wait", "clear"}

Entries == [payload : {"none", "data", "error"}, account : 0..MaxCalls,
            marked : BOOLEAN, age : 0..TTL]

Unscraped == [payload |-> "none", account |-> 0, marked |-> FALSE, age |-> 0]

Delays == {NoGate} \union 0..BackoffCap \union 0..TTL

TypeOK ==
  /\ entry \in [Keys -> Entries]
  /\ cred \in 0..MaxCalls
  /\ pending \subseteq Keys /\ quiet \subseteq Keys
  /\ failures \in [Keys -> 0..FailureCap]
  /\ gate \in [Keys -> Delays]
  /\ throttle \in [Keys -> 0..Throttle]
  /\ wake \in BOOLEAN
  /\ pc \in PCs
  /\ todo \subseteq Keys /\ taken \subseteq Keys
  /\ late \subseteq Keys /\ hot \subseteq Keys
  /\ lag \in 0..Throttle
  /\ scraping \in Keys \union {NoKey}
  /\ pc \in {"scrape", "mark", "remark"} => scraping \in Keys
  /\ using \in 0..MaxCalls
  /\ admin \in {"idle", "invalidate", "enqueue", "ring"}
  /\ asked \in BOOLEAN
  /\ owed \subseteq Keys
  /\ calls \in 0..MaxCalls /\ cred <= calls
  /\ faults \in 0..MaxFaults

NoEntries == [k \in Keys |-> Unscraped]

Zero == [k \in Keys |-> 0]

NoGates == [k \in Keys |-> NoGate]

Init ==
  /\ entry = NoEntries /\ cred = 0
  /\ pending = {} /\ quiet = {}
  /\ failures = Zero /\ gate = NoGates /\ throttle = Zero
  /\ wake = FALSE /\ pc = "start"
  /\ todo = {} /\ taken = {} /\ late = {} /\ hot = {} /\ lag = 0
  /\ scraping = NoKey /\ using = 0
  /\ admin = "idle"
  /\ asked = FALSE /\ owed = {}
  /\ calls = 0 /\ faults = 0

-----------------------------------------------------------------------------
\* _run: wait for the event or the tick, clear the event, pass.
WakeUp ==
  /\ pc = "wait"
  /\ pc' = "clear"
  /\ UNCHANGED <<entry, cred, tables, wake, pass, admin, history, calls, faults>>

ClearWake ==
  /\ pc = "clear"
  /\ wake' = FALSE
  /\ pc' = "start"
  /\ UNCHANGED <<entry, cred, tables, pass, admin, history, calls, faults>>

\* The pass takes the requests, and the time it compares deadlines with.
TakePending ==
  /\ pc = "start"
  /\ taken' = pending /\ pending' = {} /\ asked' = FALSE
  /\ todo' = Keys
  /\ late' = {k \in Keys : gate[k] > 0}
  /\ hot' = {k \in Keys : throttle[k] > 0}
  /\ lag' = 0
  /\ pc' = "scan"
  /\ UNCHANGED <<entry, cred, quiet, failures, gate, throttle, wake, scraping, using,
                 admin, owed, calls, faults>>

\* Mutant: an entry that exists is never stale.
NeverAges(k) == entry[k].payload = "none"

Stale(k) == entry[k].payload = "none" \/ entry[k].age = TTL

Wanted(k) == k \in taken \/ (k \notin quiet /\ Stale(k))

\* Mutant: a backoff never ends by itself.
ClosedForGood(k) == gate[k] # NoGate

\* The backoff gate, unless a request has removed it since the pass began.
Closed(k) == k \in late /\ gate[k] # NoGate

Scan(k) == pc = "scan" /\ k \in todo /\ todo' = todo \ {k}

Skip(k) ==
  /\ Scan(k)
  /\ ~Wanted(k)
  /\ UNCHANGED <<entry, cred, tables, wake, pc, taken, late, hot, lag, scraping, using,
                 admin, history, calls, faults>>

\* Throttled keys are put back, as requests.
PutBack(k) ==
  /\ Scan(k)
  /\ Wanted(k) /\ k \in hot
  /\ pending' = pending \union {k}
  /\ UNCHANGED <<entry, cred, quiet, failures, gate, throttle, wake, pc, taken, late, hot,
                 lag, scraping, using, admin, history, calls, faults>>

\* Keys in backoff are passed over, whether or not they were requested.
HoldBack(k) ==
  /\ Scan(k)
  /\ Wanted(k) /\ k \notin hot /\ Closed(k)
  /\ UNCHANGED <<entry, cred, tables, wake, pc, taken, late, hot, lag, scraping, using,
                 admin, history, calls, faults>>

\* Mutant: the time the pass has lasted is added to the throttle.
BeginScrapeSlower(k) ==
  /\ Scan(k)
  /\ Wanted(k) /\ k \notin hot /\ ~Closed(k)
  /\ throttle' = [throttle EXCEPT ![k] = Throttle + lag]
  /\ scraping' = k /\ using' = cred
  /\ owed' = owed \ {k}
  /\ pc' = "scrape"
  /\ UNCHANGED <<entry, cred, pending, quiet, failures, gate, wake, taken, late, hot, lag,
                 admin, asked, calls, faults>>

\* _last_attempt is set to the time the pass began.
BeginScrape(k) ==
  /\ Scan(k)
  /\ Wanted(k) /\ k \notin hot /\ ~Closed(k)
  /\ throttle' = [throttle EXCEPT ![k] = Throttle - lag]
  /\ scraping' = k /\ using' = cred
  /\ owed' = owed \ {k}
  /\ pc' = "scrape"
  /\ UNCHANGED <<entry, cred, pending, quiet, failures, gate, wake, taken, late, hot, lag,
                 admin, asked, calls, faults>>

\* Mutant: the event is cleared before the thread waits, not after.
EndPassClearing ==
  /\ pc = "scan" /\ todo = {}
  /\ pc' = "wait"
  /\ wake' = FALSE
  /\ taken' = {} /\ late' = {} /\ hot' = {} /\ lag' = 0
  /\ UNCHANGED <<entry, cred, tables, todo, scraping, using, admin, history,
                 calls, faults>>

EndPass ==
  /\ pc = "scan" /\ todo = {}
  /\ pc' = "wait"
  /\ taken' = {} /\ late' = {} /\ hot' = {} /\ lag' = 0
  /\ UNCHANGED <<entry, cred, tables, wake, todo, scraping, using, admin, history,
                 calls, faults>>

-----------------------------------------------------------------------------
Fault == faults < MaxFaults /\ faults' = faults + 1

\* The scrape is over and the pass goes on.
Resume ==
  /\ pc' = "scan" /\ scraping' = NoKey /\ using' = 0
  /\ UNCHANGED <<todo, taken, late, hot, lag>>

Succeed ==
  /\ pc = "scrape"
  /\ entry' = [entry EXCEPT
       ![scraping] = [payload |-> "data", account |-> using, marked |-> FALSE, age |-> 0]]
  /\ failures' = [failures EXCEPT ![scraping] = 0]
  /\ gate' = [gate EXCEPT ![scraping] = NoGate]
  /\ Resume
  /\ UNCHANGED <<cred, pending, quiet, throttle, wake, admin, asked, owed, calls, faults>>

\* No data, and there never was any: the key is not tried again until asked for.
FindNothing ==
  /\ pc = "scrape"
  /\ entry[scraping].payload = "none"
  /\ quiet' = quiet \union {scraping}
  /\ Resume
  /\ UNCHANGED <<entry, cred, pending, failures, gate, throttle, wake, admin, asked, owed,
                 calls, faults>>

Backoff(n) ==
  LET d == BackoffBase * 2^(n - 1) IN IF d \in 0..BackoffCap THEN d ELSE BackoffCap

\* _record_failure up to the release of the lock.
RecordFailure(transient) ==
  LET n == IF failures[scraping] < FailureCap THEN failures[scraping] + 1 ELSE FailureCap
  IN  /\ failures' = [failures EXCEPT ![scraping] = n]
      /\ gate' = [gate EXCEPT ![scraping] = IF transient THEN Backoff(n) ELSE TTL]
      /\ UNCHANGED <<pending, quiet, throttle, asked, owed>>

\* The plugin raised, returned an error, or no longer returns what it did.
Fail(transient) ==
  /\ pc = "scrape"
  /\ RecordFailure(transient)
  /\ pc' = "mark"
  /\ UNCHANGED <<entry, cred, wake, pass, admin, calls, faults>>

\* Mutant: the error is stored over whatever is there.
MarkEntryOver ==
  /\ pc \in {"mark", "remark"}
  /\ entry' = [entry EXCEPT ![scraping] =
       [payload |-> "error", account |-> using, marked |-> TRUE, age |-> 0]]
  /\ Resume
  /\ UNCHANGED <<cred, tables, wake, admin, history, calls, faults>>

\* _record_failure, the rest: keep the payload and mark it, or record the error.
MarkEntry ==
  /\ pc \in {"mark", "remark"}
  /\ entry' = [entry EXCEPT ![scraping] =
       IF @.payload = "none"
       THEN [payload |-> "error", account |-> using, marked |-> TRUE, age |-> 0]
       ELSE [payload |-> @.payload, account |-> @.account, marked |-> TRUE, age |-> @.age]]
  /\ Resume
  /\ UNCHANGED <<cred, tables, wake, admin, history, calls, faults>>

\* The database failed inside _scrape: one more failure is recorded.
ScrapeCrashes ==
  /\ pc \in {"scrape", "mark"}
  /\ Fault
  /\ RecordFailure(TRUE)
  /\ pc' = "remark"
  /\ UNCHANGED <<entry, cred, wake, pass, admin, calls>>

\* It failed outside _scrape's guard: the pass ends and what it took is dropped.
PassCrashes ==
  /\ pc \in {"scan", "remark"}
  /\ Fault
  /\ pc' = "wait"
  /\ todo' = {} /\ taken' = {} /\ late' = {} /\ hot' = {} /\ lag' = 0
  /\ scraping' = NoKey /\ using' = 0
  /\ UNCHANGED <<entry, cred, tables, wake, admin, history, calls>>

-----------------------------------------------------------------------------
Edit == admin = "idle" /\ calls < MaxCalls /\ calls' = calls + 1

\* POST .../cookie and .../workspace-id: store, invalidate, request_refresh.
SetCredentials ==
  /\ Edit
  /\ cred' = cred + 1
  /\ admin' = "invalidate"
  /\ UNCHANGED <<entry, tables, wake, pc, pass, history, faults>>

Invalidate ==
  /\ admin = "invalidate"
  /\ entry' = NoEntries
  /\ admin' = "enqueue"
  /\ UNCHANGED <<cred, tables, wake, pc, pass, history, calls, faults>>

\* POST /api/settings/cache/clear
ClearCache ==
  /\ Edit
  /\ entry' = NoEntries
  /\ admin' = "enqueue"
  /\ UNCHANGED <<cred, tables, wake, pc, pass, history, faults>>

\* POST /api/settings/cache/refresh, and a change of the TTL.
RefreshNow ==
  /\ Edit
  /\ admin' = "enqueue"
  /\ UNCHANGED <<entry, cred, tables, wake, pc, pass, history, faults>>

\* request_refresh: the locked part, then the event.
Enqueue ==
  /\ admin = "enqueue"
  /\ pending' = Keys
  /\ gate' = NoGates /\ failures' = Zero
  /\ quiet' = {}
  /\ asked' = TRUE /\ owed' = Keys
  /\ admin' = "ring"
  /\ UNCHANGED <<entry, cred, throttle, wake, pc, pass, calls, faults>>

Ring ==
  /\ admin = "ring"
  /\ wake' = TRUE
  /\ admin' = "idle"
  /\ UNCHANGED <<entry, cred, tables, pc, pass, history, calls, faults>>

-----------------------------------------------------------------------------
Older(e) ==
  [payload |-> e.payload, account |-> e.account, marked |-> e.marked,
   age |-> IF e.payload # "none" /\ e.age < TTL THEN e.age + 1 ELSE e.age]

Less(f) == [k \in Keys |-> IF f[k] > 0 THEN f[k] - 1 ELSE f[k]]

Tick ==
  /\ entry' = [k \in Keys |-> Older(entry[k])]
  /\ gate' = Less(gate)
  /\ throttle' = Less(throttle)
  /\ lag' = IF pc \in {"scan", "scrape", "mark", "remark"} /\ lag < Throttle THEN lag + 1 ELSE lag
  /\ UNCHANGED <<cred, pending, quiet, failures, wake, pc, todo, taken, late, hot, scraping,
                 using, admin, history, calls, faults>>

\* The process ends and boots again: the table and the credentials are on disk.
Restart ==
  /\ Fault
  /\ pending' = {} /\ quiet' = {}
  /\ failures' = Zero /\ gate' = NoGates /\ throttle' = Zero
  /\ wake' = FALSE /\ pc' = "start"
  /\ todo' = {} /\ taken' = {} /\ late' = {} /\ hot' = {} /\ lag' = 0
  /\ scraping' = NoKey /\ using' = 0
  /\ admin' = "idle"
  /\ asked' = FALSE /\ owed' = {}
  /\ UNCHANGED <<entry, cred, calls>>

Refresh ==
  \/ WakeUp \/ ClearWake \/ TakePending \/ EndPass
  \/ \E k \in Keys : Skip(k) \/ PutBack(k) \/ HoldBack(k) \/ BeginScrape(k)
  \/ Succeed \/ FindNothing \/ Fail(TRUE) \/ Fail(FALSE) \/ MarkEntry
  \/ ScrapeCrashes \/ PassCrashes

Administer == Invalidate \/ Enqueue \/ Ring

Next ==
  \/ Refresh \/ Administer
  \/ SetCredentials \/ ClearCache \/ RefreshNow
  \/ Tick \/ Restart

\* The refresher's thread and the endpoint's are scheduled, scrapes end, and
\* time passes.
Spec ==
  /\ Init /\ [][Next]_vars
  /\ WF_vars(Refresh) /\ WF_vars(Administer) /\ WF_vars(Tick)

-----------------------------------------------------------------------------
(* _scrape and _record_failure keep serving the last good payload: no step   *)
(* of the refresher removes one or replaces it by an error, whatever the     *)
(* endpoints do meanwhile.                                                   *)
KeepsData ==
  \A k \in Keys :
    Refresh /\ entry[k].payload = "data" => entry'[k].payload = "data"

GoodPayloadKept == [][KeepsData]_vars

(* No wakeup is lost between request_refresh and _run: while a request has   *)
(* not been taken, the thread does not sleep without its event being set.    *)
AskedIsWoken == asked /\ pc = "wait" /\ admin # "ring" => wake

StaleRetried ==
  \A k \in Keys :
    Stale(k) /\ k \notin quiet ~> scraping = k \/ ~Stale(k) \/ k \in quiet

OldAccountGone ==
  <>[](\A k \in Keys :
         entry[k].payload = "data" /\ entry[k].account # cred => entry[k].marked)

(* Refreshes come through: an entry that is stale is scraped sooner or       *)
(* later, unless it is known to have no data, however many scrapes failed    *)
(* before; and a change of credentials takes effect, so that data scraped    *)
(* with other credentials than the stored ones is in the end replaced, or    *)
(* marked as stale, even if it was written after the change invalidated the  *)
(* cache.                                                                    *)
RefreshesComeThrough == StaleRetried /\ OldAccountGone

-----------------------------------------------------------------------------
(* request_refresh's docstring: a credential change or a manual "Refresh     *)
(* now" is honored on the next pass.  A key that was requested and not       *)
(* scraped since is still among the requests.                                *)
RequestsRemembered ==
  faults = 0 => \A k \in owed : k \in pending \/ (k \in taken /\ k \in todo)
=============================================================================

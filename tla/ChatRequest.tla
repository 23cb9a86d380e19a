----------------------------- MODULE ChatRequest -----------------------------
(***************************************************************************)
(* One POST /{profile}/chat/completions as LCPHandler._serve_chat_         *)
(* completions runs it, on several server threads at once: the prompt      *)
(* cache before and after the upstream call, the in-flight registry around *)
(* it, the relay of a stream, the cost row and the reply.                  *)
(*                                                                         *)
(* PromptCache has no lock, so its methods are cut where another thread    *)
(* can get in between a read of the table and the write that relies on it. *)
(* The in-flight registry has a lock and its operations are single steps.  *)
(* The provider chain itself is module RequestChain; here it is one step   *)
(* that says which model answered, or that none did.  One profile is       *)
(* modelled: the profile is part of every cache key.                       *)
(***************************************************************************)
EXTENDS Integers, FiniteSets, Sequences, Functions

CONSTANTS
  ChatThreads,      \* handler threads of the ThreadingHTTPServer
  Bodies,       \* request bodies (messages, tools and max_tokens)
  Normal,       \* what try_chain makes of the body before it is sent
  Models,       \* the models of the profile's chain
  MaxEntries,   \* PromptCache max_entries
  Ttl,          \* PromptCache ttl_seconds
  MaxAge,       \* inflight MAX_AGE_S
  MaxChunks,    \* bound: chunks of one stream
  MaxRequests,  \* bound: requests begun
  MaxClock,     \* bound: clock
  None

ASSUME ChatAssumption ==
  /\ Normal \in [Bodies -> Bodies]
  /\ \A b \in Bodies : Normal[Normal[b]] = Normal[b]
  /\ MaxEntries \in Nat \ {0} /\ Ttl \in Nat /\ MaxAge \in Nat /\ MaxChunks \in Nat
  /\ MaxRequests \in Nat /\ MaxClock \in Nat
  /\ None \notin Models /\ None \notin Bodies

VARIABLES
  primary,    \* model of the first step of the profile's chain
  cache,      \* PromptCache._cache: key -> expiry and response
  inflight,   \* inflight._ENTRIES: the thread of the request -> started_at
  req,        \* the request each thread is handling, or has handled last
  clock,
  begun,      \* requests begun so far
  overlaps    \* history: insertions made while another thread was inside set()

chatVars == <<primary, cache, inflight, req, clock, begun, overlaps>>

Key == Models \X Bodies
Answer == [model : Models, body : Bodies]
Entry == [expires : Nat, answer : Answer]
Statuses == {"200", "4xx", "500", "502", "504"}

\* Where a request is in the handler; "set..." are the parts of PromptCache.set.
Places == {"idle", "lookup", "check", "register", "upstream", "header", "relay",
           "set", "setScan", "setEvict", "setInsert", "account", "reply",
           "failed", "done"}

\* What may go wrong on the way: the database refuses a row; set() or get()
\* loses a race; a stream's read times out, or the stream breaks with another
\* error; the answer's usage, or its words, are not what they are read as.
Troubles == {"database", "race", "cut", "broken", "usage", "words"}

Request ==
  [at : Places, body : Bodies \cup {None}, stream : BOOLEAN,
   key : Key \cup {None},            \* the cache key of the operation in hand
   seen : Entry \cup {None},         \* the entry get() read
   scanned : SUBSET Key,             \* the keys when min() started
   victim : Key \cup {None},         \* the key min() returned
   answer : Answer \cup {None},      \* what the upstream, or the cache, gave
   hit : BOOLEAN, chunks : Nat,
   sent : Seq(Statuses),             \* status lines written to the client
   rows : Nat,                       \* rows of the requests table
   trouble : SUBSET Troubles]

Blank(b, s) ==
  [at |-> "lookup", body |-> b, stream |-> s, key |-> None, seen |-> None,
   scanned |-> {}, victim |-> None, answer |-> None, hit |-> FALSE, chunks |-> 0,
   sent |-> <<>>, rows |-> 0, trouble |-> {}]

ChatInit ==
  /\ primary \in Models
  /\ cache = [k \in {} |-> None]
  /\ inflight = [t \in {} |-> 0]
  /\ req = [t \in ChatThreads |-> [Blank(None, FALSE) EXCEPT !.at = "idle"]]
  /\ clock = 0 /\ begun = 0 /\ overlaps = 0

-----------------------------------------------------------------------------
(* Steps of a request.                                                     *)

Continue(t, r) == req' = [req EXCEPT ![t] = r]

\* Mutant: the registry is left on the way out of the try block only, not in a finally.
FinishOnSuccess(t, r) ==
  /\ Continue(t, [r EXCEPT !.at = "done"])
  /\ inflight' = IF r.sent = <<"200">> THEN Restrict(inflight, DOMAIN inflight \ {t})
                 ELSE inflight

\* The finally clause: the request leaves the registry on every exit path.  Of a
\* finished request only what the properties read is kept.
FinishRequest(t, r) ==
  /\ Continue(t, [r EXCEPT !.at = "done", !.chunks = 0, !.seen = None, !.scanned = {},
                            !.victim = None, !.key = IF r.hit THEN @ ELSE None,
                            !.body = IF r.hit THEN @ ELSE None])
  /\ inflight' = Restrict(inflight, DOMAIN inflight \ {t})

Send(r, s) == [r EXCEPT !.sent = Append(@, s)]

\* The last clause of the try block: any other error is logged and gets a 500.
FailRequest(t, r, why) == FinishRequest(t, [Send(r, "500") EXCEPT !.trouble = @ \cup {why}])

\* Another request gets past routing, authentication and the budget checks;
\* the model of the first step is read now.  A streamed request skips the cache.
Begin(t, b, s) ==
  /\ req[t].at \in {"idle", "done"} /\ begun < MaxRequests
  /\ begun' = begun + 1
  /\ Continue(t, IF s THEN [Blank(b, s) EXCEPT !.at = "register"]
                      ELSE [Blank(b, s) EXCEPT !.key = <<primary, b>>])
  /\ UNCHANGED <<primary, cache, inflight, clock, overlaps>>

\* Unknown route or profile, bad JSON, refused key, exceeded budget, no messages.
RefuseRequest(t) ==
  /\ req[t].at \in {"idle", "done"} /\ begun < MaxRequests
  /\ begun' = begun + 1
  /\ Continue(t, [Send(Blank(None, FALSE), "4xx") EXCEPT !.at = "done"])
  /\ UNCHANGED <<primary, cache, inflight, clock, overlaps>>

\* PromptCache.get up to the read of the table.
Lookup(t) ==
  LET r == req[t] IN
  /\ r.at = "lookup"
  /\ IF r.key \in DOMAIN cache
     THEN Continue(t, [r EXCEPT !.at = "check", !.seen = cache[r.key]])
     ELSE Continue(t, [r EXCEPT !.at = "register"])
  /\ UNCHANGED <<primary, cache, inflight, clock, begun, overlaps>>

\* PromptCache.get after it: a fresh entry is the reply ...
Hit(t) ==
  LET r == req[t] IN
  /\ r.at = "check" /\ clock <= r.seen.expires
  /\ FinishRequest(t, [Send(r, "200") EXCEPT !.hit = TRUE, !.answer = r.seen.answer, !.seen = None])
  /\ UNCHANGED <<primary, cache, clock, begun, overlaps>>

\* Mutant: an expired entry is looked up once more instead of being deleted.
ExpiredAskAgain(t) ==
  LET r == req[t] IN
  /\ r.at = "check" /\ clock > r.seen.expires
  /\ Continue(t, [r EXCEPT !.at = "lookup", !.seen = None])
  /\ UNCHANGED <<primary, cache, inflight, clock, begun, overlaps>>

\* ... an expired one is deleted, whatever the table holds for the key by now;
\* a KeyError when it holds nothing.
Expired(t) ==
  LET r == req[t] IN
  /\ r.at = "check" /\ clock > r.seen.expires
  /\ \/ /\ r.key \in DOMAIN cache
        /\ cache' = Restrict(cache, DOMAIN cache \ {r.key})
        /\ Continue(t, [r EXCEPT !.at = "register", !.seen = None])
        /\ UNCHANGED inflight
     \/ /\ r.key \notin DOMAIN cache
        /\ FailRequest(t, r, "race")
        /\ UNCHANGED cache
  /\ UNCHANGED <<primary, clock, begun, overlaps>>

\* inflight.begin.
Register(t) ==
  /\ req[t].at = "register"
  /\ inflight' = [u \in DOMAIN inflight \cup {t} |-> IF u = t THEN clock ELSE inflight[u]]
  /\ Continue(t, [req[t] EXCEPT !.at = "upstream"])
  /\ UNCHANGED <<primary, cache, clock, begun, overlaps>>

\* Mutant: set() under the model the lookup used instead of the one that answered.
AnsweredUnderPrimary(t, m) ==
  LET r == req[t] IN
  /\ r.at = "upstream"
  /\ Continue(t, [r EXCEPT !.at = IF r.stream THEN "header" ELSE "set",
                           !.body = Normal[r.body],
                           !.key = <<primary, Normal[r.body]>>,
                           !.answer = [model |-> m, body |-> Normal[r.body]]])
  /\ UNCHANGED <<primary, cache, inflight, clock, begun, overlaps>>

\* Mutant: try_chain does not say which model answered.
AnsweredNameless(t, m) ==
  LET r == req[t] IN
  /\ r.at = "upstream"
  /\ Continue(t, [r EXCEPT !.at = IF r.stream THEN "header" ELSE "set",
                           !.key = <<None, Normal[r.body]>>,
                           !.answer = [model |-> None, body |-> Normal[r.body]]])
  /\ UNCHANGED <<primary, cache, inflight, clock, begun, overlaps>>

\* try_chain returns: model m answered, and the body has been normalised in place.
Answered(t, m) ==
  LET r == req[t] IN
  /\ r.at = "upstream"
  /\ Continue(t, [r EXCEPT !.at = IF r.stream THEN "header" ELSE "set",
                           !.body = Normal[r.body],
                           !.key = <<m, Normal[r.body]>>,
                           !.answer = [model |-> m, body |-> Normal[r.body]]])
  /\ UNCHANGED <<primary, cache, inflight, clock, begun, overlaps>>

\* try_chain raises: provider errors get a failure row, the others only a reply.
Unanswered(t) ==
  /\ req[t].at = "upstream"
  /\ \/ Continue(t, [req[t] EXCEPT !.at = "failed"]) /\ UNCHANGED inflight
     \/ FinishRequest(t, Send(req[t], "500"))
  /\ UNCHANGED <<primary, cache, clock, begun, overlaps>>

\* The except clauses for provider errors: record_cost, then the error reply.
\* record_cost is not guarded here, and its exception ends the thread's request.
FailureRow(t) ==
  LET r == req[t] IN
  /\ r.at = "failed"
  /\ \/ FinishRequest(t, [Send(r, IF "cut" \in r.trouble THEN "504" ELSE "502") EXCEPT !.rows = @ + 1])
     \/ FinishRequest(t, [r EXCEPT !.trouble = @ \cup {"database"}])
  /\ UNCHANGED <<primary, cache, clock, begun, overlaps>>

-----------------------------------------------------------------------------
(* A streamed reply.                                                       *)

\* The header is flushed outside the try block of the relay: to a client that
\* has gone it is an unhandled error.
SendHeader(t) ==
  LET r == Send(req[t], "200") IN
  /\ req[t].at = "header"
  /\ \/ Continue(t, [r EXCEPT !.at = "relay"]) /\ UNCHANGED inflight
     \/ FailRequest(t, r, "broken")
  /\ UNCHANGED <<primary, cache, clock, begun, overlaps>>

RelayChunk(t) ==
  /\ req[t].at = "relay" /\ req[t].chunks < MaxChunks
  /\ Continue(t, [req[t] EXCEPT !.chunks = @ + 1])
  /\ UNCHANGED <<primary, cache, inflight, clock, begun, overlaps>>

\* Mutant: a client that goes away during a stream ends the request.
RelayEndsUnaccounted(t) ==
  /\ req[t].at = "relay"
  /\ \/ Continue(t, [req[t] EXCEPT !.at = "account"]) /\ UNCHANGED inflight
     \/ FinishRequest(t, req[t])
  /\ UNCHANGED <<primary, cache, clock, begun, overlaps>>

\* The stream ends, or the client goes away: both lead on to the accounting.
RelayEnds(t) ==
  /\ req[t].at = "relay"
  /\ Continue(t, [req[t] EXCEPT !.at = "account"])
  /\ UNCHANGED <<primary, cache, inflight, clock, begun, overlaps>>

\* chunk_reader's socket read times out: ProviderTimeoutError, after try_chain
\* has returned and the status line has been written.
RelayTimesOut(t) ==
  /\ req[t].at = "relay"
  /\ Continue(t, [req[t] EXCEPT !.at = "failed", !.trouble = {"cut"}])
  /\ UNCHANGED <<primary, cache, inflight, clock, begun, overlaps>>

\* Any other error of the upstream's connection (a body cut short, a TLS error)
\* is neither a client's disconnect nor a timeout: no accounting.
RelayBreaks(t) ==
  /\ req[t].at = "relay"
  /\ FailRequest(t, req[t], "broken")
  /\ UNCHANGED <<primary, cache, clock, begun, overlaps>>

-----------------------------------------------------------------------------
(* PromptCache.set, between the upstream's answer and the accounting.      *)

InSet == {"setScan", "setEvict", "setInsert"}

\* An exception of set() is an unhandled error of the request: no cost row.
Raise(t) ==
  /\ FailRequest(t, req[t], "race")
  /\ UNCHANGED cache

\* Mutant: the table is full only when it is over its limit.
SetBeginLate(t) ==
  LET full == Cardinality(DOMAIN cache) > MaxEntries IN
  /\ req[t].at = "set"
  /\ Continue(t, [req[t] EXCEPT !.at = IF full THEN "setScan" ELSE "setInsert",
                                !.scanned = IF full THEN DOMAIN cache ELSE {}])
  /\ UNCHANGED <<primary, cache, inflight, clock, begun, overlaps>>

SetBegin(t) ==
  LET full == Cardinality(DOMAIN cache) >= MaxEntries IN
  /\ req[t].at = "set"
  /\ Continue(t, [req[t] EXCEPT !.at = IF full THEN "setScan" ELSE "setInsert",
                                !.scanned = IF full THEN DOMAIN cache ELSE {}])
  /\ UNCHANGED <<primary, cache, inflight, clock, begun, overlaps>>

\* min() walks the table.  A change of its size while it does is a RuntimeError;
\* a change that keeps the size may go unnoticed or be a KeyError.
SetScan(t) ==
  LET r == req[t] IN
  /\ r.at = "setScan"
  /\ \/ /\ Cardinality(DOMAIN cache) = Cardinality(r.scanned)
        /\ \E k \in DOMAIN cache :
             /\ \A j \in DOMAIN cache : cache[k].expires <= cache[j].expires
             /\ Continue(t, [r EXCEPT !.at = "setEvict", !.victim = k, !.scanned = {}])
        /\ UNCHANGED <<cache, inflight>>
     \/ DOMAIN cache # r.scanned /\ Raise(t)
  /\ UNCHANGED <<primary, clock, begun, overlaps>>

SetEvict(t) ==
  LET r == req[t] IN
  /\ r.at = "setEvict"
  /\ \/ /\ r.victim \in DOMAIN cache
        /\ cache' = Restrict(cache, DOMAIN cache \ {r.victim})
        /\ Continue(t, [r EXCEPT !.at = "setInsert", !.victim = None])
        /\ UNCHANGED inflight
     \/ r.victim \notin DOMAIN cache /\ Raise(t)
  /\ UNCHANGED <<primary, clock, begun, overlaps>>

SetInsert(t) ==
  LET r == req[t] IN
  /\ r.at = "setInsert"
  /\ cache' = [k \in DOMAIN cache \cup {r.key} |->
                 IF k = r.key THEN [expires |-> clock + Ttl, answer |-> r.answer] ELSE cache[k]]
  /\ overlaps' = overlaps + (IF \E u \in ChatThreads \ {t} : req[u].at \in InSet THEN 1 ELSE 0)
  /\ Continue(t, [r EXCEPT !.at = "account"])
  /\ UNCHANGED <<primary, inflight, clock, begun>>

-----------------------------------------------------------------------------

\* Mutant: the reply goes out before the accounting, and once more after it.
AccountAfterReply(t) ==
  LET r == req[t] IN
  /\ r.at = "account"
  /\ \E ok \in BOOLEAN :
       LET r1 == IF ok THEN [r EXCEPT !.rows = @ + 1] ELSE [r EXCEPT !.trouble = {"database"}]
       IN IF r.stream THEN FinishRequest(t, r1)
          ELSE Continue(t, [Send(r1, "200") EXCEPT !.at = "reply"]) /\ UNCHANGED inflight
  /\ UNCHANGED <<primary, cache, clock, begun, overlaps>>

\* verifier.verify, before the accounting and outside its guard: a usage that
\* is null, or no number, is an unhandled error.
VerifyRaises(t) ==
  /\ req[t].at = "account" /\ ~req[t].stream
  /\ FailRequest(t, req[t], "usage")
  /\ UNCHANGED <<primary, cache, clock, begun, overlaps>>

\* Capture, when all is sent: it is guarded, the reading of the reply's words
\* for it (extract_sse_text, extract_message_text) is not.
FinishWithCapture(t, r) == FinishRequest(t, r) \/ FailRequest(t, r, "words")

\* record_cost and _track_budget_spend, guarded: a failure is only logged.
Account(t) ==
  LET r == req[t] IN
  /\ r.at = "account"
  /\ \E ok \in BOOLEAN :
       LET r1 == IF ok THEN [r EXCEPT !.rows = @ + 1] ELSE [r EXCEPT !.trouble = {"database"}]
       IN IF r.stream THEN FinishWithCapture(t, r1)
          ELSE Continue(t, [r1 EXCEPT !.at = "reply"]) /\ UNCHANGED inflight
  /\ UNCHANGED <<primary, cache, clock, begun, overlaps>>

Reply(t) ==
  /\ req[t].at = "reply"
  /\ FinishWithCapture(t, Send(req[t], "200"))
  /\ UNCHANGED <<primary, cache, clock, begun, overlaps>>

\* in_progress_payload: inflight.sweep drops what is older than MAX_AGE_S.
Sweep ==
  /\ inflight' = Restrict(inflight, {t \in DOMAIN inflight : inflight[t] >= clock - MaxAge})
  /\ inflight' # inflight
  /\ UNCHANGED <<primary, cache, req, clock, begun, overlaps>>

\* An administrator puts another model first.
EditChain(m) ==
  /\ m # primary /\ primary' = m
  /\ UNCHANGED <<cache, inflight, req, clock, begun, overlaps>>

ChatTick ==
  /\ clock < MaxClock /\ clock' = clock + 1
  /\ UNCHANGED <<primary, cache, inflight, req, begun, overlaps>>

Step(t) ==
  \/ Lookup(t) \/ Hit(t) \/ Expired(t) \/ Register(t)
  \/ \E m \in Models : Answered(t, m)
  \/ Unanswered(t) \/ FailureRow(t)
  \/ SendHeader(t) \/ RelayChunk(t) \/ RelayEnds(t) \/ RelayTimesOut(t) \/ RelayBreaks(t)
  \/ SetBegin(t) \/ SetScan(t) \/ SetEvict(t) \/ SetInsert(t)
  \/ VerifyRaises(t) \/ Account(t) \/ Reply(t)

ChatNext ==
  \/ \E t \in ChatThreads : \/ Step(t)
                        \/ \E b \in Bodies, s \in BOOLEAN : Begin(t, b, s)
                        \/ RefuseRequest(t)
  \/ Sweep \/ ChatTick
  \/ \E m \in Models : EditChain(m)

ChatSpec == ChatInit /\ [][ChatNext]_chatVars /\ \A t \in ChatThreads : WF_chatVars(Step(t))

-----------------------------------------------------------------------------
(* Properties.                                                             *)

Registered == {"upstream", "header", "relay", "set", "account", "reply", "failed"} \cup InSet

\* The type of the handler's state.
CTypeOK ==
  /\ primary \in Models
  /\ DOMAIN cache \subseteq Key /\ \A k \in DOMAIN cache : cache[k] \in Entry
  /\ DOMAIN inflight \subseteq ChatThreads /\ \A t \in DOMAIN inflight : inflight[t] \in Nat
  /\ req \in [ChatThreads -> Request]
  /\ clock \in 0 .. MaxClock /\ begun \in 0 .. MaxRequests /\ overlaps \in Nat

\* A reply from the cache is an answer that the model which was first in the
\* chain when the request came in gave to exactly this body: get() looks under the
\* primary model and the client's body, set() writes under the model that answered
\* and the normalised body, and chain edits and other threads come in between.
HitIsAnAnswerToThisRequest ==
  \A t \in ChatThreads : req[t].hit =>
    /\ req[t].answer.model = req[t].key[1]
    /\ req[t].answer.body = req[t].body

\* The table outgrows max_entries only by one entry for each insertion that
\* overlapped another thread's set(): the check of the size, the eviction and the
\* insertion are not atomic, but a lone writer keeps the bound.
SlackNeedsOverlap == Cardinality(DOMAIN cache) <= MaxEntries + overlaps

\* The registry holds exactly the requests that are being worked on (no phantom
\* survives an error path), except what sweep() dropped for its age.
RegistryIsExact ==
  /\ DOMAIN inflight \subseteq {t \in ChatThreads : req[t].at \in Registered}
  /\ clock <= MaxAge => DOMAIN inflight = {t \in ChatThreads : req[t].at \in Registered}

\* The status lines of a finished request.
LinesFit(r) ==
  \/ Len(r.sent) = 1
  \/ Len(r.sent) = 2 /\ r.stream /\ ("cut" \in r.trouble \/ "broken" \in r.trouble)
  \/ Len(r.sent) = 2 /\ "words" \in r.trouble
  \/ Len(r.sent) = 0 /\ "database" \in r.trouble /\ r.answer = None

\* A finished request has had one status line. The exceptions are a stream that
\* breaks off and an answer whose words cannot be read, which get an error's
\* status line after the reply's, and a provider error whose failure row the
\* database refused, which gets none.
OneStatusLine == \A t \in ChatThreads : req[t].at = "done" => LinesFit(req[t])

\* The rows of a finished request.
RowsFit(r) ==
  r.answer # None =>
    r.rows = (IF r.hit \/ r.trouble \cap {"database", "race", "broken", "usage"} # {} THEN 0 ELSE 1)

\* What an upstream produced and charges for gets exactly one row in the requests
\* table, unless the database failed, set() lost a race with another thread, the
\* stream broke with an error the handler does not expect or the usage could not
\* be read; a reply from the cache gets none.
AnswersAreAccounted == \A t \in ChatThreads : req[t].at = "done" => RowsFit(req[t])

\* The books of a request balance when threads share the cache: the cache grows
\* only by overlapping insertions, the registry holds exactly the requests under
\* way, a reply has one status line, and what was produced has one row, but
\* for the timeouts and errors that LinesFit and RowsFit name
\* (prompt_cache.py: set; inflight.py; handler.py: _serve_chat_completions).
RequestsAreAccounted ==
  /\ CTypeOK
  /\ SlackNeedsOverlap /\ RegistryIsExact /\ OneStatusLine /\ AnswersAreAccounted

\* Every request comes to its end, and so leaves the registry: each step of the
\* handler returns, the upstream's reads under a timeout.
RequestsEnd == \A t \in ChatThreads : req[t].at # "idle" ~> req[t].at = "done"

\* The comment in chunk_reader: a read timeout in the middle of a stream is raised
\* as ProviderTimeoutError so that the chain's fallback can engage; the client
\* would then never see the timeout of a stream that has begun.
StreamTimeoutFallsBack ==
  \A t \in ChatThreads : ~(req[t].at = "done" /\ req[t].stream /\ req[t].sent = <<"200", "504">>)

=============================================================================

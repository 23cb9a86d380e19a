---------------------------- MODULE RequestChain ----------------------------
(***************************************************************************)
(* try_chain: the walk of a request along its profile's provider chain,    *)
(* with the dynamic router's reordering in front of it, vision and breaker *)
(* checks, degraded gating, retries and failover.  Several handler threads *)
(* walk at once and share one circuit breaker: every step below is a step  *)
(* of CircuitBreaker joined with what it does to the request.              *)
(***************************************************************************)
EXTENDS CircuitBreaker, Selection

CONSTANTS
  Steps,        \* the {provider, model} steps of the profile's chain
  Chain,        \* the profile's chain: a sequence of steps
  KeyOf,        \* KeyOf[s]: the breaker key of the step's provider
  VisionSteps,  \* the steps whose model has supports_vision
  MaxAttempts,  \* retry.max_attempts
  Errors,       \* records [w, retried]: the provider errors that can happen
  Modes,        \* records [image, dynamic]: the kinds of request that arrive
  MaxOperations \* bound: operator steps and restarts in one behaviour

ASSUME ChainAssumption ==
  /\ Chain \in Seq(Steps)
  /\ KeyOf \in [Steps -> Keys]
  /\ VisionSteps \subseteq Steps
  /\ MaxAttempts \in Nat \ {0}
  /\ Errors \subseteq [w : Weights, retried : BOOLEAN]
  /\ Modes \subseteq [image : BOOLEAN, dynamic : BOOLEAN]
  /\ MaxOperations \in Nat

VARIABLES
  req,   \* each thread's request
  ops    \* operator steps and restarts so far

rvars == <<vars, req, ops>>

\* A request ends served; failed, with the chain exhausted; rejected, as a bad
\* request; in an exception nothing classified; or in an IndexError, of the
\* failover event or of a chain that is empty.
Ends == {"served", "failed", "rejected", "unclassified", "crashed", "no_chain"}

Phases == {"idle", "route", "check", "gate", "call"} \union Ends

\* What became of each step the walk has passed, in order.
Verdicts == {"no_vision", "open", "gated", "error", "config"}

NoRequest ==
  [phase |-> "idle", chain |-> <<>>, size |-> 0, i |-> 1, attempt |-> 0,
   image |-> FALSE, errors |-> <<>>, kept |-> <<>>,
   disturbed |-> FALSE]

RTypeOK ==
  /\ TypeOK
  /\ ops \in 0..MaxOperations
  /\ \A t \in Threads :
       /\ req[t].phase \in Phases
       /\ req[t].chain \in Seq(Steps) /\ req[t].kept \in Seq(Steps)
       /\ req[t].i \in 1..(Len(Chain) + 1)
       /\ req[t].attempt \in 0..MaxAttempts
       /\ req[t].errors \in Seq(Verdicts)

RInit == Init /\ req = [t \in Threads |-> NoRequest] /\ ops = 0

-----------------------------------------------------------------------------
\* Other actors' steps mark the requests under way when they change the state
\* those requests depend on (bookkeeping of the model, not of the code).
Mark(t) ==
  [u \in Threads |->
     IF u # t /\ req[u].phase # "idle" /\ <<configured, health>>' # <<configured, health>>
     THEN [req[u] EXCEPT !.disturbed = TRUE] ELSE req[u]]

\* Thread t's request becomes r.
Become(t, r) == req' = [Mark(t) EXCEPT ![t] = r] /\ UNCHANGED ops

Step(t) == req[t].chain[req[t].i]

Key(t) == KeyOf[Step(t)]

Walking(t, phase) == req[t].phase = phase

\* Deleting a provider strips it from every chain.
ConfiguredChain ==
  Selected(Chain, {j \in DOMAIN Chain : Owner[KeyOf[Chain[j]]] \in configured})

\* The handler enters try_chain with a copy of the chain; chain_len is taken
\* here, before the router may replace the chain.
Start(t, mode) ==
  /\ Walking(t, "idle")
  /\ ConfiguredChain # <<>>
  /\ UNCHANGED vars
  /\ Become(t, [NoRequest EXCEPT
                  !.phase = IF mode.dynamic THEN "route" ELSE "check",
                  !.chain = ConfiguredChain, !.size = Len(ConfiguredChain),
                  !.image = mode.image])

\* Every provider of the profile was deleted: the handler cannot take the head of
\* an empty chain and answers with an internal error.
StartWithoutChain(t) ==
  /\ Walking(t, "idle")
  /\ ConfiguredChain = <<>>
  /\ UNCHANGED vars
  /\ Become(t, [NoRequest EXCEPT !.phase = "no_chain"])

\* select_step drops the steps whose provider is not available, asking
\* is_available of one after the other.
RouterProbe(t) ==
  /\ Walking(t, "route")
  /\ req[t].i <= Len(req[t].chain)
  /\ IF Expired(health[Key(t)]) THEN ProbeOnly(Key(t)) ELSE UNCHANGED vars
  /\ Become(t, [req[t] EXCEPT
                  !.i = @ + 1,
                  !.kept = IF IsAvailable(health[Key(t)]) THEN Append(@, Step(t)) ELSE @])

\* Block rules and the context gate drop some of the steps that are left, and
\* the target model, the preferred provider, health and credits order the rest.
Arrangements(steps) ==
  {c \in UNION {[1..n -> steps] : n \in 1..Cardinality(steps)} :
     \A a, b \in DOMAIN c : c[a] = c[b] => a = b}

\* select_step returns None (margin gate, below min_score, same head, nothing
\* left): the static chain stands.
RouterKeeps(t) ==
  /\ Walking(t, "route")
  /\ req[t].i > Len(req[t].chain)
  /\ UNCHANGED vars
  /\ Become(t, [req[t] EXCEPT !.phase = "check", !.i = 1, !.kept = <<>>])

RouterReorders(t) ==
  /\ Walking(t, "route")
  /\ req[t].i > Len(req[t].chain)
  /\ UNCHANGED vars
  /\ \E c \in Arrangements({req[t].kept[j] : j \in DOMAIN req[t].kept}) :
       Become(t, [req[t] EXCEPT !.phase = "check", !.i = 1, !.kept = <<>>, !.chain = c])

-----------------------------------------------------------------------------
\* Mutant: the loop stops before the last step.
PassedShort(r, verdict) ==
  [r EXCEPT !.errors = Append(@, verdict), !.i = @ + 1, !.attempt = 0,
            !.phase = IF r.i + 1 < Len(r.chain) THEN "check" ELSE "failed"]

\* The step is passed over: the loop goes on with the next one, or the chain is
\* exhausted and AllProvidersFailedError is raised.
Passed(r, verdict) ==
  [r EXCEPT !.errors = Append(@, verdict), !.i = @ + 1, !.attempt = 0,
            !.phase = IF r.i < Len(r.chain) THEN "check" ELSE "failed"]

NoVision(t) == req[t].image /\ Step(t) \notin VisionSteps

SkipVision(t) ==
  /\ Walking(t, "check") /\ NoVision(t)
  /\ UNCHANGED vars
  /\ Become(t, Passed(req[t], "no_vision"))

SkipOpen(t) ==
  /\ Walking(t, "check") /\ ~NoVision(t)
  /\ ~IsAvailable(health[Key(t)])
  /\ UNCHANGED vars
  /\ Become(t, Passed(req[t], "open"))

PassBreaker(t) ==
  /\ Walking(t, "check") /\ ~NoVision(t)
  /\ Admit(t, Key(t))
  /\ Become(t, [req[t] EXCEPT !.phase = "gate"])

\* Mutant: any provider that is not dead counts as an alternative.
HasAliveAlternative(t) ==
  \E j \in (req[t].i + 1)..Len(req[t].chain) :
    health[KeyOf[req[t].chain[j]]].status # "dead"

HasHealthyAlternative(t) ==
  \E j \in (req[t].i + 1)..Len(req[t].chain) :
    health[KeyOf[req[t].chain[j]]].status = "healthy"

\* Mutant: no degraded gating.
NeverGated(t) == FALSE

Gated(t) == health[Key(t)].status = "degraded" /\ HasHealthyAlternative(t)

SkipDegraded(t) ==
  /\ Walking(t, "gate") /\ Gated(t)
  /\ Blameless(t)
  /\ Become(t, Passed(req[t], "gated"))

Forward(t) ==
  /\ Walking(t, "gate") /\ ~Gated(t)
  /\ UNCHANGED vars
  /\ Become(t, [req[t] EXCEPT !.phase = "call", !.attempt = 1])

-----------------------------------------------------------------------------
\* Mutant: one attempt too many.
RetryOnceMore(t) ==
  /\ Walking(t, "call")
  /\ req[t].attempt <= MaxAttempts
  /\ \E e \in Errors : e.retried
  /\ UNCHANGED vars
  /\ Become(t, [req[t] EXCEPT !.attempt = @ + 1])

\* Mutant: every attempt that fails is reported to the breaker.
RetryReported(t) ==
  /\ Walking(t, "call")
  /\ req[t].attempt < MaxAttempts
  /\ \E e \in Errors : e.retried /\ Fail(t, e.w)
  /\ Become(t, [req[t] EXCEPT !.attempt = @ + 1])

\* call_with_retry: 5xx and 429 are tried again until max_attempts.
Retry(t) ==
  /\ Walking(t, "call")
  /\ req[t].attempt < MaxAttempts
  /\ \E e \in Errors : e.retried
  /\ UNCHANGED vars
  /\ Become(t, [req[t] EXCEPT !.attempt = @ + 1])

Serve(t) ==
  /\ Walking(t, "call")
  /\ Succeed(t)
  /\ Become(t, [req[t] EXCEPT !.phase = "served"])

\* After an error: the failover event names chain[i + 1] when i + 1 < chain_len,
\* an IndexError when the router's chain is shorter than that.
FailOver(r, verdict) ==
  IF r.i < r.size /\ r.i >= Len(r.chain)
  THEN [r EXCEPT !.phase = "crashed"]
  ELSE Passed(r, verdict)

ProviderFails(t, e) ==
  /\ Walking(t, "call")
  /\ e.retried => req[t].attempt = MaxAttempts
  /\ Fail(t, e.w)
  /\ Become(t, FailOver(req[t], "error"))

\* A missing key: found before anything is sent.
ConfigFails(t) ==
  /\ Walking(t, "call") /\ req[t].attempt = 1
  /\ Blameless(t)
  /\ Become(t, FailOver(req[t], "config"))

\* ProviderBadRequestError: the body is at fault, so the walk ends.
BadRequest(t) ==
  /\ Walking(t, "call")
  /\ Blameless(t)
  /\ Become(t, [req[t] EXCEPT !.phase = "rejected"])

\* A connection that is dropped before or during the reply, or a reply that is
\* not JSON, raises an exception that no clause names: it leaves try_chain at
\* once, without a verdict for the breaker and without failover.
Unclassified(t) ==
  /\ Walking(t, "call")
  /\ Blameless(t)
  /\ Become(t, [req[t] EXCEPT !.phase = "unclassified"])

\* Mutant: an exhausted chain is not answered.
AnswerUnlessFailed(t) ==
  /\ req[t].phase \in Ends \ {"failed"}
  /\ UNCHANGED vars
  /\ Become(t, NoRequest)

\* The handler answers the client and the thread ends.
Answer(t) ==
  /\ req[t].phase \in Ends
  /\ UNCHANGED vars
  /\ Become(t, NoRequest)

-----------------------------------------------------------------------------
\* Endpoints, time and restarts, next to the requests.
DisturbAll ==
  req' = [t \in Threads |-> IF req[t].phase # "idle"
                            THEN [req[t] EXCEPT !.disturbed = TRUE] ELSE req[t]]

Operate == ops < MaxOperations /\ ops' = ops + 1

Operator ==
  /\ Operate
  /\ \/ \E k \in Keys : Reset(k) \/ \E action \in ForceActions : Toggle(k, action)
     \/ \E p \in Providers : DeleteProvider(p) \/ CreateProvider(p)
  /\ DisturbAll

Reboot == Operate /\ Restart /\ req' = [t \in Threads |-> NoRequest]

Time == Tick /\ DisturbAll /\ UNCHANGED ops

Advance(t) ==
  \/ RouterProbe(t) \/ RouterKeeps(t) \/ RouterReorders(t)
  \/ SkipVision(t) \/ SkipOpen(t) \/ PassBreaker(t)
  \/ SkipDegraded(t) \/ Forward(t)
  \/ Retry(t) \/ Serve(t) \/ ConfigFails(t)
  \/ BadRequest(t) \/ Unclassified(t)
  \/ \E e \in Errors : ProviderFails(t, e)
  \/ Answer(t)

RNext ==
  \/ \E t \in Threads :
       Advance(t) \/ StartWithoutChain(t) \/ \E mode \in Modes : Start(t, mode)
  \/ Operator
  \/ Time
  \/ Reboot

\* A handler thread is scheduled, and its upstream call ends or times out.
RSpec == RInit /\ [][RNext]_rvars /\ \A t \in Threads : WF_rvars(Advance(t))

-----------------------------------------------------------------------------
TriedAStep(r) == \E j \in DOMAIN r.errors : r.errors[j] \in {"error", "config"}

(* Degraded gating never costs a text request its last chance: when a step  *)
(* was given up for a healthier one and the walk still ends in failure, some *)
(* provider was really asked (unless another request, an operator or the     *)
(* clock changed provider health during the walk).                           *)
GatingKeepsAChance ==
  \A t \in Threads :
    /\ req[t].phase = "failed" /\ ~req[t].disturbed /\ ~req[t].image
    /\ \E j \in DOMAIN req[t].errors : req[t].errors[j] = "gated"
    => TriedAStep(req[t])

(* try_chain's comment on gating: a degraded provider is called only when no *)
(* healthy option remains in the chain, and a dead one is not called, when   *)
(* nothing else changed provider health during the walk.                     *)
DegradedIsLastResort ==
  \A t \in Threads :
    Walking(t, "call") /\ ~req[t].disturbed
      => /\ health[Key(t)].status # "dead"
         /\ health[Key(t)].status = "degraded" => ~HasHealthyAlternative(t)

(* The breaker hears of each upstream call once, however often it was        *)
(* retried: a thread has a call open exactly while its request is between    *)
(* the breaker's consent and the verdict.                                    *)
CallsMatchRequests ==
  \A t \in Threads :
    IF req[t].phase \in {"gate", "call"} THEN call[t] = Key(t) ELSE call[t] = Idle

(* AllProvidersFailedError is the last resort: when a text request ends with *)
(* it, every step whose provider is healthy was called, or had no key to be  *)
(* called with (unless provider health changed during the walk).             *)
FailedLeavesNoneHealthy ==
  \A t \in Threads :
    req[t].phase = "failed" /\ ~req[t].disturbed /\ ~req[t].image =>
      \A j \in DOMAIN req[t].chain :
        health[KeyOf[req[t].chain[j]]].status = "healthy"
          => j \in DOMAIN req[t].errors /\ req[t].errors[j] \in {"error", "config"}

(* A walk gives a step up for good reason only and answers for each call    *)
(* once: a step skipped for a healthier one leaves a chance, a degraded      *)
(* provider is the last resort, failure leaves no healthy step uncalled, and *)
(* every consent of the breaker gets one verdict (try_chain).                *)
WalkIsSound ==
  /\ RTypeOK
  /\ GatingKeepsAChance /\ DegradedIsLastResort /\ FailedLeavesNoneHealthy
  /\ CallsMatchRequests

(* Every request is answered: the walk always ends, whatever the breaker,    *)
(* the operator and the other requests do.                                   *)
RequestsAnswered ==
  \A t \in Threads : req[t].phase # "idle" ~> req[t].phase = "idle"

-----------------------------------------------------------------------------
(* try_chain's comment: "Only route to degraded when no healthy option       *)
(* remains in the chain".  A request, with or without images, that fails     *)
(* after giving up a degraded step has asked some provider.                  *)
GatingKeepsAChanceForImages ==
  \A t \in Threads :
    /\ req[t].phase = "failed" /\ ~req[t].disturbed
    /\ \E j \in DOMAIN req[t].errors : req[t].errors[j] = "gated"
    => TriedAStep(req[t])

(* try_chain's comment: "Log a failover event when a next provider exists in *)
(* the chain".  An exhausted chain ends in AllProvidersFailedError, never in *)
(* an IndexError.                                                            *)
NoIndexError == \A t \in Threads : req[t].phase # "crashed"
=============================================================================

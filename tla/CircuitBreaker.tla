--------------------------- MODULE CircuitBreaker ---------------------------
(***************************************************************************)
(* The circuit breaker as its callers see it: the in-memory health table,  *)
(* the provider_health rows it writes through to, the request threads that *)
(* ask is_available() and later report the outcome of the call they made,  *)
(* the operator's endpoints, deletion of a provider, database errors and   *)
(* restarts.  Each method is one step.                                     *)
(*                                                                         *)
(* A key stands for one (provider, base_url, profile).  A key that is not  *)
(* in `tracked' has DefaultHealth in `health', the view peek() returns;    *)
(* rows that are not `stored' likewise.                                    *)
(***************************************************************************)
EXTENDS BreakerHealth

CONSTANTS
  Keys, Providers, Owner,   \* Owner[k]: the provider of key k
  Threads,                  \* request handler threads
  Weights,                  \* the weights of the errors that can happen
  Idle,                     \* a thread with no upstream call in flight
  MaxFaults                 \* bound: database errors in one behaviour

ASSUME KeyAssumption == Owner \in [Keys -> Providers] /\ Idle \notin Keys

ASSUME WeightAssumption == Weights \subseteq Nat \ {0}

ASSUME FaultAssumption == MaxFaults \in Nat

VARIABLES
  configured,  \* providers in config.raw["providers"]
  health,      \* CircuitBreaker._health, default where not tracked
  tracked,     \* the keys of CircuitBreaker._health
  rows,        \* the provider_health table, default where not stored
  stored,      \* the keys that have a row
  call,        \* the key whose provider each thread is calling
  faults       \* database errors so far

memory == <<health, tracked>>
database == <<rows, stored, faults>>
vars == <<configured, health, tracked, rows, stored, call, faults>>

TypeOK ==
  /\ configured \subseteq Providers
  /\ health \in [Keys -> Health]
  /\ tracked \subseteq Keys
  /\ rows \in [Keys -> Health]
  /\ stored \subseteq Keys
  /\ call \in [Threads -> Keys \union {Idle}]
  /\ faults \in 0..MaxFaults

Empty == [k \in Keys |-> DefaultHealth]

Init ==
  /\ configured = Providers
  /\ health = Empty /\ tracked = {}
  /\ rows = Empty /\ stored = {}
  /\ call = [t \in Threads |-> Idle]
  /\ faults = 0

-----------------------------------------------------------------------------
\* A database error is logged and swallowed; the table keeps what it had.
DatabaseError ==
  /\ faults < MaxFaults
  /\ faults' = faults + 1
  /\ UNCHANGED <<rows, stored>>

\* _persist: upsert the row of k with the entry h that memory now holds.
Persist(k, h) ==
  \/ /\ rows' = [rows EXCEPT ![k] = h]
     /\ stored' = stored \union {k}
     /\ UNCHANGED faults
  \/ DatabaseError

\* get_health(k), the assignments that turn the entry into h, _persist.
Update(k, h) ==
  /\ health' = [health EXCEPT ![k] = h]
  /\ tracked' = tracked \union {k}
  /\ Persist(k, h)

\* Mutant: the promotion is not persisted.
CheckInMemory(k) ==
  IF Expired(health[k])
  THEN /\ health' = [health EXCEPT ![k] = Promote(health[k])]
       /\ UNCHANGED <<tracked, database>>
  ELSE UNCHANGED <<memory, database>>

\* is_available(k): promotes and persists an entry whose cooldown is over, and
\* creates nothing for a key that is not tracked.
Check(k) ==
  IF Expired(health[k])
  THEN Update(k, Promote(health[k]))
  ELSE UNCHANGED <<memory, database>>

\* try_chain finds the step available and goes on to call its provider.  A
\* request walks the copy of the chain it took when it started, so the provider
\* may have been deleted since.
Admit(t, k) ==
  /\ call[t] = Idle
  /\ IsAvailable(health[k])
  /\ Check(k)
  /\ call' = [call EXCEPT ![t] = k]
  /\ UNCHANGED configured

\* The router asks is_available() of a step: the promotion happens, a call does
\* not.
ProbeOnly(k) ==
  /\ Expired(health[k])
  /\ Check(k)
  /\ UNCHANGED <<configured, call>>

Succeed(t) ==
  /\ call[t] # Idle
  /\ Update(call[t], RecordSuccess(health[call[t]]))
  /\ call' = [call EXCEPT ![t] = Idle]
  /\ UNCHANGED configured

Fail(t, w) ==
  /\ call[t] # Idle
  /\ Update(call[t], RecordFailure(health[call[t]], w))
  /\ call' = [call EXCEPT ![t] = Idle]
  /\ UNCHANGED configured

\* ProviderBadRequestError and ConfigError say nothing about the provider, and
\* degraded gating gives up a step that was available before calling it.
Blameless(t) ==
  /\ call[t] # Idle
  /\ call' = [call EXCEPT ![t] = Idle]
  /\ UNCHANGED <<configured, memory, database>>

-----------------------------------------------------------------------------
\* POST /api/circuit-breaker/reset takes any key it is given.
Reset(k) ==
  /\ Update(k, ResetHealth(health[k]))
  /\ UNCHANGED <<configured, call>>

\* POST /api/providers/{name}/toggle answers 404 unless a chain names it.
Toggle(k, action) ==
  /\ Owner[k] \in configured
  /\ Update(k, ForceStatus(health[k], action))
  /\ UNCHANGED <<configured, call>>

KeysOf(p) == {k \in Keys : Owner[k] = p}

ForgetProvider(p) ==
  /\ health' = [k \in Keys |-> IF Owner[k] = p THEN DefaultHealth ELSE health[k]]
  /\ tracked' = tracked \ KeysOf(p)
  /\ \/ /\ rows' = [k \in Keys |-> IF Owner[k] = p THEN DefaultHealth ELSE rows[k]]
        /\ stored' = stored \ KeysOf(p)
        /\ UNCHANGED faults
     \/ DatabaseError

\* DELETE /api/providers/{name}: calls that are in flight are not recalled.
DeleteProvider(p) ==
  /\ p \in configured
  /\ configured' = configured \ {p}
  /\ ForgetProvider(p)
  /\ UNCHANGED call

CreateProvider(p) ==
  /\ p \notin configured
  /\ configured' = configured \union {p}
  /\ UNCHANGED <<memory, database, call>>

-----------------------------------------------------------------------------
Tick ==
  /\ \E k \in Keys : health[k].tripped > 0 \/ rows[k].tripped > 0
  /\ health' = [k \in Keys |-> Elapse(health[k])]
  /\ rows' = [k \in Keys |-> Elapse(rows[k])]
  /\ UNCHANGED <<configured, tracked, stored, call, faults>>

\* The process ends and boots again: attach_engine loads every row.  When the
\* load fails the breaker starts empty.
Restart ==
  /\ call' = [t \in Threads |-> Idle]
  /\ \/ health' = rows /\ tracked' = stored /\ UNCHANGED database
     \/ health' = Empty /\ tracked' = {} /\ DatabaseError
  /\ UNCHANGED configured

Next ==
  \/ \E t \in Threads :
       \/ \E k \in Keys : Admit(t, k)
       \/ Succeed(t)
       \/ \E w \in Weights : Fail(t, w)
       \/ Blameless(t)
  \/ \E k \in Keys :
       \/ ProbeOnly(k)
       \/ Reset(k)
       \/ \E action \in ForceActions : Toggle(k, action)
  \/ \E p \in Providers : DeleteProvider(p) \/ CreateProvider(p)
  \/ Tick
  \/ Restart

\* Time passes; nothing else is promised.
Spec == Init /\ [][Next]_vars /\ WF_vars(Tick)

-----------------------------------------------------------------------------
(* Every entry the breaker may ever work from: in memory, or in a row that a *)
(* restart would load.                                                       *)
Entries == {health[k] : k \in Keys} \union {rows[k] : k \in Keys}

(* record_failure's comment: a dead provider promoted for a probe has a      *)
(* failure count at the threshold already, so a single probe failure, of     *)
(* whatever class, re-trips it to dead.                                      *)
ProbeFailureReturnsToDead ==
  \A h \in Entries : \A w \in Weights :
    h.status = "degraded" /\ h.tripped = NotTripped
      => RecordFailure(h, w).status = "dead"

(* A dead provider without a cooldown is never promoted: only force_status   *)
(* with 'kill' may leave one behind, in memory and on disk.                  *)
OnlyKilledStaysDead ==
  \A h \in Entries :
    h.status = "dead" /\ h.tripped = NotTripped => h.override = "dead"

(* Nothing is held against a provider without a reason that is still on      *)
(* record: enough consecutive failures, or an operator's override.           *)
UnhealthyHasCause ==
  \A h \in Entries :
    h.status # "healthy"
      => \/ h.failures >= FailuresDegraded
         \/ h.failures >= FailuresDead
         \/ h.override # "none"

(* ProviderHealth's docstring: every mutation is written through, so while   *)
(* no database operation has failed a restart would find the table memory    *)
(* holds.                                                                    *)
WriteThrough == faults = 0 => rows = health /\ stored = tracked

(* is_available's ladder: cooldowns promote one level at a time, so a dead   *)
(* entry becomes healthy in one step only with its failures cleared, by a    *)
(* success, a reset or a resume (or because it was deleted).                 *)
LadderStep ==
  \A k \in Keys :
    faults = 0 /\ health[k].status = "dead" /\ health'[k].status = "healthy"
      => health'[k].failures = 0

LadderNotSkipped == [][LadderStep]_vars

(* The operator does not force the state of k for ever.                      *)
LeftAlone(k) ==
  <>[][\A action \in ForceActions : ~Toggle(k, action)]_vars

(* A cooldown ends: a tripped provider is available again, or an operator    *)
(* killed it.  Outcomes of calls that were in flight may postpone this, and  *)
(* so may database errors and restarts, but not for ever.                    *)
CooldownEnds ==
  \A k \in Keys :
    LeftAlone(k) =>
      (health[k].tripped # NotTripped
         ~> IsAvailable(health[k]) \/ health[k].override = "dead")

-----------------------------------------------------------------------------
(* force_status's docstring: 'kill' forces dead indefinitely, manual resume  *)
(* required.  A killed provider stays dead until an operator toggles or      *)
(* resets it, or deletes the provider.                                       *)
KillIsIndefinite ==
  [][\A k \in Keys :
       /\ faults' = 0
       /\ health[k].status = "dead" /\ health[k].override = "dead"
       /\ ~Reset(k)
       /\ \A action \in ForceActions : ~Toggle(k, action)
       /\ Owner[k] \in configured'
       => health'[k].status = "dead"]_vars
=============================================================================

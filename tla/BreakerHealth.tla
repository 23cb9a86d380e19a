--------------------------- MODULE BreakerHealth ---------------------------
(***************************************************************************)
(* The health record the circuit breaker keeps for one                     *)
(* (provider, base_url, profile) key, and what each method of              *)
(* api/circuit_breaker.py does to that record.  Pure operators, shared by  *)
(* every module that drives a breaker.                                     *)
(*                                                                         *)
(* tripped_until is an absolute time in the code and is only ever compared *)
(* with the current time; here `tripped' is the time that is left until    *)
(* it, so a deadline that has passed is 0 and None is NotTripped.          *)
(* Timestamps and failure reasons kept for display are left out.           *)
(***************************************************************************)
EXTENDS Integers

CONSTANTS
  FailuresDegraded,   \* circuit_breaker.failures_degraded
  FailuresDead,       \* circuit_breaker.failures_dead
  DegradedCooldown,   \* circuit_breaker.degraded_cooldown_seconds
  DeadCooldown,       \* circuit_breaker.dead_cooldown_seconds
  FailureCap          \* bound: consecutive_failures saturates here

ASSUME ThresholdAssumption ==
  /\ FailuresDegraded \in Nat \ {0}
  /\ FailuresDead \in Nat \ {0}
  /\ FailureCap \in Nat
  /\ FailureCap >= FailuresDegraded
  /\ FailureCap >= FailuresDead

ASSUME CooldownAssumption ==
  /\ DegradedCooldown \in Nat
  /\ DeadCooldown \in Nat

NotTripped == -1

Statuses == {"healthy", "degraded", "dead"}

Overrides == {"none", "degraded", "dead"}

Cooldowns == {NotTripped} \union (0..DegradedCooldown) \union (0..DeadCooldown)

Health == [status : Statuses, failures : 0..FailureCap,
           tripped : Cooldowns, override : Overrides]

\* _default_health: also what peek() shows of a key that is not tracked.
DefaultHealth ==
  [status |-> "healthy", failures |-> 0, tripped |-> NotTripped,
   override |-> "none"]

\* Both thresholds are at most FailureCap, so no comparison sees the bound.
Saturate(n) == IF n > FailureCap THEN FailureCap ELSE n

\* Mutant: only a dead provider's cooldown ends.
DeadExpired(h) == h.status = "dead" /\ h.tripped = 0

\* The cooldown is over: is_available() promotes the entry and lets a probe by.
Expired(h) == h.status # "healthy" /\ h.tripped = 0

IsAvailable(h) ==
  \/ h.status = "healthy"
  \/ Expired(h)
  \/ h.status = "degraded" /\ h.tripped = NotTripped

\* Mutant: promotion forgets the failures that tripped the breaker.
PromoteForgiven(h) ==
  [status |-> IF h.status = "dead" THEN "degraded" ELSE "healthy",
   failures |-> 0, tripped |-> NotTripped, override |-> h.override]

\* Mutant: promotion skips the probe level.
PromoteToTop(h) ==
  [status |-> "healthy", failures |-> h.failures, tripped |-> NotTripped,
   override |-> h.override]

Promote(h) ==
  [status |-> IF h.status = "dead" THEN "degraded" ELSE "healthy",
   failures |-> h.failures, tripped |-> NotTripped, override |-> h.override]

\* Mutant: a success clears the counters and leaves the status.
RecordSuccessKeepsStatus(h) ==
  [status |-> h.status, failures |-> 0, tripped |-> h.tripped, override |-> "none"]

RecordSuccess(h) ==
  [status |-> "healthy", failures |-> 0, tripped |-> NotTripped,
   override |-> "none"]

\* Mutant: the dead branch sets no cooldown.
RecordFailureUntimed(h, w) ==
  LET n == Saturate(h.failures + w)
  IN  [status |-> IF n >= FailuresDead THEN "dead"
                  ELSE IF n >= FailuresDegraded THEN "degraded" ELSE h.status,
       failures |-> n,
       tripped |-> IF n < FailuresDead /\ n >= FailuresDegraded
                   THEN DegradedCooldown ELSE h.tripped,
       override |-> h.override]

\* Mutant: a new trip extends the deadline instead of replacing it.
RecordFailureExtends(h, w) ==
  LET n == Saturate(h.failures + w)
  IN  [status |-> IF n >= FailuresDead THEN "dead" ELSE h.status,
       failures |-> n,
       tripped |-> IF n >= FailuresDead THEN h.tripped + DeadCooldown ELSE h.tripped,
       override |-> h.override]

\* w is the weight _ERROR_WEIGHTS gives the error's class.
RecordFailure(h, w) ==
  LET n == Saturate(h.failures + w)
      Trip(status, cooldown) ==
        [status |-> status, failures |-> n, tripped |-> cooldown,
         override |-> h.override]
  IN  CASE n >= FailuresDead -> Trip("dead", DeadCooldown)
        [] n < FailuresDead /\ n >= FailuresDegraded
             -> Trip("degraded", DegradedCooldown)
        [] OTHER -> Trip(h.status, h.tripped)

ResetHealth(h) ==
  [status |-> "healthy", failures |-> 0, tripped |-> NotTripped,
   override |-> "none"]

Degrade(h) ==
  [status |-> "degraded", failures |-> h.failures,
   tripped |-> DegradedCooldown, override |-> "degraded"]

Kill(h) ==
  [status |-> "dead", failures |-> h.failures, tripped |-> NotTripped,
   override |-> "dead"]

ForceActions == {"degrade", "kill", "resume"}

ForceStatus(h, action) ==
  CASE action = "degrade" -> Degrade(h)
    [] action = "kill"    -> Kill(h)
    [] action = "resume"  -> ResetHealth(h)

\* One unit of time passes on a stored deadline.
Elapse(h) == [h EXCEPT !.tripped = IF h.tripped > 0 THEN h.tripped - 1 ELSE h.tripped]
=============================================================================

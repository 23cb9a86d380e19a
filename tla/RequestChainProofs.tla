-------------------------- MODULE RequestChainProofs --------------------------
(***************************************************************************)
(* What CircuitBreaker and RequestChain promise for every chain, every set *)
(* of keys, providers, threads, weights and errors, every threshold and    *)
(* cooldown, and every number of attempts and database errors; and what    *)
(* BreakerThreads promises of threads inside the breaker's methods.        *)
(*                                                                         *)
(* The breaker's invariants are not inductive one by one: that a probe     *)
(* failure returns to dead rests on dead entries with a cooldown having    *)
(* reached the dead threshold, and that rests on who may set a cooldown.   *)
(* Sound gathers what one entry must satisfy; every operator of            *)
(* BreakerHealth preserves it, so every action does, in memory and on disk.*)
(*                                                                         *)
(* A request that nobody disturbs still changes the breaker itself: it     *)
(* promotes entries and reports failures, and several of its steps may     *)
(* share one entry.  So what it knows of a step it has passed is stated by *)
(* what its own later steps cannot undo: GivenUp for the entry of a step   *)
(* it did not call, ChanceLeft for the healthy step it was promised.  That *)
(* a probe failure returns an entry to dead is what keeps GivenUp from     *)
(* being undone by the walk.                                               *)
(*                                                                         *)
(* Inside a method of the breaker the row is behind the entry.  What can   *)
(* be said is said field by field: a field that differs is about to be     *)
(* copied by a thread on its way to the commit (RowIsDue), unless a write  *)
(* was late.  A thread that is alone has done so much of its method        *)
(* (Progress) and, when it returns, all of it (Outcome), which is what the *)
(* operators of BreakerHealth do to the entry that was there before.       *)
(***************************************************************************)
EXTENDS RequestChain, BreakerThreads, SelectionProofs

Sound(h) ==
  /\ h.status = "healthy" => h.tripped = NotTripped
  /\ h.status = "dead" /\ h.tripped = NotTripped => h.override = "dead"
  /\ h.status = "dead" /\ h.tripped # NotTripped => h.failures >= FailuresDead
  /\ h.status = "degraded" /\ h.tripped = NotTripped => h.failures >= FailuresDead
  /\ h.status # "healthy" => \/ h.failures >= FailuresDegraded
                             \/ h.failures >= FailuresDead
                             \/ h.override # "none"

IInv ==
  /\ TypeOK
  /\ \A k \in Keys : Sound(health[k])
  /\ \A k \in Keys : Sound(rows[k])
  /\ WriteThrough

-----------------------------------------------------------------------------
(* The entry of an untracked key is a sound one.                            *)
LEMMA DefaultSound == DefaultHealth \in Health /\ Sound(DefaultHealth)
BY ThresholdAssumption
   DEF DefaultHealth, Health, Sound, Statuses, Overrides, Cooldowns, NotTripped

(* is_available's promotion leaves a sound entry.                           *)
LEMMA PromoteSound ==
  ASSUME NEW h \in Health, Sound(h), Expired(h)
  PROVE  Promote(h) \in Health /\ Sound(Promote(h))
BY ThresholdAssumption, CooldownAssumption
   DEF Promote, Expired, Health, Sound, Statuses, Overrides, Cooldowns, NotTripped

(* record_success leaves a sound entry.                                     *)
LEMMA SuccessSound ==
  ASSUME NEW h \in Health
  PROVE  RecordSuccess(h) \in Health /\ Sound(RecordSuccess(h))
BY ThresholdAssumption
   DEF RecordSuccess, Health, Sound, Statuses, Overrides, Cooldowns, NotTripped

(* record_failure leaves a sound entry, whatever the weight of the error.   *)
LEMMA FailureSound ==
  ASSUME NEW h \in Health, Sound(h), NEW w \in Nat \ {0}
  PROVE  RecordFailure(h, w) \in Health /\ Sound(RecordFailure(h, w))
BY ThresholdAssumption, CooldownAssumption
   DEF RecordFailure, Saturate, Health, Sound, Statuses, Overrides, Cooldowns,
       NotTripped

(* reset leaves a sound entry.                                              *)
LEMMA ResetSound ==
  ASSUME NEW h \in Health
  PROVE  ResetHealth(h) \in Health /\ Sound(ResetHealth(h))
BY ThresholdAssumption
   DEF ResetHealth, Health, Sound, Statuses, Overrides, Cooldowns, NotTripped

(* force_status leaves a sound entry, whatever the action.                  *)
LEMMA ForceSound ==
  ASSUME NEW h \in Health, Sound(h), NEW action \in ForceActions
  PROVE  ForceStatus(h, action) \in Health /\ Sound(ForceStatus(h, action))
<1>1. CASE action = "degrade"
  BY <1>1, ThresholdAssumption, CooldownAssumption
     DEF ForceStatus, Degrade, Health, Sound, Statuses, Overrides, Cooldowns,
         NotTripped
<1>2. CASE action = "kill"
  BY <1>2, ThresholdAssumption, CooldownAssumption
     DEF ForceStatus, Kill, Health, Sound, Statuses, Overrides, Cooldowns,
         NotTripped
<1>3. CASE action = "resume"
  BY <1>3, ResetSound DEF ForceStatus
<1> QED BY <1>1, <1>2, <1>3 DEF ForceActions

(* The passage of time leaves a sound entry and changes only its cooldown.  *)
LEMMA ElapseSound ==
  ASSUME NEW h \in Health, Sound(h)
  PROVE  Elapse(h) \in Health /\ Sound(Elapse(h)) /\ Elapse(h).status = h.status
BY ThresholdAssumption, CooldownAssumption
   DEF Elapse, Health, Sound, Statuses, Overrides, Cooldowns, NotTripped

-----------------------------------------------------------------------------
(* Writing a sound entry through to the database preserves what is known of *)
(* memory and of the table, whether or not the write succeeds.              *)
LEMMA UpdateInv ==
  ASSUME IInv, NEW k \in Keys, NEW h \in Health, Sound(h), Update(k, h)
  PROVE  /\ health' \in [Keys -> Health] /\ tracked' \subseteq Keys
         /\ rows' \in [Keys -> Health] /\ stored' \subseteq Keys
         /\ faults' \in 0..MaxFaults
         /\ \A j \in Keys : Sound(health'[j]) /\ Sound(rows'[j])
         /\ WriteThrough'
<1>1. CASE /\ rows' = [rows EXCEPT ![k] = h]
           /\ stored' = stored \union {k}
           /\ UNCHANGED faults
  BY <1>1 DEF IInv, TypeOK, Update, WriteThrough
<1>2. CASE DatabaseError
  <2>1. faults' \in 0..MaxFaults /\ faults' # 0
    BY <1>2, FaultAssumption DEF IInv, TypeOK, DatabaseError
  <2> QED BY <1>2, <2>1 DEF IInv, TypeOK, Update, WriteThrough, DatabaseError
<1> QED BY <1>1, <1>2 DEF Update, Persist

(* is_available preserves it too: it writes, or it changes nothing.          *)
LEMMA CheckInv ==
  ASSUME IInv, NEW k \in Keys, Check(k)
  PROVE  /\ health' \in [Keys -> Health] /\ tracked' \subseteq Keys
         /\ rows' \in [Keys -> Health] /\ stored' \subseteq Keys
         /\ faults' \in 0..MaxFaults
         /\ \A j \in Keys : Sound(health'[j]) /\ Sound(rows'[j])
         /\ WriteThrough'
<1>1. CASE Expired(health[k])
  <2>1. Promote(health[k]) \in Health /\ Sound(Promote(health[k]))
    BY <1>1, PromoteSound DEF IInv, TypeOK
  <2> QED BY <1>1, <2>1, UpdateInv DEF Check
<1>2. CASE ~Expired(health[k])
  BY <1>2 DEF Check, IInv, TypeOK, WriteThrough, memory, database
<1> QED BY <1>1, <1>2

(* Every entry is sound when the program first boots.                       *)
LEMMA InitInv == Init => IInv
<1> SUFFICES ASSUME Init PROVE IInv
  OBVIOUS
<1>1. TypeOK
  BY DefaultSound, FaultAssumption DEF Init, TypeOK, Empty
<1>2. \A k \in Keys : Sound(health[k]) /\ Sound(rows[k])
  BY DefaultSound DEF Init, Empty
<1> QED BY <1>1, <1>2 DEF IInv, Init, WriteThrough

(* Every method, endpoint, tick and restart preserves the invariant.         *)
LEMMA NextInv == IInv /\ [Next]_vars => IInv'
<1> SUFFICES ASSUME IInv, [Next]_vars PROVE IInv'
  OBVIOUS
<1> USE DEF IInv
<1>1. ASSUME NEW t \in Threads, NEW k \in Keys, Admit(t, k) PROVE IInv'
  BY <1>1, CheckInv DEF Admit, TypeOK
<1>2. ASSUME NEW t \in Threads, Succeed(t) PROVE IInv'
  <2>1. call[t] \in Keys
    BY <1>2 DEF Succeed, TypeOK
  <2>2. RecordSuccess(health[call[t]]) \in Health /\ Sound(RecordSuccess(health[call[t]]))
    BY <2>1, SuccessSound DEF TypeOK
  <2> QED BY <1>2, <2>1, <2>2, UpdateInv DEF Succeed, TypeOK
<1>3. ASSUME NEW t \in Threads, NEW w \in Weights, Fail(t, w) PROVE IInv'
  <2>1. call[t] \in Keys /\ w \in Nat \ {0}
    BY <1>3, WeightAssumption DEF Fail, TypeOK
  <2>2. /\ RecordFailure(health[call[t]], w) \in Health
        /\ Sound(RecordFailure(health[call[t]], w))
    BY <2>1, FailureSound DEF TypeOK
  <2> QED BY <1>3, <2>1, <2>2, UpdateInv DEF Fail, TypeOK
<1>4. ASSUME NEW t \in Threads, Blameless(t) PROVE IInv'
  BY <1>4 DEF Blameless, TypeOK, WriteThrough, memory, database
<1>5. ASSUME NEW k \in Keys, ProbeOnly(k) PROVE IInv'
  BY <1>5, CheckInv DEF ProbeOnly, TypeOK
<1>6. ASSUME NEW k \in Keys, Reset(k) PROVE IInv'
  <2>1. ResetHealth(health[k]) \in Health /\ Sound(ResetHealth(health[k]))
    BY ResetSound DEF TypeOK
  <2> QED BY <1>6, <2>1, UpdateInv DEF Reset, TypeOK
<1>7. ASSUME NEW k \in Keys, NEW action \in ForceActions, Toggle(k, action)
      PROVE  IInv'
  <2>1. ForceStatus(health[k], action) \in Health /\ Sound(ForceStatus(health[k], action))
    BY ForceSound DEF TypeOK
  <2> QED BY <1>7, <2>1, UpdateInv DEF Toggle, TypeOK
<1>8. ASSUME NEW p \in Providers, DeleteProvider(p) PROVE IInv'
  <2>1. /\ configured' \subseteq Providers /\ call' = call
        /\ health' \in [Keys -> Health] /\ tracked' \subseteq Keys
        /\ \A j \in Keys : Sound(health'[j])
    BY <1>8, DefaultSound DEF DeleteProvider, ForgetProvider, TypeOK
  <2>2. CASE DatabaseError
    <3>1. faults' \in 0..MaxFaults /\ faults' # 0
      BY <2>2, FaultAssumption DEF TypeOK, DatabaseError
    <3> QED BY <2>1, <2>2, <3>1 DEF DatabaseError, TypeOK, WriteThrough
  <2>3. CASE /\ rows' = [k \in Keys |-> IF Owner[k] = p THEN DefaultHealth ELSE rows[k]]
             /\ stored' = stored \ KeysOf(p)
             /\ UNCHANGED faults
    <3>1. rows' \in [Keys -> Health] /\ \A j \in Keys : Sound(rows'[j])
      BY <2>3, DefaultSound DEF TypeOK
    <3>2. WriteThrough'
      BY <1>8, <2>3 DEF DeleteProvider, ForgetProvider, WriteThrough, TypeOK
    <3> QED BY <2>1, <2>3, <3>1, <3>2 DEF TypeOK
  <2> QED BY <1>8, <2>2, <2>3 DEF DeleteProvider, ForgetProvider
<1>9. ASSUME NEW p \in Providers, CreateProvider(p) PROVE IInv'
  BY <1>9 DEF CreateProvider, TypeOK, WriteThrough, memory, database
<1>10. CASE Tick
  <2>1. /\ health' \in [Keys -> Health] /\ rows' \in [Keys -> Health]
        /\ \A j \in Keys : Sound(health'[j]) /\ Sound(rows'[j])
    BY <1>10, ElapseSound DEF Tick, TypeOK
  <2>2. WriteThrough'
    BY <1>10 DEF Tick, WriteThrough
  <2> QED BY <1>10, <2>1, <2>2 DEF Tick, TypeOK
<1>11. CASE Restart
  <2>1. CASE health' = rows /\ tracked' = stored /\ UNCHANGED database
    BY <1>11, <2>1 DEF Restart, TypeOK, WriteThrough, database
  <2>2. CASE health' = Empty /\ tracked' = {} /\ DatabaseError
    <3>1. faults' \in 0..MaxFaults /\ faults' # 0
      BY <2>2, FaultAssumption DEF TypeOK, DatabaseError
    <3>2. health' \in [Keys -> Health] /\ \A j \in Keys : Sound(health'[j])
      BY <2>2, DefaultSound DEF Empty
    <3> QED BY <1>11, <2>2, <3>1, <3>2
            DEF Restart, DatabaseError, TypeOK, WriteThrough
  <2> QED BY <1>11, <2>1, <2>2 DEF Restart
<1>12. CASE UNCHANGED vars
  BY <1>12 DEF vars, TypeOK, WriteThrough
<1> QED BY <1>1, <1>2, <1>3, <1>4, <1>5, <1>6, <1>7, <1>8, <1>9, <1>10, <1>11, <1>12
        DEF Next

(* The inductive invariant holds in every reachable state.                   *)
THEOREM Invariance == Spec => []IInv
BY InitInv, NextInv, PTL DEF Spec

-----------------------------------------------------------------------------
(* Memory and the provider_health table keep their types, through database   *)
(* errors and restarts.                                                      *)
THEOREM TypeCorrect == Spec => []TypeOK
<1>1. IInv => TypeOK
  BY DEF IInv
<1> QED BY <1>1, Invariance, PTL

(* A provider promoted from dead for a probe returns to dead with one        *)
(* failure, in memory and after any restart.                                 *)
THEOREM ProbeFailure == Spec => []ProbeFailureReturnsToDead
<1>1. IInv => ProbeFailureReturnsToDead
  <2> SUFFICES ASSUME IInv, NEW h \in Entries, NEW w \in Weights,
                      h.status = "degraded", h.tripped = NotTripped
               PROVE  RecordFailure(h, w).status = "dead"
    BY DEF ProbeFailureReturnsToDead
  <2>1. h \in Health /\ h.failures >= FailuresDead
    BY DEF IInv, TypeOK, Entries, Sound
  <2>2. w \in Nat \ {0}
    BY WeightAssumption
  <2> QED BY <2>1, <2>2, ThresholdAssumption
          DEF RecordFailure, Saturate, Health
<1> QED BY <1>1, Invariance, PTL

(* Only an operator's kill leaves a provider dead without a cooldown.        *)
THEOREM OnlyKilled == Spec => []OnlyKilledStaysDead
<1>1. IInv => OnlyKilledStaysDead
  BY DEF IInv, OnlyKilledStaysDead, Entries, Sound
<1> QED BY <1>1, Invariance, PTL

(* A provider that is not healthy has failures or an override on record.     *)
THEOREM Cause == Spec => []UnhealthyHasCause
<1>1. IInv => UnhealthyHasCause
  BY DEF IInv, UnhealthyHasCause, Entries, Sound
<1> QED BY <1>1, Invariance, PTL

(* Until a database operation fails, the table is the memory.                *)
THEOREM Durable == Spec => []WriteThrough
<1>1. IInv => WriteThrough
  BY DEF IInv
<1> QED BY <1>1, Invariance, PTL

-----------------------------------------------------------------------------
(* A write to one entry keeps the ladder when the entry it writes does.      *)
LEMMA UpdateLadder ==
  ASSUME TypeOK, NEW k \in Keys, NEW h, Update(k, h),
         health[k].status = "dead" /\ h.status = "healthy" => h.failures = 0
  PROVE  LadderStep
BY DEF Update, LadderStep, TypeOK

(* A promotion never takes a dead entry to healthy.                          *)
LEMMA CheckLadder ==
  ASSUME TypeOK, NEW k \in Keys, Check(k)
  PROVE  LadderStep
<1>1. CASE Expired(health[k])
  BY <1>1, UpdateLadder DEF Check, Promote
<1>2. CASE ~Expired(health[k])
  BY <1>2 DEF Check, LadderStep, memory
<1> QED BY <1>1, <1>2

(* A dead provider does not become healthy without a success, a reset, a     *)
(* resume or its deletion: cooldowns promote it one level at a time.         *)
THEOREM Ladder == Spec => LadderNotSkipped
<1>1. IInv /\ [Next]_vars => [LadderStep]_vars
  <2> SUFFICES ASSUME IInv, Next PROVE LadderStep
    BY DEF LadderStep
  <2>1. TypeOK /\ WriteThrough
    BY DEF IInv
  <2>2. ASSUME NEW t \in Threads, NEW k \in Keys, Admit(t, k) PROVE LadderStep
    BY <2>1, <2>2, CheckLadder DEF Admit
  <2>3. ASSUME NEW t \in Threads, Succeed(t) PROVE LadderStep
    <3>1. call[t] \in Keys
      BY <2>1, <2>3 DEF Succeed, TypeOK
    <3> QED BY <2>1, <2>3, <3>1, UpdateLadder DEF Succeed, RecordSuccess
  <2>4. ASSUME NEW t \in Threads, NEW w \in Weights, Fail(t, w) PROVE LadderStep
    <3>1. call[t] \in Keys
      BY <2>1, <2>4 DEF Fail, TypeOK
    <3>2. health[call[t]].status = "dead"
            => RecordFailure(health[call[t]], w).status # "healthy"
      BY DEF RecordFailure
    <3> QED BY <2>1, <2>4, <3>1, <3>2, UpdateLadder DEF Fail
  <2>5. ASSUME NEW k \in Keys, ProbeOnly(k) PROVE LadderStep
    BY <2>1, <2>5, CheckLadder DEF ProbeOnly
  <2>6. ASSUME NEW k \in Keys, Reset(k) PROVE LadderStep
    BY <2>1, <2>6, UpdateLadder DEF Reset, ResetHealth
  <2>7. ASSUME NEW k \in Keys, NEW action \in ForceActions, Toggle(k, action)
        PROVE  LadderStep
    <3>1. ForceStatus(health[k], action).status = "healthy"
            => ForceStatus(health[k], action).failures = 0
      BY DEF ForceStatus, ForceActions, Degrade, Kill, ResetHealth
    <3> QED BY <2>1, <2>7, <3>1, UpdateLadder DEF Toggle
  <2>8. ASSUME NEW p \in Providers, DeleteProvider(p) PROVE LadderStep
    BY <2>8 DEF DeleteProvider, ForgetProvider, LadderStep, DefaultHealth
  <2>9. CASE Tick
    <3>1. \A h \in Health : Elapse(h).status = h.status
      BY DEF Elapse, Health
    <3> QED BY <2>1, <2>9, <3>1 DEF Tick, TypeOK, LadderStep
  <2>10. CASE Restart
    BY <2>1, <2>10
       DEF Restart, WriteThrough, LadderStep, Empty, DefaultHealth
  <2>11. ASSUME NEW t \in Threads, Blameless(t) PROVE LadderStep
    BY <2>11 DEF Blameless, memory, LadderStep
  <2>12. ASSUME NEW p \in Providers, CreateProvider(p) PROVE LadderStep
    BY <2>12 DEF CreateProvider, memory, LadderStep
  <2> QED BY <2>2, <2>3, <2>4, <2>5, <2>6, <2>7, <2>8, <2>9, <2>10, <2>11, <2>12
          DEF Next
<1> QED BY <1>1, Invariance, PTL DEF Spec, LadderNotSkipped

-----------------------------------------------------------------------------
Requests ==
  [phase : Phases, chain : Seq(Steps), size : Nat, i : Nat,
   attempt : 0..MaxAttempts, image : BOOLEAN, errors : Seq(Verdicts),
   kept : Seq(Steps), disturbed : BOOLEAN]

\* What the phase of a request says of its position and of its verdicts.
Placed(r) ==
  /\ Len(r.chain) <= Len(Chain) /\ r.i \in 1..(Len(r.chain) + 1)
  /\ r.phase = "route" => Len(r.chain) > 0 /\ Len(r.errors) = 0 /\ Len(r.kept) <= r.i - 1
  /\ r.phase \in {"check", "gate", "call"} => r.i <= Len(r.chain) /\ Len(r.errors) = r.i - 1
  /\ r.phase = "failed" => r.i = Len(r.chain) + 1 /\ Len(r.errors) = Len(r.chain)

\* The breaker entry h[k] of the j-th step.
Entry(r, h, j) == h[KeyOf[r.chain[j]]]

\* An entry the breaker has consented to: healthy, or a probe.
Consented(e) ==
  \/ e.status = "healthy"
  \/ e.status = "degraded" /\ e.tripped = NotTripped

\* An entry that nothing the request itself does can make healthy.
GivenUp(e) == e.status # "healthy" /\ ~(e.status = "degraded" /\ e.tripped = 0)

\* The entry under the request's feet is one it may call, and the last resort.
StandsOn(r, h) ==
  /\ r.phase \in {"gate", "call"} => Consented(Entry(r, h, r.i))
  /\ r.phase = "call" /\ Entry(r, h, r.i).status = "degraded"
       => \A j \in (r.i + 1)..Len(r.chain) : Entry(r, h, j).status # "healthy"

\* Every step the request has passed was tried, or cannot be healthy.
PassedForCause(r, h) ==
  \A j \in 1..Len(r.errors) :
    r.errors[j] \in {"error", "config"} \/ GivenUp(Entry(r, h, j))

\* Once a step was given up, one was tried or a healthy one is still ahead.
ChanceLeft(r, h) ==
  (\E j \in 1..Len(r.errors) : r.errors[j] = "gated")
    => \/ \E j \in 1..Len(r.errors) : r.errors[j] \in {"error", "config"}
       \/ \E j \in r.i..Len(r.chain) : Entry(r, h, j).status = "healthy"

Undisturbed(r, h) ==
  ~r.disturbed =>
    /\ StandsOn(r, h)
    /\ r.phase \in {"check", "gate", "call", "failed"} /\ ~r.image
         => PassedForCause(r, h) /\ ChanceLeft(r, h)

Calling(r) == IF r.phase \in {"gate", "call"} THEN KeyOf[r.chain[r.i]] ELSE Idle

Good(r, h) == r \in Requests /\ Placed(r) /\ Undisturbed(r, h)

ChainInv ==
  /\ IInv
  /\ ops \in 0..MaxOperations
  /\ req \in [Threads -> Requests]
  /\ \A t \in Threads : Good(req[t], health) /\ call[t] = Calling(req[t])

-----------------------------------------------------------------------------
(* A breaker key, or none, is what a request has open.                       *)
LEMMA CallingType ==
  ASSUME NEW r \in Requests, Placed(r)
  PROVE  r.phase \in {"gate", "call"}
           => /\ r.i \in 1..Len(r.chain) /\ r.chain[r.i] \in Steps
              /\ Calling(r) = KeyOf[r.chain[r.i]] /\ Calling(r) \in Keys
BY ChainAssumption DEF Requests, Placed, Calling

(* A request that is marked keeps its place and owes nothing to the breaker. *)
LEMMA MarkedGood ==
  ASSUME NEW r \in Requests, Placed(r), NEW h
  PROVE  /\ Good([r EXCEPT !.disturbed = TRUE], h)
         /\ Calling([r EXCEPT !.disturbed = TRUE]) = Calling(r)
<1> DEFINE d == [r EXCEPT !.disturbed = TRUE]
<1>1. d \in Requests /\ d.disturbed
  BY DEF Requests
<1>2. /\ d.phase = r.phase /\ d.chain = r.chain /\ d.i = r.i
      /\ d.errors = r.errors /\ d.kept = r.kept
  BY DEF Requests
<1> HIDE DEF d
<1>3. Placed(d) /\ Undisturbed(d, h) /\ Calling(d) = Calling(r)
  BY <1>1, <1>2 DEF Placed, Undisturbed, Calling
<1> QED BY <1>1, <1>3 DEF Good, d

(* A request that is idle owes nothing to the breaker.                       *)
LEMMA IdleGood ==
  ASSUME NEW r \in Requests, Placed(r), r.phase = "idle", NEW h
  PROVE  Undisturbed(r, h)
BY DEF Undisturbed, StandsOn

(* The breaker's health table matters to the other requests only when it has *)
(* changed, and then they are marked: what is left to show of a step is that *)
(* it takes the thread's own request to a good one.                          *)
LEMMA BecomeInv ==
  ASSUME ChainInv, IInv', NEW t \in Threads, NEW r,
         Become(t, r), Good(r, health'),
         call' = [call EXCEPT ![t] = Calling(r)]
  PROVE  ChainInv'
<1>1. ops' \in 0..MaxOperations
  BY DEF ChainInv, Become
<1>2. req' = [Mark(t) EXCEPT ![t] = r] /\ Mark(t) = Mark(t)
  BY DEF Become
<1>3. \A u \in Threads : u # t =>
         /\ req'[u] \in {req[u], [req[u] EXCEPT !.disturbed = TRUE]}
         /\ req[u].phase # "idle" /\ health' # health
              => req'[u] = [req[u] EXCEPT !.disturbed = TRUE]
  BY <1>2 DEF Mark
<1>4. req'[t] = r
  BY <1>2 DEF Mark
<1>5. \A u \in Threads : call'[u] = IF u = t THEN Calling(r) ELSE call[u]
  BY DEF ChainInv, IInv, TypeOK
<1>6. ASSUME NEW u \in Threads
      PROVE  Good(req'[u], health') /\ call'[u] = Calling(req'[u])
  <2>1. CASE u = t
    BY <1>4, <1>5, <2>1
  <2>2. ASSUME u # t PROVE Good(req'[u], health') /\ call'[u] = Calling(req'[u])
    <3>1. /\ req[u] \in Requests /\ Placed(req[u]) /\ Undisturbed(req[u], health)
          /\ call[u] = Calling(req[u]) /\ call'[u] = call[u]
      BY <1>5, <2>2 DEF ChainInv, Good
    <3>2. CASE req'[u] = [req[u] EXCEPT !.disturbed = TRUE]
      BY <3>1, <3>2, MarkedGood
    <3>3. CASE req'[u] = req[u] /\ health' = health
      BY <3>1, <3>3 DEF Good
    <3>4. CASE req'[u] = req[u] /\ req[u].phase = "idle"
      BY <3>1, <3>4, IdleGood DEF Good
    <3> QED BY <1>3, <2>2, <3>2, <3>3, <3>4
  <2> QED BY <2>1, <2>2
<1>7. req' \in [Threads -> Requests]
  <2>1. \A u \in Threads : req'[u] \in Requests
    BY <1>6 DEF Good
  <2>2. req' = [u \in Threads |-> req'[u]]
    BY <1>2 DEF Mark
  <2> QED BY <2>1, <2>2
<1> QED BY <1>1, <1>6, <1>7 DEF ChainInv

-----------------------------------------------------------------------------
(* A request that is not walking promises nothing.                           *)
LEMMA RestingGood ==
  ASSUME NEW r \in Requests, NEW p \in Phases,
         p \notin {"route", "check", "gate", "call", "failed"},
         Placed(r), NEW h
  PROVE  /\ Good([r EXCEPT !.phase = p], h)
         /\ Calling([r EXCEPT !.phase = p]) = Idle
<1> DEFINE d == [r EXCEPT !.phase = p]
<1>1. /\ d \in Requests /\ d.phase = p
      /\ d.chain = r.chain /\ d.i = r.i
  BY DEF Requests
<1> HIDE DEF d
<1>2. Placed(d) /\ Undisturbed(d, h) /\ Calling(d) = Idle
  BY <1>1 DEF Placed, Undisturbed, StandsOn, Calling
<1> QED BY <1>1, <1>2 DEF Good, d

(* The handler that waits for a request promises nothing.                    *)
LEMMA NoRequestGood ==
  ASSUME NEW h
  PROVE  NoRequest \in Requests /\ Good(NoRequest, h) /\ Calling(NoRequest) = Idle
<1>1. Len(Chain) \in Nat
  BY ChainAssumption
<1>2. NoRequest \in Requests
  BY ChainAssumption DEF NoRequest, Requests, Phases
<1>3. Placed(NoRequest)
  BY <1>1 DEF NoRequest, Placed
<1>4. Undisturbed(NoRequest, h) /\ Calling(NoRequest) = Idle
  BY DEF NoRequest, Undisturbed, StandsOn, Calling
<1> QED BY <1>2, <1>3, <1>4 DEF Good

(* Passing a step for a reason: the step was tried or given up, and if one   *)
(* was given up for a healthier one, that one is still ahead or one was      *)
(* tried (the end of try_chain's loop body, and its continue statements).    *)
LEMMA PassedGood ==
  ASSUME NEW r \in Requests, Placed(r), r.phase \in {"check", "gate", "call"},
         NEW v \in Verdicts, NEW h,
         ~r.disturbed /\ ~r.image =>
           /\ PassedForCause(r, h)
           /\ v \in {"error", "config"} \/ GivenUp(Entry(r, h, r.i))
           /\ (\E j \in 1..Len(r.errors) : r.errors[j] = "gated") \/ v = "gated"
                => \/ \E j \in 1..Len(r.errors) : r.errors[j] \in {"error", "config"}
                   \/ v \in {"error", "config"}
                   \/ \E j \in (r.i + 1)..Len(r.chain) : Entry(r, h, j).status = "healthy"
  PROVE  Good(Passed(r, v), h) /\ Calling(Passed(r, v)) = Idle
<1> DEFINE d == Passed(r, v)
<1>1. /\ r.errors \in Seq(Verdicts) /\ r.chain \in Seq(Steps)
      /\ Len(r.errors) \in Nat /\ Len(r.chain) \in Nat /\ Len(Chain) \in Nat
      /\ r.i \in Nat
  BY ChainAssumption DEF Requests
<1>2. /\ Append(r.errors, v) \in Seq(Verdicts)
      /\ Len(Append(r.errors, v)) = Len(r.errors) + 1
      /\ Append(r.errors, v)[Len(r.errors) + 1] = v
      /\ \A j \in 1..Len(r.errors) : Append(r.errors, v)[j] = r.errors[j]
  BY <1>1
<1>3. 0 \in 0..MaxAttempts /\ {"check", "failed"} \subseteq Phases
  BY ChainAssumption DEF Phases, Ends
<1>4. /\ d.errors = Append(r.errors, v) /\ d.i = r.i + 1
      /\ d.phase = (IF r.i < Len(r.chain) THEN "check" ELSE "failed")
      /\ d.chain = r.chain /\ d.image = r.image /\ d.disturbed = r.disturbed
  BY DEF Passed, Requests
<1>5. d \in Requests
  <2>1. (IF r.i < Len(r.chain) THEN "check" ELSE "failed") \in Phases /\ r.i + 1 \in Nat
    BY <1>1, <1>3
  <2>2. d = [r EXCEPT !.errors = Append(r.errors, v), !.i = r.i + 1, !.attempt = 0,
                      !.phase = IF r.i < Len(r.chain) THEN "check" ELSE "failed"]
    BY DEF Passed, Requests
  <2> HIDE DEF d
  <2> QED BY <1>2, <1>3, <2>1, <2>2 DEF Requests
<1> HIDE DEF d
<1>6. r.i \in 1..Len(r.chain) /\ Len(r.errors) = r.i - 1
  BY <1>1 DEF Placed
<1>7. Placed(d)
  <2>1. Len(d.errors) = r.i
    BY <1>1, <1>2, <1>4, <1>6
  <2>2. CASE r.i < Len(r.chain)
    <3>1. d.phase = "check" /\ d.i = r.i + 1 /\ d.i \in 1..Len(r.chain)
      BY <1>1, <1>4, <1>6, <2>2
    <3>2. Len(r.chain) <= Len(Chain)
      BY DEF Placed
    <3> QED BY <1>1, <1>4, <2>1, <3>1, <3>2 DEF Placed
  <2>3. CASE r.i >= Len(r.chain)
    BY <1>1, <1>4, <1>6, <2>1, <2>3 DEF Placed
  <2> QED BY <1>1, <2>2, <2>3
<1>8. StandsOn(d, h) /\ Calling(d) = Idle
  BY <1>4 DEF StandsOn, Calling
<1>9. ASSUME ~d.disturbed, ~d.image PROVE PassedForCause(d, h) /\ ChanceLeft(d, h)
  <2>1. \A j : Entry(d, h, j) = Entry(r, h, j)
    BY <1>4 DEF Entry
  <2>2. Len(d.errors) = r.i
    BY <1>1, <1>2, <1>4, <1>6
  <2>3. /\ d.errors[r.i] = v
        /\ \A j \in 1..Len(r.errors) : d.errors[j] = r.errors[j]
    BY <1>1, <1>2, <1>4, <1>6
  <2>4. PassedForCause(d, h)
    BY <1>1, <1>4, <1>6, <1>9, <2>1, <2>2, <2>3 DEF PassedForCause
  <2>5. (\E j \in 1..Len(d.errors) : d.errors[j] = "gated")
          => (\E j \in 1..Len(r.errors) : r.errors[j] = "gated") \/ v = "gated"
    BY <1>1, <1>6, <2>2, <2>3
  <2>6. (\E j \in 1..Len(r.errors) : r.errors[j] \in {"error", "config"})
          \/ v \in {"error", "config"}
          => \E j \in 1..Len(d.errors) : d.errors[j] \in {"error", "config"}
    <3>1. r.i \in 1..Len(d.errors) /\ 1..Len(r.errors) \subseteq 1..Len(d.errors)
      BY <1>1, <1>6, <2>2
    <3>2. CASE v \in {"error", "config"}
      BY <2>3, <3>1, <3>2
    <3>3. ASSUME NEW j \in 1..Len(r.errors), r.errors[j] \in {"error", "config"}
          PROVE  \E k \in 1..Len(d.errors) : d.errors[k] \in {"error", "config"}
      BY <2>3, <3>1, <3>3
    <3> QED BY <3>2, <3>3
  <2>7. (\E j \in (r.i + 1)..Len(r.chain) : Entry(r, h, j).status = "healthy")
          => \E j \in d.i..Len(d.chain) : Entry(d, h, j).status = "healthy"
    BY <1>4, <2>1
  <2>8. ChanceLeft(d, h)
    BY <1>4, <1>9, <2>5, <2>6, <2>7 DEF ChanceLeft
  <2> QED BY <2>4, <2>8
<1>10. Undisturbed(d, h)
  BY <1>8, <1>9 DEF Undisturbed
<1> QED BY <1>5, <1>7, <1>8, <1>10 DEF Good, d

(* The failover event: the step is passed, or the handler crashes on the     *)
(* name of a next step that the router's chain does not have.                *)
LEMMA FailOverGood ==
  ASSUME NEW r \in Requests, Placed(r), r.phase = "call",
         NEW v \in {"error", "config"}, NEW h,
         ~r.disturbed /\ ~r.image => PassedForCause(r, h)
  PROVE  Good(FailOver(r, v), h) /\ Calling(FailOver(r, v)) = Idle
<1>1. CASE r.i < r.size /\ r.i >= Len(r.chain)
  <2>1. "crashed" \in Phases
    BY DEF Phases, Ends
  <2> QED BY <1>1, <2>1, RestingGood DEF FailOver
<1>2. CASE ~(r.i < r.size /\ r.i >= Len(r.chain))
  <2>1. v \in Verdicts
    BY DEF Verdicts
  <2>2. Good(Passed(r, v), h) /\ Calling(Passed(r, v)) = Idle
    BY <2>1, PassedGood
  <2> QED BY <1>2, <2>2 DEF FailOver
<1> QED BY <1>1, <1>2

-----------------------------------------------------------------------------
(* A promotion makes no entry healthy that was given up, and what            *)
(* is_available consents to is an entry it has promoted where it had to.     *)
LEMMA PromotionKept ==
  ASSUME NEW e \in Health, Sound(e)
  PROVE  /\ Expired(e) => e.status # "healthy"
         /\ Expired(e) /\ GivenUp(e) => GivenUp(Promote(e))
         /\ Expired(e) => Consented(Promote(e))
         /\ IsAvailable(e) /\ ~Expired(e) => Consented(e)
         /\ ~IsAvailable(e) => GivenUp(e)
BY DEF Expired, GivenUp, Consented, IsAvailable, Promote, Sound, Health, Statuses,
       NotTripped, Cooldowns

(* A failure makes no entry healthy that was given up: a probe that fails    *)
(* returns it to dead.                                                       *)
LEMMA FailureKept ==
  ASSUME NEW e \in Health, Sound(e), Consented(e), NEW w \in Weights
  PROVE  GivenUp(e) => GivenUp(RecordFailure(e, w))
<1>1. w \in Nat \ {0}
  BY WeightAssumption
<1> QED BY <1>1, ThresholdAssumption
        DEF GivenUp, Consented, RecordFailure, Saturate, Sound, Health, Statuses,
            NotTripped, Cooldowns

(* What the invariant says of one thread's request.                          *)
LEMMA OwnRequest ==
  ASSUME ChainInv, NEW t \in Threads
  PROVE  /\ req[t] \in Requests /\ Placed(req[t]) /\ Undisturbed(req[t], health)
         /\ call[t] = Calling(req[t])
         /\ health \in [Keys -> Health] /\ call \in [Threads -> Keys \union {Idle}]
         /\ \A k \in Keys : Sound(health[k])
         /\ Len(req[t].chain) \in Nat /\ Len(req[t].errors) \in Nat /\ req[t].i \in Nat
BY DEF ChainInv, Good, IInv, TypeOK, Requests

(* The step a request stands on is one of its chain, and its key a breaker   *)
(* key.                                                                      *)
LEMMA OwnKey ==
  ASSUME ChainInv, NEW t \in Threads, NEW j \in 1..Len(req[t].chain)
  PROVE  /\ req[t].chain[j] \in Steps /\ KeyOf[req[t].chain[j]] \in Keys
         /\ Entry(req[t], health, j) = health[KeyOf[req[t].chain[j]]]
         /\ Entry(req[t], health, j) \in Health
BY OwnRequest, ChainAssumption DEF Requests, Entry

(* Where a walking request stands.                                           *)
LEMMA OwnStep ==
  ASSUME ChainInv, NEW t \in Threads, req[t].phase \in {"check", "gate", "call"}
  PROVE  /\ req[t].i \in 1..Len(req[t].chain) /\ Len(req[t].errors) = req[t].i - 1
         /\ Key(t) \in Keys /\ Entry(req[t], health, req[t].i) = health[Key(t)]
<1>1. req[t].i \in 1..Len(req[t].chain) /\ Len(req[t].errors) = req[t].i - 1
  BY OwnRequest DEF Placed
<1> QED BY <1>1, OwnKey DEF Key, Step

(* A thread that leaves the breaker alone while its request waits or walks   *)
(* on: its call stays what it was.                                           *)
LEMMA QuietInv ==
  ASSUME ChainInv, NEW t \in Threads, NEW r,
         UNCHANGED vars, Become(t, r), Good(r, health), Calling(r) = Calling(req[t])
  PROVE  ChainInv'
<1>1. IInv' /\ health' = health
  <2>1. IInv /\ [Next]_vars
    BY DEF ChainInv
  <2> QED BY <2>1, NextInv DEF vars
<1>2. call' = [call EXCEPT ![t] = Calling(r)]
  BY OwnRequest DEF vars
<1> QED BY <1>1, <1>2, BecomeInv

(* A thread that closes its call without a verdict.                          *)
LEMMA BlamelessInv ==
  ASSUME ChainInv, NEW t \in Threads, NEW r,
         Blameless(t), Become(t, r), Good(r, health), Calling(r) = Idle
  PROVE  ChainInv'
<1>1. IInv' /\ health' = health
  <2>1. IInv /\ [Next]_vars
    BY DEF ChainInv, Next
  <2> QED BY <2>1, NextInv DEF Blameless, memory
<1>2. call' = [call EXCEPT ![t] = Calling(r)]
  BY DEF Blameless
<1> QED BY <1>1, <1>2, BecomeInv

-----------------------------------------------------------------------------
(* A request enters the walk with a chain that has steps, at its head.       *)
LEMMA HeadGood ==
  ASSUME NEW r \in Requests, NEW h,
         Len(r.chain) \in 1..Len(Chain), r.i = 1, r.errors = <<>>,
         r.phase = "check" \/ (r.phase = "route" /\ r.kept = <<>>)
  PROVE  Good(r, h) /\ Calling(r) = Idle
<1>1. Len(r.errors) = 0 /\ Len(r.chain) \in Nat /\ Len(Chain) \in Nat
  BY ChainAssumption DEF Requests
<1>2. r.phase = "route" => Len(r.kept) = 0
  OBVIOUS
<1>3. Placed(r)
  BY <1>1, <1>2 DEF Placed
<1>4. Undisturbed(r, h) /\ Calling(r) = Idle
  BY <1>1 DEF Undisturbed, StandsOn, PassedForCause, ChanceLeft, Calling
<1> QED BY <1>3, <1>4 DEF Good

(* A request that starts finds what is left of the profile's chain.          *)
LEMMA StartInv ==
  ASSUME ChainInv, NEW t \in Threads, NEW mode \in Modes, Start(t, mode)
  PROVE  ChainInv'
<1> DEFINE r == [NoRequest EXCEPT
                   !.phase = IF mode.dynamic THEN "route" ELSE "check",
                   !.chain = ConfiguredChain, !.size = Len(ConfiguredChain),
                   !.image = mode.image]
<1>1. /\ ConfiguredChain \in Seq(Steps) /\ Len(ConfiguredChain) \in Nat
      /\ Len(ConfiguredChain) <= Len(Chain)
  <2>1. Chain \in Seq(Steps)
    BY ChainAssumption
  <2>2. {j \in DOMAIN Chain : Owner[KeyOf[Chain[j]]] \in configured} \subseteq DOMAIN Chain
    OBVIOUS
  <2> QED BY <2>1, <2>2, SelectedType DEF ConfiguredChain
<1>2. Len(ConfiguredChain) \in 1..Len(Chain)
  <2>1. ConfiguredChain # <<>>
    BY DEF Start
  <2>2. Len(ConfiguredChain) # 0
    BY <1>1, <2>1
  <2> QED BY <1>1, <2>2, ChainAssumption
<1>3. mode.image \in BOOLEAN /\ (IF mode.dynamic THEN "route" ELSE "check") \in Phases
  BY ChainAssumption DEF Phases
<1>4. /\ r \in Requests /\ r.chain = ConfiguredChain /\ r.i = 1 /\ r.errors = <<>>
      /\ r.kept = <<>> /\ r.phase \in {"route", "check"}
  BY <1>1, <1>3, NoRequestGood DEF NoRequest, Requests
<1>5. UNCHANGED vars /\ Become(t, r) /\ Calling(req[t]) = Idle
  BY DEF Start, Walking, Calling
<1> HIDE DEF r
<1>6. Good(r, health) /\ Calling(r) = Idle
  BY <1>1, <1>2, <1>4, HeadGood
<1> QED BY <1>5, <1>6, QuietInv

(* A chain of deleted providers is answered with an internal error.          *)
LEMMA StartWithoutChainInv ==
  ASSUME ChainInv, NEW t \in Threads, StartWithoutChain(t)
  PROVE  ChainInv'
<1>1. UNCHANGED vars /\ Become(t, [NoRequest EXCEPT !.phase = "no_chain"])
      /\ Calling(req[t]) = Idle
  BY DEF StartWithoutChain, Walking, Calling
<1>2. "no_chain" \in Phases
  BY DEF Phases, Ends
<1>3. NoRequest \in Requests /\ Placed(NoRequest)
  BY NoRequestGood DEF Good
<1> QED BY <1>1, <1>2, <1>3, RestingGood, QuietInv

(* The router asks is_available of a step: an entry may be promoted, and the *)
(* request holds no call.                                                    *)
LEMMA RouterProbeInv ==
  ASSUME ChainInv, NEW t \in Threads, RouterProbe(t)
  PROVE  ChainInv'
<1> DEFINE kept == IF IsAvailable(health[Key(t)])
                   THEN Append(req[t].kept, Step(t)) ELSE req[t].kept
           r == [req[t] EXCEPT !.i = @ + 1, !.kept = kept]
<1>1. /\ req[t].phase = "route" /\ req[t].i <= Len(req[t].chain)
      /\ req[t] \in Requests /\ Placed(req[t])
      /\ call[t] = Calling(req[t]) /\ Calling(req[t]) = Idle
      /\ req[t].i \in Nat /\ Len(req[t].chain) \in Nat
  BY OwnRequest DEF RouterProbe, Walking, Calling
<1>2. req[t].i \in 1..Len(req[t].chain) /\ Len(req[t].kept) <= req[t].i - 1
      /\ Len(req[t].errors) = 0 /\ Len(req[t].chain) <= Len(Chain)
  BY <1>1 DEF Placed
<1>3. Step(t) \in Steps /\ Key(t) \in Keys
  BY <1>2, OwnKey DEF Step, Key
<1>4. kept \in Seq(Steps) /\ Len(kept) <= req[t].i
  <2>1. req[t].kept \in Seq(Steps) /\ Len(req[t].kept) \in Nat
    BY <1>1 DEF Requests
  <2>2. /\ Append(req[t].kept, Step(t)) \in Seq(Steps)
        /\ Len(Append(req[t].kept, Step(t))) = Len(req[t].kept) + 1
    BY <1>3, <2>1
  <2> QED BY <1>1, <1>2, <2>1, <2>2
<1>5. Become(t, r)
  BY DEF RouterProbe
<1> HIDE DEF kept
<1>6. /\ r \in Requests /\ r.phase = "route" /\ r.chain = req[t].chain
      /\ r.errors = req[t].errors /\ r.i = req[t].i + 1 /\ r.kept = kept
  <2>1. req[t].i + 1 \in Nat
    BY <1>1
  <2> QED BY <1>1, <1>4, <2>1 DEF Requests
<1> HIDE DEF r
<1>7. Placed(r)
  <2>1. Len(r.kept) <= r.i - 1
    BY <1>1, <1>4, <1>6
  <2> QED BY <1>1, <1>2, <1>6, <2>1 DEF Placed
<1>8. Good(r, health') /\ Calling(r) = Idle
  BY <1>6, <1>7 DEF Good, Undisturbed, StandsOn, Calling
<1>9. [Next]_vars /\ call' = call
  BY <1>3 DEF RouterProbe, Next, ProbeOnly, vars
<1>10. IInv'
  BY <1>9, NextInv DEF ChainInv
<1>11. call' = [call EXCEPT ![t] = Calling(r)]
  BY <1>1, <1>8, <1>9, OwnRequest
<1> QED BY <1>5, <1>8, <1>10, <1>11, BecomeInv

(* The static chain stands.                                                  *)
LEMMA RouterKeepsInv ==
  ASSUME ChainInv, NEW t \in Threads, RouterKeeps(t)
  PROVE  ChainInv'
<1> DEFINE r == [req[t] EXCEPT !.phase = "check", !.i = 1, !.kept = <<>>]
<1>1. /\ req[t].phase = "route" /\ req[t] \in Requests
      /\ Placed(req[t]) /\ Calling(req[t]) = Idle
      /\ Become(t, r) /\ UNCHANGED vars
  BY OwnRequest DEF RouterKeeps, Walking, Calling
<1>2. /\ req[t].chain \in Seq(Steps) /\ Len(req[t].chain) \in 1..Len(Chain)
      /\ req[t].errors = <<>>
  <2>1. Len(req[t].errors) = 0 /\ Len(req[t].chain) > 0 /\ Len(req[t].chain) <= Len(Chain)
    BY <1>1 DEF Placed
  <2>2. req[t].errors \in Seq(Verdicts) /\ req[t].chain \in Seq(Steps)
    BY <1>1 DEF Requests
  <2> QED BY <2>1, <2>2, ChainAssumption
<1>3. /\ r \in Requests /\ r.phase = "check" /\ r.chain = req[t].chain
      /\ r.i = 1 /\ r.errors = <<>> /\ r.kept = <<>>
  <2>1. "check" \in Phases /\ 1 \in Nat /\ <<>> \in Seq(Steps)
    BY DEF Phases
  <2> QED BY <1>1, <1>2, <2>1 DEF Requests
<1> HIDE DEF r
<1>4. Good(r, health) /\ Calling(r) = Idle
  BY <1>2, <1>3, HeadGood
<1> QED BY <1>1, <1>4, QuietInv

(* The router's chain is made of steps that were available, each once.       *)
LEMMA RouterReordersInv ==
  ASSUME ChainInv, NEW t \in Threads, RouterReorders(t)
  PROVE  ChainInv'
<1> DEFINE steps == {req[t].kept[j] : j \in DOMAIN req[t].kept}
<1>1. PICK c \in Arrangements(steps) :
        Become(t, [req[t] EXCEPT !.phase = "check", !.i = 1, !.kept = <<>>, !.chain = c])
  BY DEF RouterReorders
<1> DEFINE r == [req[t] EXCEPT !.phase = "check", !.i = 1, !.kept = <<>>, !.chain = c]
<1>2. /\ req[t].phase = "route" /\ req[t].i = Len(req[t].chain) + 1
      /\ req[t] \in Requests /\ Calling(req[t]) = Idle /\ UNCHANGED vars
      /\ Len(req[t].kept) <= req[t].i - 1 /\ Len(req[t].chain) <= Len(Chain)
      /\ Len(req[t].errors) = 0
  <2>1. req[t].phase = "route" /\ req[t].i > Len(req[t].chain) /\ UNCHANGED vars
    BY DEF RouterReorders, Walking
  <2> QED BY <2>1, OwnRequest DEF Placed, Calling
<1>3. /\ req[t].kept \in Seq(Steps) /\ Len(req[t].kept) \in Nat
      /\ req[t].errors = <<>> /\ Len(req[t].chain) \in Nat
  <2>1. req[t].errors \in Seq(Verdicts) /\ req[t].chain \in Seq(Steps)
        /\ req[t].kept \in Seq(Steps)
    BY <1>2 DEF Requests
  <2> QED BY <1>2, <2>1
<1>4. steps \subseteq Steps
  BY <1>3
<1>5. IsFiniteSet(steps) /\ Cardinality(steps) \in Nat /\ Cardinality(steps) <= Len(req[t].kept)
  <2> DEFINE f == [j \in 1..Len(req[t].kept) |-> req[t].kept[j]]
  <2>1. f \in [1..Len(req[t].kept) -> steps] /\ \A s \in steps : \E j \in 1..Len(req[t].kept) : f[j] = s
    BY <1>3
  <2> HIDE DEF f, steps
  <2>2. f \in Surjection(1..Len(req[t].kept), steps)
    BY <2>1, Fun_IsSurj
  <2>3. IsFiniteSet(1..Len(req[t].kept)) /\ Cardinality(1..Len(req[t].kept)) = Len(req[t].kept)
    BY <1>3, IntervalCardinality
  <2> QED BY <2>2, <2>3, FS_Surjection, FS_CardinalityType
<1>6. PICK n \in 1..Cardinality(steps) : c \in [1..n -> steps]
  <2> HIDE DEF steps
  <2> QED BY <1>1 DEF Arrangements
<1> HIDE DEF steps
<1>7. c \in Seq(Steps) /\ Len(c) \in 1..Len(Chain)
  <2>1. n \in Nat /\ c \in [1..n -> Steps]
    BY <1>4, <1>5, <1>6
  <2>2. c \in Seq(Steps) /\ Len(c) = n
    BY <2>1
  <2>3. n <= Len(Chain)
    BY <1>2, <1>3, <1>5, <1>6, ChainAssumption
  <2> QED BY <1>6, <2>2, <2>3, ChainAssumption
<1>8. /\ r \in Requests /\ r.phase = "check" /\ r.chain = c
      /\ r.i = 1 /\ r.errors = <<>> /\ r.kept = <<>>
  <2>1. "check" \in Phases /\ 1 \in Nat /\ <<>> \in Seq(Steps)
    BY DEF Phases
  <2> QED BY <1>2, <1>3, <1>7, <2>1 DEF Requests
<1>9. Become(t, r)
  BY <1>1
<1> HIDE DEF r
<1>10. Good(r, health) /\ Calling(r) = Idle
  BY <1>7, <1>8, HeadGood
<1> QED BY <1>2, <1>9, <1>10, QuietInv

-----------------------------------------------------------------------------
(* What an undisturbed text request knows of the steps behind and ahead.     *)
LEMMA OwnKnowledge ==
  ASSUME ChainInv, NEW t \in Threads, req[t].phase \in {"check", "gate", "call"},
         ~req[t].disturbed, ~req[t].image
  PROVE  PassedForCause(req[t], health) /\ ChanceLeft(req[t], health)
BY OwnRequest DEF Undisturbed

(* A step whose model takes no images is passed over by an image request,    *)
(* which is promised nothing.                                                *)
LEMMA SkipVisionInv ==
  ASSUME ChainInv, NEW t \in Threads, SkipVision(t)
  PROVE  ChainInv'
<1> DEFINE r == Passed(req[t], "no_vision")
<1>1. /\ req[t].phase = "check" /\ req[t].image /\ UNCHANGED vars /\ Become(t, r)
      /\ req[t] \in Requests /\ Placed(req[t]) /\ Calling(req[t]) = Idle
  BY OwnRequest DEF SkipVision, Walking, NoVision, Calling
<1>2. "no_vision" \in Verdicts
  BY DEF Verdicts
<1>3. Good(r, health) /\ Calling(r) = Idle
  BY <1>1, <1>2, PassedGood
<1> HIDE DEF r
<1> QED BY <1>1, <1>3, QuietInv

(* A step the breaker refuses was given up: no step of this request can make *)
(* its entry healthy, and it was not the one the request was promised.       *)
LEMMA SkipOpenInv ==
  ASSUME ChainInv, NEW t \in Threads, SkipOpen(t)
  PROVE  ChainInv'
<1> DEFINE r == Passed(req[t], "open")
<1>1. /\ req[t].phase = "check" /\ ~IsAvailable(health[Key(t)])
      /\ UNCHANGED vars /\ Become(t, r)
      /\ req[t] \in Requests /\ Placed(req[t]) /\ Calling(req[t]) = Idle
  BY OwnRequest DEF SkipOpen, Walking, Calling
<1>2. "open" \in Verdicts
  BY DEF Verdicts
<1>3. /\ GivenUp(Entry(req[t], health, req[t].i))
      /\ Entry(req[t], health, req[t].i).status # "healthy"
  <2>1. Key(t) \in Keys /\ Entry(req[t], health, req[t].i) = health[Key(t)]
    BY <1>1, OwnStep
  <2>2. GivenUp(health[Key(t)])
    BY <1>1, <2>1, OwnRequest, PromotionKept
  <2> QED BY <2>1, <2>2 DEF GivenUp
<1>4. ASSUME ~req[t].disturbed, ~req[t].image
      PROVE  /\ PassedForCause(req[t], health)
             /\ (\E j \in 1..Len(req[t].errors) : req[t].errors[j] = "gated")
                  => \/ \E j \in 1..Len(req[t].errors) : req[t].errors[j] \in {"error", "config"}
                     \/ \E j \in (req[t].i + 1)..Len(req[t].chain) :
                          Entry(req[t], health, j).status = "healthy"
  <2>1. PassedForCause(req[t], health) /\ ChanceLeft(req[t], health)
    BY <1>1, <1>4, OwnKnowledge
  <2>2. ASSUME NEW j \in req[t].i..Len(req[t].chain),
               Entry(req[t], health, j).status = "healthy"
        PROVE  j \in (req[t].i + 1)..Len(req[t].chain)
    BY <1>3, <2>2, OwnRequest
  <2> QED BY <2>1, <2>2 DEF ChanceLeft
<1>5. Good(r, health) /\ Calling(r) = Idle
  BY <1>1, <1>2, <1>3, <1>4, PassedGood
<1> HIDE DEF r
<1> QED BY <1>1, <1>5, QuietInv

(* A degraded step that is given up leaves a healthy one ahead.              *)
LEMMA SkipDegradedInv ==
  ASSUME ChainInv, NEW t \in Threads, SkipDegraded(t)
  PROVE  ChainInv'
<1> DEFINE r == Passed(req[t], "gated")
<1>1. /\ req[t].phase = "gate" /\ Gated(t) /\ Blameless(t) /\ Become(t, r)
      /\ req[t] \in Requests /\ Placed(req[t]) /\ Undisturbed(req[t], health)
  BY OwnRequest DEF SkipDegraded, Walking
<1>2. "gated" \in Verdicts
  BY DEF Verdicts
<1>3. ASSUME ~req[t].disturbed, ~req[t].image
      PROVE  /\ PassedForCause(req[t], health)
             /\ GivenUp(Entry(req[t], health, req[t].i))
             /\ \E j \in (req[t].i + 1)..Len(req[t].chain) :
                  Entry(req[t], health, j).status = "healthy"
  <2>1. PassedForCause(req[t], health)
    BY <1>1, <1>3, OwnKnowledge
  <2>2. Consented(Entry(req[t], health, req[t].i))
    BY <1>1, <1>3 DEF Undisturbed, StandsOn
  <2>3. Entry(req[t], health, req[t].i).status = "degraded"
    BY <1>1, OwnStep DEF Gated
  <2>4. GivenUp(Entry(req[t], health, req[t].i))
    BY <2>2, <2>3 DEF Consented, GivenUp, NotTripped
  <2> QED BY <1>1, <2>1, <2>4 DEF Gated, HasHealthyAlternative, Entry
<1>4. Good(r, health) /\ Calling(r) = Idle
  BY <1>1, <1>2, <1>3, PassedGood
<1> HIDE DEF r
<1> QED BY <1>1, <1>4, BlamelessInv

(* The breaker's consent: the entry is healthy, or a probe from now on; what *)
(* was given up stays so and what was healthy stays so.                      *)
LEMMA PassBreakerInv ==
  ASSUME ChainInv, NEW t \in Threads, PassBreaker(t)
  PROVE  ChainInv'
<1> DEFINE r == [req[t] EXCEPT !.phase = "gate"]
<1>1. /\ req[t].phase = "check" /\ Admit(t, Key(t)) /\ Become(t, r)
      /\ req[t] \in Requests /\ Placed(req[t]) /\ Undisturbed(req[t], health)
      /\ health \in [Keys -> Health] /\ \A k \in Keys : Sound(health[k])
  BY OwnRequest DEF PassBreaker, Walking
<1>2. /\ Key(t) \in Keys /\ req[t].i \in 1..Len(req[t].chain)
      /\ Len(req[t].errors) = req[t].i - 1
      /\ Len(req[t].chain) \in Nat /\ req[t].i \in Nat
  BY <1>1, OwnStep, OwnRequest
<1>3. \A k \in Keys :
        health'[k] = IF k = Key(t) /\ Expired(health[k]) THEN Promote(health[k]) ELSE health[k]
  BY <1>1, <1>2 DEF Admit, Check, Update, memory
<1>4. /\ Consented(health'[Key(t)])
      /\ \A k \in Keys : GivenUp(health[k]) => GivenUp(health'[k])
      /\ \A k \in Keys : health[k].status = "healthy" => health'[k].status = "healthy"
  BY <1>1, <1>2, <1>3, PromotionKept DEF Admit
<1>5. \A j \in 1..Len(req[t].chain) : KeyOf[req[t].chain[j]] \in Keys
  BY OwnKey
<1>6. /\ r \in Requests /\ r.phase = "gate" /\ r.chain = req[t].chain /\ r.i = req[t].i
      /\ r.errors = req[t].errors /\ r.image = req[t].image
      /\ r.disturbed = req[t].disturbed
  BY <1>1 DEF Requests, Phases
<1> HIDE DEF r
<1>7. Placed(r)
  BY <1>1, <1>2, <1>6 DEF Placed
<1>8. StandsOn(r, health')
  BY <1>4, <1>6 DEF StandsOn, Entry, Key, Step
<1>9. ASSUME ~r.disturbed, ~r.image
      PROVE  PassedForCause(r, health') /\ ChanceLeft(r, health')
  <2>1. PassedForCause(req[t], health) /\ ChanceLeft(req[t], health)
    BY <1>1, <1>6, <1>9, OwnKnowledge
  <2>2. 1..Len(r.errors) \subseteq 1..Len(r.chain) /\ r.i..Len(r.chain) \subseteq 1..Len(r.chain)
    BY <1>2, <1>6
  <2>3. PassedForCause(r, health')
    BY <1>4, <1>5, <1>6, <2>1, <2>2 DEF PassedForCause, Entry
  <2>4. ChanceLeft(r, health')
    BY <1>4, <1>5, <1>6, <2>1, <2>2 DEF ChanceLeft, Entry
  <2> QED BY <2>3, <2>4
<1>10. Good(r, health')
  BY <1>6, <1>7, <1>8, <1>9 DEF Good, Undisturbed
<1>11. call' = [call EXCEPT ![t] = Calling(r)]
  BY <1>1, <1>6 DEF Admit, Calling, Key, Step
<1>12. IInv'
  <2>1. IInv /\ [Next]_vars
    BY <1>1, <1>2 DEF ChainInv, Next
  <2> QED BY <2>1, NextInv
<1> QED BY <1>1, <1>10, <1>11, <1>12, BecomeInv

(* The call is made: the step is healthy, or no healthy step is ahead.       *)
LEMMA ForwardInv ==
  ASSUME ChainInv, NEW t \in Threads, Forward(t)
  PROVE  ChainInv'
<1> DEFINE r == [req[t] EXCEPT !.phase = "call", !.attempt = 1]
<1>1. /\ req[t].phase = "gate" /\ ~Gated(t) /\ UNCHANGED vars /\ Become(t, r)
      /\ req[t] \in Requests /\ Placed(req[t]) /\ Undisturbed(req[t], health)
  BY OwnRequest DEF Forward, Walking
<1>2. "call" \in Phases /\ 1 \in 0..MaxAttempts
  BY ChainAssumption DEF Phases
<1>3. /\ r \in Requests /\ r.phase = "call" /\ r.chain = req[t].chain /\ r.i = req[t].i
      /\ r.errors = req[t].errors /\ r.image = req[t].image
      /\ r.disturbed = req[t].disturbed
  BY <1>1, <1>2 DEF Requests
<1> HIDE DEF r
<1>4. Placed(r) /\ Calling(r) = Calling(req[t])
  BY <1>1, <1>3 DEF Placed, Calling
<1>5. \A j : Entry(r, health, j) = Entry(req[t], health, j)
  BY <1>3 DEF Entry
<1>6. Entry(r, health, r.i).status = "degraded"
        => \A j \in (r.i + 1)..Len(r.chain) : Entry(r, health, j).status # "healthy"
  <2>1. Entry(r, health, r.i) = health[Key(t)]
    BY <1>1, <1>3, <1>5, OwnStep
  <2> QED BY <1>1, <1>3, <2>1 DEF Gated, HasHealthyAlternative, Entry
<1>7. ~r.disturbed => StandsOn(r, health)
  BY <1>1, <1>3, <1>5, <1>6 DEF Undisturbed, StandsOn
<1>8. ~r.disturbed /\ ~r.image => PassedForCause(r, health) /\ ChanceLeft(r, health)
  BY <1>1, <1>3, <1>5, OwnKnowledge DEF PassedForCause, ChanceLeft
<1>9. Good(r, health)
  BY <1>3, <1>4, <1>7, <1>8 DEF Good, Undisturbed
<1> QED BY <1>1, <1>4, <1>9, QuietInv

-----------------------------------------------------------------------------
(* An attempt more changes nothing but the count.                            *)
LEMMA RetryInv ==
  ASSUME ChainInv, NEW t \in Threads, Retry(t)
  PROVE  ChainInv'
<1> DEFINE r == [req[t] EXCEPT !.attempt = @ + 1]
<1>1. /\ req[t].phase = "call" /\ req[t].attempt < MaxAttempts
      /\ UNCHANGED vars /\ Become(t, r)
      /\ req[t] \in Requests /\ Placed(req[t]) /\ Undisturbed(req[t], health)
  BY OwnRequest DEF Retry, Walking
<1>2. req[t].attempt + 1 \in 0..MaxAttempts
  BY <1>1, ChainAssumption DEF Requests
<1>3. /\ r \in Requests /\ r.phase = "call" /\ r.chain = req[t].chain /\ r.i = req[t].i
      /\ r.errors = req[t].errors /\ r.image = req[t].image
      /\ r.disturbed = req[t].disturbed
  BY <1>1, <1>2 DEF Requests
<1> HIDE DEF r
<1>4. Placed(r) /\ Calling(r) = Calling(req[t])
  BY <1>1, <1>3 DEF Placed, Calling
<1>5. \A j : Entry(r, health, j) = Entry(req[t], health, j)
  BY <1>3 DEF Entry
<1>6. ~r.disturbed => StandsOn(r, health)
  BY <1>1, <1>3, <1>5 DEF Undisturbed, StandsOn
<1>7. ~r.disturbed /\ ~r.image => PassedForCause(r, health) /\ ChanceLeft(r, health)
  BY <1>1, <1>3, <1>5, OwnKnowledge DEF PassedForCause, ChanceLeft
<1>8. Good(r, health)
  BY <1>3, <1>4, <1>6, <1>7 DEF Good, Undisturbed
<1> QED BY <1>1, <1>4, <1>8, QuietInv

(* A request that is served, rejected, or ends in an exception no clause     *)
(* names closes its call.                                                    *)
LEMMA EndingInv ==
  ASSUME ChainInv, NEW t \in Threads, Serve(t) \/ BadRequest(t) \/ Unclassified(t)
  PROVE  ChainInv'
<1>1. PICK p \in {"served", "rejected", "unclassified"} :
        Become(t, [req[t] EXCEPT !.phase = p])
  BY DEF Serve, BadRequest, Unclassified
<1> DEFINE r == [req[t] EXCEPT !.phase = p]
<1>2. /\ Succeed(t) \/ Blameless(t)
      /\ call' = [call EXCEPT ![t] = Idle]
  BY DEF Serve, BadRequest, Unclassified, Succeed, Blameless
<1>3. IInv'
  <2>1. IInv /\ [Next]_vars
    BY <1>2 DEF ChainInv, Next
  <2> QED BY <2>1, NextInv
<1>4. Good(r, health') /\ Calling(r) = Idle
  <2>1. req[t] \in Requests /\ Placed(req[t]) /\ p \in Phases
    BY OwnRequest DEF Phases, Ends
  <2> QED BY <2>1, RestingGood
<1> HIDE DEF r
<1>5. Become(t, r)
  BY <1>1 DEF r
<1> QED BY <1>2, <1>3, <1>4, <1>5, BecomeInv

(* A provider's failure counts against the entry that was called, and makes  *)
(* none healthy that was given up; the step counts as tried.                 *)
LEMMA ProviderFailsInv ==
  ASSUME ChainInv, NEW t \in Threads, NEW e \in Errors, ProviderFails(t, e)
  PROVE  ChainInv'
<1> DEFINE r == FailOver(req[t], "error")
<1>1. /\ req[t].phase = "call" /\ Fail(t, e.w) /\ Become(t, r)
      /\ req[t] \in Requests /\ Placed(req[t]) /\ Undisturbed(req[t], health)
      /\ health \in [Keys -> Health] /\ \A k \in Keys : Sound(health[k])
  BY OwnRequest DEF ProviderFails, Walking
<1>2. /\ Key(t) \in Keys /\ req[t].i \in 1..Len(req[t].chain)
      /\ Len(req[t].errors) = req[t].i - 1
      /\ Len(req[t].chain) \in Nat /\ req[t].i \in Nat
      /\ Entry(req[t], health, req[t].i) = health[Key(t)]
      /\ call[t] = Key(t)
  BY <1>1, OwnStep, OwnRequest DEF Calling, Key, Step
<1>3. e.w \in Weights
  BY ChainAssumption
<1>4. \A k \in Keys :
        health'[k] = IF k = Key(t) THEN RecordFailure(health[k], e.w) ELSE health[k]
  BY <1>1, <1>2 DEF Fail, Update
<1>5. ASSUME ~req[t].disturbed, ~req[t].image PROVE PassedForCause(req[t], health')
  <2>1. PassedForCause(req[t], health)
    BY <1>1, <1>5, OwnKnowledge
  <2>2. Consented(health[Key(t)])
    BY <1>1, <1>2, <1>5 DEF Undisturbed, StandsOn
  <2>3. \A k \in Keys : GivenUp(health[k]) => GivenUp(health'[k])
    BY <1>1, <1>2, <1>3, <1>4, <2>2, FailureKept
  <2>4. \A j \in 1..Len(req[t].errors) : KeyOf[req[t].chain[j]] \in Keys
    BY <1>2, OwnKey
  <2> QED BY <2>1, <2>3, <2>4 DEF PassedForCause, Entry
<1>6. Good(r, health') /\ Calling(r) = Idle
  BY <1>1, <1>5, FailOverGood
<1> HIDE DEF r
<1>7. call' = [call EXCEPT ![t] = Calling(r)]
  BY <1>1, <1>6 DEF Fail
<1>8. IInv'
  <2>1. IInv /\ [Next]_vars
    BY <1>1, <1>3 DEF ChainInv, Next
  <2> QED BY <2>1, NextInv
<1> QED BY <1>1, <1>6, <1>7, <1>8, BecomeInv

(* A missing key: the step counts as tried, and the breaker hears nothing.   *)
LEMMA ConfigFailsInv ==
  ASSUME ChainInv, NEW t \in Threads, ConfigFails(t)
  PROVE  ChainInv'
<1> DEFINE r == FailOver(req[t], "config")
<1>1. /\ req[t].phase = "call" /\ Blameless(t) /\ Become(t, r)
      /\ req[t] \in Requests /\ Placed(req[t])
  BY OwnRequest DEF ConfigFails, Walking
<1>2. ~req[t].disturbed /\ ~req[t].image => PassedForCause(req[t], health)
  BY <1>1, OwnKnowledge
<1>3. Good(r, health) /\ Calling(r) = Idle
  BY <1>1, <1>2, FailOverGood
<1> HIDE DEF r
<1> QED BY <1>1, <1>3, BlamelessInv

(* The handler answers and waits for the next request.                       *)
LEMMA AnswerInv ==
  ASSUME ChainInv, NEW t \in Threads, Answer(t)
  PROVE  ChainInv'
<1>1. UNCHANGED vars /\ Become(t, NoRequest) /\ Calling(req[t]) = Idle
  BY DEF Answer, Ends, Calling
<1> QED BY <1>1, NoRequestGood, QuietInv

(* Operators and the clock disturb every request, and close no call.         *)
LEMMA DisturbedInv ==
  ASSUME ChainInv, [Next]_vars, DisturbAll, UNCHANGED call, ops' \in 0..MaxOperations
  PROVE  ChainInv'
<1>1. IInv'
  BY NextInv DEF ChainInv
<1>2. ASSUME NEW t \in Threads
      PROVE  Good(req'[t], health') /\ call'[t] = Calling(req'[t])
  <2>1. /\ req[t] \in Requests /\ Placed(req[t]) /\ call'[t] = Calling(req[t])
    BY OwnRequest
  <2>2. CASE req[t].phase # "idle"
    BY <2>1, <2>2, MarkedGood DEF DisturbAll
  <2>3. CASE req[t].phase = "idle"
    BY <2>1, <2>3, IdleGood DEF DisturbAll, Good
  <2> QED BY <2>2, <2>3
<1>3. req' \in [Threads -> Requests]
  <2>1. \A t \in Threads : req'[t] \in Requests
    BY <1>2 DEF Good
  <2>2. req' = [t \in Threads |-> req'[t]]
    BY DEF DisturbAll
  <2> QED BY <2>1, <2>2
<1> QED BY <1>1, <1>2, <1>3 DEF ChainInv

(* Operators' endpoints.                                                     *)
LEMMA OperatorInv ==
  ASSUME ChainInv, Operator
  PROVE  ChainInv'
<1>1. ops' \in 0..MaxOperations
  BY ChainAssumption DEF Operator, Operate, ChainInv
<1>2. Next /\ UNCHANGED call
  BY DEF Operator, Next, Reset, Toggle, DeleteProvider, CreateProvider
<1> QED BY <1>1, <1>2, DisturbedInv DEF Operator

(* The passage of time.                                                      *)
LEMMA TimeInv ==
  ASSUME ChainInv, Time
  PROVE  ChainInv'
<1>1. ops' \in 0..MaxOperations
  BY DEF Time, ChainInv
<1>2. Next /\ UNCHANGED call
  BY DEF Time, Next, Tick
<1> QED BY <1>1, <1>2, DisturbedInv DEF Time

(* A restart ends every request.                                             *)
LEMMA RebootInv ==
  ASSUME ChainInv, Reboot
  PROVE  ChainInv'
<1>1. IInv'
  <2>1. IInv /\ [Next]_vars
    BY DEF ChainInv, Reboot, Next
  <2> QED BY <2>1, NextInv
<1>2. ops' \in 0..MaxOperations
  BY ChainAssumption DEF Reboot, Operate, ChainInv
<1>3. req' = [t \in Threads |-> NoRequest] /\ call' = [t \in Threads |-> Idle]
  BY DEF Reboot, Restart
<1> QED BY <1>1, <1>2, <1>3, NoRequestGood DEF ChainInv

-----------------------------------------------------------------------------
(* A program that has just booted has no request under way.                  *)
LEMMA ChainInitInv == RInit => ChainInv
<1> SUFFICES ASSUME RInit PROVE ChainInv
  OBVIOUS
<1>1. IInv /\ ops \in 0..MaxOperations
  BY InitInv, ChainAssumption DEF RInit
<1>2. req = [t \in Threads |-> NoRequest] /\ call = [t \in Threads |-> Idle]
  BY DEF RInit, Init
<1> QED BY <1>1, <1>2, NoRequestGood DEF ChainInv

(* Every step of a handler thread, an operator, the clock or a restart       *)
(* preserves the invariant.                                                  *)
LEMMA ChainNextInv == ChainInv /\ [RNext]_rvars => ChainInv'
<1> SUFFICES ASSUME ChainInv, [RNext]_rvars PROVE ChainInv'
  OBVIOUS
<1>1. ASSUME NEW t \in Threads, Advance(t) PROVE ChainInv'
  BY <1>1, RouterProbeInv, RouterKeepsInv, RouterReordersInv, SkipVisionInv,
     SkipOpenInv, PassBreakerInv, SkipDegradedInv, ForwardInv, RetryInv, EndingInv,
     ConfigFailsInv, ProviderFailsInv, AnswerInv
     DEF Advance
<1>2. ASSUME NEW t \in Threads, StartWithoutChain(t) PROVE ChainInv'
  BY <1>2, StartWithoutChainInv
<1>3. ASSUME NEW t \in Threads, NEW mode \in Modes, Start(t, mode) PROVE ChainInv'
  BY <1>3, StartInv
<1>4. CASE Operator \/ Time \/ Reboot
  BY <1>4, OperatorInv, TimeInv, RebootInv
<1>5. CASE UNCHANGED rvars
  <2>1. UNCHANGED vars /\ UNCHANGED <<req, ops>>
    BY <1>5 DEF rvars
  <2>2. IInv'
    BY <2>1, NextInv DEF ChainInv
  <2> QED BY <2>1, <2>2 DEF ChainInv, vars
<1> QED BY <1>1, <1>2, <1>3, <1>4, <1>5 DEF RNext

(* What the invariant says at the ends of a walk is what WalkIsSound states. *)
LEMMA ChainInvSound == ChainInv => WalkIsSound
<1> SUFFICES ASSUME ChainInv PROVE WalkIsSound
  OBVIOUS
<1>1. RTypeOK
  <2>1. \A t \in Threads : /\ req[t] \in Requests /\ Placed(req[t])
    BY OwnRequest
  <2>2. \A t \in Threads : req[t].i \in 1..(Len(Chain) + 1)
    BY <2>1, ChainAssumption DEF Placed, Requests
  <2> QED BY <2>1, <2>2 DEF RTypeOK, ChainInv, IInv, Requests
<1>2. ASSUME NEW t \in Threads, req[t].phase = "failed", ~req[t].disturbed, ~req[t].image
      PROVE  /\ PassedForCause(req[t], health) /\ ChanceLeft(req[t], health)
             /\ DOMAIN req[t].errors = 1..Len(req[t].errors)
             /\ Len(req[t].errors) = Len(req[t].chain)
             /\ DOMAIN req[t].chain = 1..Len(req[t].chain)
             /\ req[t].i..Len(req[t].chain) = {}
  <2>1. /\ req[t] \in Requests /\ Placed(req[t]) /\ Undisturbed(req[t], health)
    BY OwnRequest
  <2>2. PassedForCause(req[t], health) /\ ChanceLeft(req[t], health)
    BY <1>2, <2>1 DEF Undisturbed
  <2>3. req[t].i = Len(req[t].chain) + 1 /\ Len(req[t].errors) = Len(req[t].chain)
    BY <1>2, <2>1 DEF Placed
  <2> QED BY <2>1, <2>2, <2>3 DEF Requests
<1>3. GatingKeepsAChance
  BY <1>2 DEF GatingKeepsAChance, ChanceLeft, TriedAStep
<1>4. FailedLeavesNoneHealthy
  BY <1>2 DEF FailedLeavesNoneHealthy, PassedForCause, GivenUp, Entry
<1>5. DegradedIsLastResort
  <2> SUFFICES ASSUME NEW t \in Threads, req[t].phase = "call", ~req[t].disturbed
               PROVE  /\ health[Key(t)].status # "dead"
                      /\ health[Key(t)].status = "degraded" => ~HasHealthyAlternative(t)
    BY DEF DegradedIsLastResort, Walking
  <2>1. StandsOn(req[t], health) /\ Entry(req[t], health, req[t].i) = health[Key(t)]
    BY OwnRequest, OwnStep DEF Undisturbed
  <2> QED BY <2>1 DEF StandsOn, Consented, HasHealthyAlternative, Entry
<1>6. CallsMatchRequests
  BY OwnRequest DEF CallsMatchRequests, Calling, Key, Step
<1> QED BY <1>1, <1>3, <1>4, <1>5, <1>6 DEF WalkIsSound

(* The inductive invariant holds in every reachable state.                   *)
THEOREM ChainInvariance == RSpec => []ChainInv
BY ChainInitInv, ChainNextInv, PTL DEF RSpec

(* A walk gives a step up for good reason only and answers for each call     *)
(* once, whatever the chain, its sharing of breaker keys, the router's       *)
(* reordering and the other requests.                                        *)
THEOREM WalksAreSound == RSpec => []WalkIsSound
BY ChainInvariance, ChainInvSound, PTL

-----------------------------------------------------------------------------
(* What try_chain, the endpoints, the clock and a restart do to the breaker  *)
(* is a step of CircuitBreaker, so what that module promises of the health   *)
(* table holds under every walk: no request goes round the breaker.          *)
THEOREM WalksDriveTheBreaker == RSpec => Init /\ [][Next]_vars
<1>1. RInit => Init
  BY DEF RInit
<1>2. ChainInv /\ [RNext]_rvars => [Next]_vars
  <2> SUFFICES ASSUME ChainInv, RNext PROVE [Next]_vars
    BY DEF rvars
  <2>1. ASSUME NEW t \in Threads, RouterProbe(t) PROVE [Next]_vars
    <3>1. req[t].i \in 1..Len(req[t].chain)
      BY <2>1, OwnRequest DEF RouterProbe, Walking, Placed
    <3>2. Key(t) \in Keys
      BY <3>1, OwnKey DEF Key, Step
    <3> QED BY <2>1, <3>2 DEF RouterProbe, Next
  <2>2. ASSUME NEW t \in Threads, PassBreaker(t) PROVE [Next]_vars
    <3>1. Key(t) \in Keys
      BY <2>2, OwnStep DEF PassBreaker, Walking
    <3> QED BY <2>2, <3>1 DEF PassBreaker, Next
  <2>3. ASSUME NEW t \in Threads, NEW e \in Errors, ProviderFails(t, e) PROVE [Next]_vars
    <3>1. e.w \in Weights
      BY ChainAssumption
    <3> QED BY <2>3, <3>1 DEF ProviderFails, Next
  <2>4. ASSUME NEW t \in Threads,
               \/ RouterKeeps(t) \/ RouterReorders(t) \/ SkipVision(t) \/ SkipOpen(t)
               \/ Forward(t) \/ Retry(t) \/ Answer(t) \/ StartWithoutChain(t)
               \/ \E mode \in Modes : Start(t, mode)
        PROVE  UNCHANGED vars
    BY <2>4 DEF RouterKeeps, RouterReorders, SkipVision, SkipOpen, Forward, Retry,
                Answer, StartWithoutChain, Start
  <2>5. ASSUME NEW t \in Threads,
               \/ SkipDegraded(t) \/ Serve(t) \/ ConfigFails(t)
               \/ BadRequest(t) \/ Unclassified(t)
        PROVE  Next
    BY <2>5 DEF SkipDegraded, Serve, ConfigFails, BadRequest, Unclassified, Next
  <2>6. Operator \/ Time \/ Reboot => Next
    BY DEF Operator, Time, Reboot, Next
  <2> QED BY <2>1, <2>2, <2>3, <2>4, <2>5, <2>6 DEF RNext, Advance
<1> QED BY <1>1, <1>2, ChainInvariance, PTL DEF RSpec
-----------------------------------------------------------------------------
(* Threads inside the breaker's methods.                                    *)

\* A method that has been called and not begun its write, where it is sure to.
Bound == {"act", "rest", "deadline", "promote", "persist"}

\* With a row loaded, on the way to the commit.
Loaded == {"insert", "status", "failures", "tripped", "override", "commit"}

Fields == {"status", "failures", "tripped", "override"}

\* The places of _persist from which field f has not been copied yet.
Ahead(f) ==
  CASE f = "status"   -> {"query", "insert", "status"}
    [] f = "failures" -> {"query", "insert", "status", "failures"}
    [] f = "tripped"  -> {"query", "insert", "status", "failures", "tripped"}
    [] f = "override" -> {"query", "insert", "status", "failures", "tripped", "override"}

\* Two entries, or an entry and a row, have the same in field f.
Agree(f, h, g) ==
  /\ f = "status" => h.status = g.status
  /\ f = "failures" => h.failures = g.failures
  /\ f = "tripped" => h.tripped = g.tripped
  /\ f = "override" => h.override = g.override

\* A thread will bring field f of the row up to date with the entry.
Brings(t, f) ==
  \/ at[t] \in Bound
  \/ /\ at[t] \in {"query"} \union Loaded
     /\ mine[t] = slot
     /\ at[t] \in Ahead(f) \/ Agree(f, draft[t], objs[slot])

\* No write has been overtaken, nor failed.
Unhindered == ~crossed /\ rowFaults = 0 /\ \A t \in BThreads : ~late[t]

Covered(f) == \E t \in BThreads : Brings(t, f)

RowIsDue ==
  Unhindered =>
    /\ slot # NoEntry =>
         \A f \in Fields :
           \/ Covered(f)
           \/ tableRow # NoRow /\ Agree(f, tableRow, objs[slot]) /\ \A t \in BThreads : at[t] \notin Writing
    /\ slot = NoEntry => tableRow = NoRow \/ \E t \in BThreads : at[t] = "delete"

\* The places of a method, and what a thread has in hand there.
InPlace(t) ==
  /\ at[t] \in Outside <=> op[t] = "none"
  /\ at[t] \in {"peek", "test", "compare", "promote"} => op[t] \in {"admit", "probe"}
  /\ at[t] \in {"find", "make", "act"} => op[t] \in {"succeed", "fail", "reset", "degrade", "kill", "resume"}
  /\ at[t] = "rest" => op[t] \in {"succeed", "fail", "degrade"}
  /\ at[t] = "deadline" => op[t] = "fail" /\ aim[t] \in {"dead", "degraded"}
  /\ at[t] = "promote" => aim[t] \in {"degraded", "healthy"}
  /\ at[t] \in {"pop", "delete"} <=> op[t] = "forget"
  /\ at[t] \in {"test", "compare", "promote", "act", "rest", "deadline", "persist", "query"} \union Loaded
       => mine[t] \in made
  /\ at[t] = "insert" => loaded[t] = NoRow
  /\ at[t] \in {"status", "failures", "tripped", "override"} => loaded[t] # NoRow

PlaceInv == \A t \in BThreads : InPlace(t)

\* Nothing was written since the thread looked, unless it is late.
OnTime ==
  \A t \in BThreads :
    /\ late[t] => at[t] \in Writing
    /\ at[t] \in {"query"} \union Loaded /\ ~late[t] => slot # NoEntry
    /\ at[t] \in Loaded /\ ~late[t] => loaded[t] = tableRow

SlotInv == slot # NoEntry => slot \in made

-----------------------------------------------------------------------------
\* What a method makes of the entry b that was there before: c is the time.
Was(b) == IF b = NoEntry THEN Default ELSE b

Promoted(h) == [h EXCEPT !.status = IF h.status = "dead" THEN "degraded" ELSE "healthy",
                         !.tripped = NotTripped]

Overdue(h, c) == h.status # "healthy" /\ h.tripped # NotTripped /\ h.tripped <= c

Level(n) == IF n >= FailuresDead THEN "dead" ELSE "degraded"
Wait(n) == IF n >= FailuresDead THEN DeadCooldown ELSE DegradedCooldown

Failed(h, n, c) ==
  IF n >= FailuresDead \/ n >= FailuresDegraded
  THEN [h EXCEPT !.failures = n, !.status = Level(n), !.tripped = c + Wait(n)]
  ELSE [h EXCEPT !.failures = n]

\* The entry h when the method goes on to _persist, ...
Outcome(method, b, c, h) ==
  CASE method \in {"admit", "probe"} -> b # NoEntry /\ Overdue(b, c) /\ h = Promoted(b)
    [] method = "fail" -> \E w \in BWeights : h = Failed(Was(b), Saturate(Was(b).failures + w), c)
    [] method = "degrade" -> h = [Was(b) EXCEPT !.status = "degraded", !.tripped = c + DegradedCooldown,
                                                !.override = "degraded"]
    [] method = "kill" -> h = [Was(b) EXCEPT !.status = "dead", !.tripped = NotTripped, !.override = "dead"]
    [] OTHER -> h = Default

\* ...when half of it is done, ...
Half(method, b, h) ==
  CASE method = "succeed" -> h = [Was(b) EXCEPT !.status = "healthy", !.failures = 0]
    [] method = "fail" -> \E w \in BWeights : h = [Was(b) EXCEPT !.failures = Saturate(Was(b).failures + w)]
    [] method = "degrade" -> h = [Was(b) EXCEPT !.status = "degraded"]
    [] OTHER -> FALSE

\* ...and when it has been tripped and has no deadline yet.
TrippedAt(b, n, h, level) ==
  /\ n >= FailuresDead \/ n >= FailuresDegraded
  /\ level = Level(n)
  /\ h = [Was(b) EXCEPT !.failures = n, !.status = Level(n)]

Tripped(b, h, level) ==
  \E w \in BWeights : TrippedAt(b, Saturate(Was(b).failures + w), h, level)

\* Where a thread is that is alone in the breaker.
Progress(t) ==
  /\ at[t] \in {"peek", "find", "pop"} => LiveEntry = before
  /\ at[t] \in {"test", "compare", "promote"} =>
       slot # NoEntry /\ mine[t] = slot /\ objs[slot] = before
  /\ at[t] = "compare" => before.status # "healthy" /\ before.tripped # NotTripped
  /\ at[t] = "promote" => Overdue(before, now) /\ aim[t] = Promoted(before).status
  /\ at[t] = "make" => slot = NoEntry /\ before = NoEntry
  /\ at[t] \in Bound \union {"query"} \union Loaded => slot # NoEntry /\ mine[t] = slot
  /\ at[t] = "act" => objs[slot] = Was(before)
  /\ at[t] = "rest" => Half(op[t], before, objs[slot])
  /\ at[t] = "deadline" => Tripped(before, objs[slot], aim[t])
  /\ at[t] \in {"persist", "query"} \union Loaded => Outcome(op[t], before, now, objs[slot])
  /\ at[t] \in Loaded => loaded[t] = tableRow
  /\ \A f \in Fields :
       at[t] \in Loaded \ Ahead(f) => Agree(f, draft[t], objs[slot])
  /\ at[t] = "delete" => slot = NoEntry
  /\ op[t] = "forget" => ~listed
  /\ op[t] \in {"degrade", "kill", "resume"} => listed

AloneInv ==
  alone => \A t \in BThreads : Inside(t) =>
    /\ \A u \in BThreads \ {t} : ~Inside(u)
    /\ Progress(t)

\* A thread begins a method on the breaker's entry.
Acts(t) == \E method \in Ops : Ask(t, method) \/ Report(t, method) \/ CallEndpoint(t, method)

(* An entry with one field assigned is an entry.                            *)
LEMMA FieldsKeepType ==
  ASSUME NEW h \in Timed
  PROVE  /\ \A v \in Statuses : [h EXCEPT !.status = v] \in Timed
         /\ \A v \in 0..FailureCap : [h EXCEPT !.failures = v] \in Timed
         /\ \A v \in Times : [h EXCEPT !.tripped = v] \in Timed
         /\ \A v \in Overrides : [h EXCEPT !.override = v] \in Timed
BY DEF Timed

(* What get_health makes for an untracked key is an entry.                  *)
LEMMA DefaultTyped == Default \in Timed /\ NotTripped \in Times
BY ThresholdAssumption DEF Default, Timed, Times, Statuses, Overrides

(* What a method does before its first call after get_health leaves an      *)
(* entry.                                                                   *)
LEMMA FirstPartTyped ==
  ASSUME NEW h \in Timed, NEW method, NEW w \in BWeights
  PROVE  FirstPart(method, h, w) \in Timed
<1>1. Saturate(h.failures + w) \in 0..FailureCap
  BY ThresholdAssumption, ThreadsAssumption DEF Saturate, Timed
<1>2. /\ [h EXCEPT !.status = "healthy", !.failures = 0] \in Timed
      /\ [h EXCEPT !.failures = Saturate(@ + w)] \in Timed
      /\ [h EXCEPT !.status = "degraded"] \in Timed
      /\ [h EXCEPT !.status = "dead", !.tripped = NotTripped, !.override = "dead"] \in Timed
  <2>1. [h EXCEPT !.status = "healthy", !.failures = 0] \in Timed
    <3>1. 0 \in 0..FailureCap /\ "healthy" \in Statuses
      BY ThresholdAssumption DEF Statuses
    <3> QED BY <3>1 DEF Timed
  <2>2. [h EXCEPT !.failures = Saturate(@ + w)] \in Timed
    BY <1>1, FieldsKeepType
  <2>3. [h EXCEPT !.status = "dead", !.tripped = NotTripped, !.override = "dead"] \in Timed
    BY DefaultTyped DEF Timed, Statuses, Overrides
  <2> QED BY <2>1, <2>2, <2>3, FieldsKeepType DEF Statuses
<1> QED BY <1>2, DefaultTyped DEF FirstPart

\* The threads' places and locals have their types.
LocalsTyped ==
  /\ at \in [BThreads -> Places] /\ op \in [BThreads -> Ops]
  /\ mine \in [BThreads -> Objects \union {NoEntry}] /\ aim \in [BThreads -> Statuses]
  /\ loaded \in [BThreads -> Timed \union {NoRow}] /\ draft \in [BThreads -> Timed]

(* Whatever the threads do, the state has its type.                         *)
LEMMA ThreadsTyped ==
  ASSUME ThreadsTypeOK, PlaceInv, [ThreadsNext]_threadVars
  PROVE  ThreadsTypeOK'
<1> USE ThreadsAssumption, DefaultTyped
<1> USE DEF ThreadsTypeOK
<1>1. CASE UNCHANGED threadVars
  BY <1>1 DEF threadVars, cells, locals, ghosts
<1>2. CASE CreateAgain
  BY <1>2 DEF CreateAgain, cells, locals
<1>3. CASE SecondPasses
  BY <1>3 DEF SecondPasses, cells, locals
<1>4. CASE BootAgain
  <2>1. ASSUME NEW r \in Timed \union {NoRow}, Boots(r)
        PROVE  /\ slot' \in Objects \union {NoEntry} /\ objs' \in [Objects -> Timed] /\ made' \subseteq Objects
               /\ at' \in [BThreads -> Places] /\ op' \in [BThreads -> Ops]
               /\ mine' \in [BThreads -> Objects \union {NoEntry}] /\ aim' \in [BThreads -> Statuses]
               /\ loaded' \in [BThreads -> Timed \union {NoRow}] /\ draft' \in [BThreads -> Timed]
               /\ late' \in [BThreads -> BOOLEAN]
    BY <2>1 DEF Boots, Places, Ops, Statuses
  <2>2. \/ Boots(tableRow) /\ UNCHANGED <<events, rowFaults>>
        \/ Boots(NoRow) /\ RowFault
    BY <1>4 DEF BootAgain
  <2>3. events' \in 0..MaxEvents /\ rowFaults' \in Nat /\ rowFaults' <= events'
    BY <2>2 DEF RowFault, Happens
  <2>4. crossed' \in BOOLEAN /\ botched' \in BOOLEAN
    BY <1>4 DEF BootAgain
  <2> QED BY <1>4, <2>1, <2>2, <2>3, <2>4 DEF BootAgain
<1>5. ASSUME NEW t \in BThreads, NEW method \in Ops, NEW place \in Places,
             Begin(t, method, place), listed' \in BOOLEAN
      PROVE  ThreadsTypeOK'
  <2>1. at' \in [BThreads -> Places] /\ op' \in [BThreads -> Ops]
    BY <1>5 DEF Begin, MoveTo
  <2>2. events' \in 0..MaxEvents /\ rowFaults' \in Nat /\ rowFaults' <= events'
    BY <1>5 DEF Begin, Happens
  <2>3. alone' \in BOOLEAN /\ before' \in Timed \union {NoEntry}
    BY <1>5 DEF Begin, LiveEntry, NoneInside
  <2> QED BY <1>5, <2>1, <2>2, <2>3 DEF Begin, cells
<1>6. ASSUME NEW t \in BThreads, Acts(t) \/ Forget(t)
      PROVE  ThreadsTypeOK'
  BY <1>5, <1>6 DEF Acts, Ask, Report, CallEndpoint, Forget, Ops, Places
<1>7. ASSUME NEW t \in BThreads, NEW place \in Places, Return(t, place)
      PROVE  LocalsTyped'
  BY <1>7 DEF Return, MoveTo, Ops, Statuses, LocalsTyped
<1>8. ASSUME NEW t \in BThreads PROVE Onwards(t) \in Places /\ "idle" \in Places
  BY DEF Onwards, Places
<1>12. ASSUME LocalsTyped', UNCHANGED <<cells, listed, now>>, UNCHANGED <<tableRow, events, rowFaults,
                                        ghosts>>
       PROVE  ThreadsTypeOK'
  BY <1>12 DEF LocalsTyped, cells, ghosts
<1>13. ASSUME NEW t \in BThreads, NEW place \in Places, MoveTo(t, place)
       PROVE  at' \in [BThreads -> Places]
  BY <1>13 DEF MoveTo
<1>9. ASSUME NEW t \in BThreads, NEW place \in Places, NEW h \in Timed, Alter(t, h, place),
             aim' \in [BThreads -> Statuses], botched' \in BOOLEAN
      PROVE  ThreadsTypeOK'
  BY <1>9 DEF Alter, MoveTo
<1>10. ASSUME NEW t \in BThreads, at[t] \in {"test", "compare", "promote", "act", "rest", "deadline", "query"} \union Loaded
       PROVE  objs[mine[t]] \in Timed
  BY <1>10, PlaceInv DEF PlaceInv, InPlace
<1>11. ASSUME NEW t \in BThreads, MethodStep(t) \/ SayNothing(t)
       PROVE  ThreadsTypeOK'
  <2>1. CASE SayNothing(t)
    BY <1>12, <1>13, <2>1 DEF SayNothing, Places, LocalsTyped, ghosts
  <2>2. CASE Peek(t)
    <3>1. LocalsTyped'
      <4>1. CASE Return(t, Onwards(t))
        BY <1>7, <1>8, <4>1
      <4>2. CASE slot # NoEntry /\ mine' = [mine EXCEPT ![t] = slot] /\ MoveTo(t, "test")
                 /\ UNCHANGED <<op, aim, loaded, draft>>
        BY <1>13, <4>2 DEF Places, LocalsTyped
      <4> QED BY <2>2, <4>1, <4>2 DEF Peek
    <3> QED BY <1>12, <2>2, <3>1 DEF Peek, ghosts
  <2>3. CASE Test(t)
    <3>1. CASE MoveTo(t, "compare") /\ UNCHANGED <<op, mine, aim, loaded, draft>>
      BY <1>12, <1>13, <2>3, <3>1 DEF Test, LocalsTyped, ghosts, Places
    <3>2. CASE Return(t, IF objs[mine[t]].status = "dead" THEN "idle" ELSE Onwards(t))
      BY <1>7, <1>8, <1>12, <2>3, <3>2 DEF Test, ghosts
    <3> QED BY <2>3, <3>1, <3>2 DEF Test
  <2>4. CASE Compare(t)
    <3>1. CASE Return(t, "idle")
      BY <1>7, <1>8, <1>12, <2>4, <3>1 DEF Compare, ghosts
    <3>2. CASE /\ aim' = [aim EXCEPT ![t] = IF objs[mine[t]].status = "dead" THEN "degraded" ELSE "healthy"]
               /\ MoveTo(t, "promote") /\ UNCHANGED <<op, mine, loaded, draft>>
      <4>1. aim' \in [BThreads -> Statuses]
        BY <3>2 DEF Statuses
      <4> QED BY <1>12, <1>13, <2>4, <3>2, <4>1 DEF Compare, LocalsTyped, ghosts, Places
    <3> QED BY <2>4, <3>1, <3>2 DEF Compare
  <2>5. CASE PromoteTo(t)
    <3>1. objs[mine[t]] \in Timed
      BY <1>10, <2>5 DEF PromoteTo
    <3>2. [objs[mine[t]] EXCEPT !.status = aim[t], !.tripped = NotTripped] \in Timed
      BY <3>1 DEF Timed
    <3> QED BY <1>9, <2>5, <3>2 DEF PromoteTo, Places
  <2>6. CASE Find(t) \/ Make(t)
    BY <2>6 DEF Find, Make, MoveTo, cells, ghosts, Places
  <2>7. CASE Act(t)
    <3>1. objs[mine[t]] \in Timed
      BY <1>10, <2>7 DEF Act
    <3>2. PICK w \in BWeights :
            Alter(t, FirstPart(op[t], objs[mine[t]], w),
                  IF op[t] \in {"succeed", "fail", "degrade"} THEN "rest" ELSE "persist")
      BY <2>7 DEF Act
    <3>3. FirstPart(op[t], objs[mine[t]], w) \in Timed
      BY <3>1, FirstPartTyped
    <3> QED BY <1>9, <2>7, <3>2, <3>3 DEF Act, Places
  <2>8. CASE FinishSuccess(t)
    <3>1. objs[mine[t]] \in Timed
      BY <1>10, <2>8 DEF FinishSuccess
    <3>2. [objs[mine[t]] EXCEPT !.tripped = NotTripped, !.override = "none"] \in Timed
      BY <3>1 DEF Timed, Overrides
    <3>3. botched' \in BOOLEAN
      BY <2>8 DEF FinishSuccess, DeadEnd
    <3> QED BY <1>9, <2>8, <3>2, <3>3 DEF FinishSuccess, Places
  <2>9. CASE FinishDegrade(t)
    <3>1. objs[mine[t]] \in Timed
      BY <1>10, <2>9 DEF FinishDegrade
    <3>2. [objs[mine[t]] EXCEPT !.tripped = now + DegradedCooldown, !.override = "degraded"] \in Timed
      <4>1. now + DegradedCooldown \in Times
        BY CooldownAssumption DEF Times
      <4> QED BY <3>1, <4>1 DEF Timed, Overrides
    <3> QED BY <1>9, <2>9, <3>2 DEF FinishDegrade, Places
  <2>10. CASE Trip(t)
    <3>1. objs[mine[t]] \in Timed
      BY <1>10, <2>10 DEF Trip, Trips
    <3>2. /\ [objs[mine[t]] EXCEPT !.status = "dead"] \in Timed
          /\ [objs[mine[t]] EXCEPT !.status = "degraded"] \in Timed
      BY <3>1, FieldsKeepType DEF Statuses
    <3>3. ASSUME NEW v \in Statuses, aim' = [aim EXCEPT ![t] = v]
          PROVE  aim' \in [BThreads -> Statuses]
      BY <3>3
    <3>4. "dead" \in Statuses /\ "degraded" \in Statuses /\ "deadline" \in Places /\ "persist" \in Places
      BY DEF Statuses, Places
    <3> QED BY <1>9, <2>10, <3>1, <3>2, <3>3, <3>4 DEF Trip, Trips
  <2>11. CASE SetDeadline(t)
    <3>1. objs[mine[t]] \in Timed
      BY <1>10, <2>11 DEF SetDeadline
    <3>2. now + (IF aim[t] = "dead" THEN DeadCooldown ELSE DegradedCooldown) \in Times
      BY CooldownAssumption DEF Times
    <3>3. [objs[mine[t]] EXCEPT
             !.tripped = now + (IF aim[t] = "dead" THEN DeadCooldown ELSE DegradedCooldown)] \in Timed
      BY <3>1, <3>2, FieldsKeepType
    <3> QED BY <1>9, <2>11, <3>3 DEF SetDeadline, Places
  <2>12. CASE LookUp(t)
    <3>1. LocalsTyped'
      <4>1. CASE Return(t, Onwards(t))
        BY <1>7, <1>8, <4>1
      <4>2. CASE slot # NoEntry /\ mine' = [mine EXCEPT ![t] = slot] /\ MoveTo(t, "query")
                 /\ UNCHANGED <<op, aim, loaded, draft>>
        BY <1>13, <4>2 DEF Places, LocalsTyped
      <4> QED BY <2>12, <4>1, <4>2 DEF LookUp
    <3> QED BY <1>12, <2>12, <3>1 DEF LookUp, ghosts
  <2>13. CASE Query(t)
    <3>1. LocalsTyped'
      BY <1>13, <2>13 DEF Query, Places, LocalsTyped
    <3> QED BY <1>12, <2>13, <3>1 DEF Query, ghosts
  <2>14. CASE CopyField(t)
    <3>1. PICK h \in Timed, place \in Places : Copied(t, h, place)
      <4>1. objs[mine[t]] \in Timed
        BY <1>10, <2>14 DEF CopyField, Loaded
      <4>2. /\ [draft[t] EXCEPT !.status = objs[mine[t]].status] \in Timed
            /\ [draft[t] EXCEPT !.failures = objs[mine[t]].failures] \in Timed
            /\ [draft[t] EXCEPT !.tripped = objs[mine[t]].tripped] \in Timed
            /\ [draft[t] EXCEPT !.override = objs[mine[t]].override] \in Timed
        BY <4>1 DEF Timed
      <4> QED BY <2>14, <4>1, <4>2 DEF CopyField, Places
    <3> QED BY <1>12, <1>13, <3>1 DEF Copied, LocalsTyped, ghosts
  <2>15. CASE Commit(t)
    <3>1. LocalsTyped'
      BY <1>7, <1>8, <2>15 DEF Commit
    <3>2. tableRow' \in Timed \union {NoRow}
      <4>1. CASE tableRow = NoRow
        BY <2>15, <4>1 DEF Commit
      <4>2. CASE tableRow # NoRow
        <5>1. tableRow \in Timed /\ draft[t] \in Timed
          BY <4>2
        <5>2. Merged(t) \in Timed
          BY <5>1 DEF Merged, Timed
        <5> QED BY <2>15, <4>2, <5>2 DEF Commit
      <4> QED BY <4>1, <4>2
    <3>3. late' \in [BThreads -> BOOLEAN] /\ crossed' \in BOOLEAN
      <4>1. ASSUME OthersAreLate(t) PROVE late' \in [BThreads -> BOOLEAN]
        BY <4>1 DEF OthersAreLate
      <4>2. ASSUME late' = [late EXCEPT ![t] = FALSE] PROVE late' \in [BThreads -> BOOLEAN]
        BY <4>2
      <4>3. crossed' = (crossed \/ late[t])
        BY <2>15 DEF Commit
      <4>4. crossed' \in BOOLEAN
        BY <4>3
      <4> QED BY <2>15, <4>1, <4>2, <4>4 DEF Commit
    <3>4. events' \in 0..MaxEvents /\ rowFaults' \in Nat /\ rowFaults' <= events'
      BY <2>15 DEF Commit, RowFault, Happens
    <3> QED BY <2>15, <3>1, <3>2, <3>3, <3>4 DEF Commit, cells, LocalsTyped
  <2>16. CASE Pop(t)
    BY <1>13, <2>16 DEF Pop, OthersAreLate, Places
  <2>17. CASE DeleteRow(t)
    <3>1. LocalsTyped'
      BY <1>7, <1>8, <2>17 DEF DeleteRow
    <3>2. tableRow' \in Timed \union {NoRow}
      BY <2>17 DEF DeleteRow
    <3>3. late' \in [BThreads -> BOOLEAN] /\ crossed' \in BOOLEAN
      BY <2>17 DEF DeleteRow, OthersAreLate
    <3>4. events' \in 0..MaxEvents /\ rowFaults' \in Nat /\ rowFaults' <= events'
      BY <2>17 DEF DeleteRow, RowFault, Happens
    <3> QED BY <2>17, <3>1, <3>2, <3>3, <3>4 DEF DeleteRow, cells, LocalsTyped
  <2> QED BY <1>11, <2>1, <2>2, <2>3, <2>4, <2>5, <2>6, <2>7, <2>8, <2>9, <2>10, <2>11, <2>12, <2>13, <2>14,
             <2>15, <2>16, <2>17 DEF MethodStep
<1> QED BY <1>1, <1>2, <1>3, <1>4, <1>6, <1>11 DEF ThreadsNext, Acts

-----------------------------------------------------------------------------
\* No thread but t moves or changes its locals.
OthersStay(t) ==
  \A u \in BThreads \ {t} :
    /\ at'[u] = at[u] /\ op'[u] = op[u] /\ mine'[u] = mine[u]
    /\ aim'[u] = aim[u] /\ loaded'[u] = loaded[u] /\ draft'[u] = draft[u]

(* A step of a thread leaves the others where they are.                     *)
LEMMA ThreadsApart ==
  ASSUME ThreadsTypeOK, NEW t \in BThreads, Acts(t) \/ SayNothing(t) \/ Forget(t) \/ MethodStep(t)
  PROVE  OthersStay(t)
<1> USE DEF ThreadsTypeOK
<1>1. ASSUME NEW place, Return(t, place) PROVE OthersStay(t)
  BY <1>1 DEF Return, MoveTo, OthersStay
<1>2. ASSUME NEW place, NEW method, Begin(t, method, place) PROVE OthersStay(t)
  BY <1>2 DEF Begin, MoveTo, OthersStay
<1>3. ASSUME NEW place, MoveTo(t, place), UNCHANGED <<op, mine, aim, loaded, draft>>
      PROVE  OthersStay(t)
  BY <1>3 DEF MoveTo, OthersStay
<1>4. ASSUME NEW place, MoveTo(t, place), UNCHANGED <<op, aim, loaded, draft>>,
             NEW o, mine' = [mine EXCEPT ![t] = o]
      PROVE  OthersStay(t)
  BY <1>4 DEF MoveTo, OthersStay
<1>5. ASSUME NEW place, NEW h, Alter(t, h, place), UNCHANGED aim PROVE OthersStay(t)
  BY <1>5 DEF MoveTo, Alter, OthersStay
<1>6. ASSUME NEW place, NEW h, Alter(t, h, place), NEW v, aim' = [aim EXCEPT ![t] = v] PROVE OthersStay(t)
  BY <1>6 DEF MoveTo, Alter, OthersStay
<1>7. CASE Acts(t) \/ Forget(t)
  BY <1>2, <1>7 DEF Acts, Ask, Report, CallEndpoint, Forget
<1>8. CASE SayNothing(t)
  BY <1>3, <1>8 DEF SayNothing
<1>9. CASE Peek(t) \/ LookUp(t)
  BY <1>1, <1>4, <1>9 DEF Peek, LookUp
<1>10. CASE Test(t)
  BY <1>1, <1>3, <1>10 DEF Test
<1>11. CASE Compare(t)
  <2>1. CASE Return(t, "idle")
    BY <1>1, <2>1
  <2>2. CASE MoveTo(t, "promote") /\ UNCHANGED <<op, mine, loaded, draft>>
             /\ aim' = [aim EXCEPT ![t] = IF objs[mine[t]].status = "dead" THEN "degraded" ELSE "healthy"]
    BY <2>2 DEF MoveTo, OthersStay
  <2> QED BY <1>11, <2>1, <2>2 DEF Compare
<1>12. CASE PromoteTo(t) \/ Act(t) \/ FinishSuccess(t) \/ FinishDegrade(t) \/ SetDeadline(t)
  BY <1>5, <1>12 DEF PromoteTo, Act, FinishSuccess, FinishDegrade, SetDeadline
<1>13. CASE Trip(t)
  BY <1>5, <1>6, <1>13 DEF Trip, Trips
<1>14. CASE Find(t) \/ Pop(t)
  BY <1>3, <1>4, <1>14 DEF Find, Pop
<1>15. CASE Make(t)
  BY <1>4, <1>15 DEF Make
<1>16. CASE Query(t) \/ CopyField(t)
  BY <1>16 DEF Query, CopyField, Copied, MoveTo, OthersStay
<1>17. CASE Commit(t) \/ DeleteRow(t)
  BY <1>1, <1>17 DEF Commit, DeleteRow
<1> QED BY <1>7, <1>8, <1>9, <1>10, <1>11, <1>12, <1>13, <1>14, <1>15, <1>16, <1>17 DEF MethodStep

(* The methods lead through their places, with an entry in hand that was    *)
(* made in this process.                                                    *)
LEMMA PlacesKept ==
  ASSUME ThreadsTypeOK, SlotInv, PlaceInv, [ThreadsNext]_threadVars
  PROVE  SlotInv' /\ PlaceInv'
<1> USE ThreadsAssumption
<1>1. CASE UNCHANGED threadVars
  BY <1>1 DEF threadVars, cells, locals, ghosts, SlotInv, PlaceInv, InPlace
<1>2. CASE CreateAgain \/ SecondPasses
  BY <1>2 DEF CreateAgain, SecondPasses, cells, locals, SlotInv, PlaceInv, InPlace
<1>3. CASE BootAgain
  BY <1>3 DEF BootAgain, Boots, SlotInv, PlaceInv, InPlace, Outside, Loaded
<1>4. ASSUME NEW t \in BThreads, OthersStay(t), made \subseteq made', InPlace(t)'
      PROVE  PlaceInv'
  <2> SUFFICES ASSUME NEW u \in BThreads \ {t} PROVE InPlace(u)'
    BY <1>4 DEF PlaceInv
  <2>1. InPlace(u)
    BY DEF PlaceInv
  <2> QED BY <1>4, <2>1 DEF OthersStay, InPlace
<1>5. ASSUME NEW t \in BThreads, Acts(t) \/ SayNothing(t) \/ Forget(t)
      PROVE  SlotInv' /\ InPlace(t)' /\ made \subseteq made'
  <2>1. ASSUME NEW method \in Ops \ {"none"}, NEW place \in {"peek", "find", "pop"},
               Begin(t, method, place),
               place = "peek" <=> method \in {"admit", "probe"}, place = "pop" <=> method = "forget"
        PROVE  SlotInv' /\ InPlace(t)' /\ made \subseteq made'
    BY <2>1 DEF Begin, MoveTo, cells, ThreadsTypeOK, SlotInv, InPlace, Outside, Loaded, Ops
  <2>2. CASE Acts(t) \/ Forget(t)
    BY <2>1, <2>2 DEF Acts, Ask, Report, CallEndpoint, Forget, Ops
  <2>3. CASE SayNothing(t)
    BY <2>3 DEF SayNothing, MoveTo, cells, ghosts, ThreadsTypeOK, SlotInv, PlaceInv, InPlace, Outside, Loaded
  <2> QED BY <1>5, <2>2, <2>3
<1>6. ASSUME NEW t \in BThreads, MethodStep(t)
      PROVE  SlotInv' /\ InPlace(t)' /\ made \subseteq made'
  <2>1. InPlace(t)
    BY DEF PlaceInv
  <2>2. ASSUME NEW place \in Outside, Return(t, place) PROVE InPlace(t)'
    BY <2>2 DEF Return, MoveTo, ThreadsTypeOK, InPlace, Outside, Loaded
  <2>3. Onwards(t) \in Outside /\ "idle" \in Outside
    BY DEF Onwards, Outside
  <2> USE DEF SlotInv, cells, ghosts
  <2>4. CASE Peek(t)
    BY <2>1, <2>2, <2>3, <2>4 DEF Peek, MoveTo, ThreadsTypeOK, InPlace, Outside, Loaded
  <2>5. CASE Test(t)
    BY <2>1, <2>2, <2>3, <2>5 DEF Test, MoveTo, ThreadsTypeOK, InPlace, Outside, Loaded
  <2>6. CASE Compare(t)
    BY <2>1, <2>2, <2>3, <2>6 DEF Compare, MoveTo, ThreadsTypeOK, InPlace, Outside, Loaded
  <2>7. CASE PromoteTo(t)
    BY <2>1, <2>7 DEF PromoteTo, Alter, MoveTo, ThreadsTypeOK, InPlace, Outside, Loaded
  <2>8. CASE Find(t)
    BY <2>1, <2>8 DEF Find, MoveTo, ThreadsTypeOK, InPlace, Outside, Loaded
  <2>9. CASE Make(t)
    BY <2>1, <2>9 DEF Make, MoveTo, ThreadsTypeOK, InPlace, Outside, Loaded
  <2>10. CASE Act(t)
    BY <2>1, <2>10 DEF Act, Alter, MoveTo, ThreadsTypeOK, InPlace, Outside, Loaded
  <2>11. CASE FinishSuccess(t) \/ FinishDegrade(t)
    BY <2>1, <2>11 DEF FinishSuccess, FinishDegrade, Alter, MoveTo, ThreadsTypeOK, InPlace, Outside, Loaded
  <2>12. CASE Trip(t)
    BY <2>1, <2>12 DEF Trip, Trips, Alter, MoveTo, ThreadsTypeOK, InPlace, Outside, Loaded
  <2>13. CASE SetDeadline(t)
    BY <2>1, <2>13 DEF SetDeadline, Alter, MoveTo, ThreadsTypeOK, InPlace, Outside, Loaded
  <2>14. CASE LookUp(t)
    BY <2>1, <2>2, <2>3, <2>14 DEF LookUp, MoveTo, ThreadsTypeOK, InPlace, Outside, Loaded
  <2>15. CASE Query(t)
    BY <2>1, <2>15 DEF Query, MoveTo, ThreadsTypeOK, InPlace, Outside, Loaded
  <2>16. CASE CopyField(t)
    BY <2>1, <2>16 DEF CopyField, Copied, MoveTo, ThreadsTypeOK, InPlace, Outside, Loaded
  <2>17. CASE Commit(t)
    BY <2>1, <2>2, <2>3, <2>17 DEF Commit
  <2>18. CASE Pop(t)
    BY <2>1, <2>18 DEF Pop, MoveTo, ThreadsTypeOK, InPlace, Outside, Loaded
  <2>19. CASE DeleteRow(t)
    BY <2>1, <2>2, <2>3, <2>19 DEF DeleteRow
  <2> QED BY <1>6, <2>4, <2>5, <2>6, <2>7, <2>8, <2>9, <2>10, <2>11, <2>12, <2>13, <2>14, <2>15, <2>16,
             <2>17, <2>18, <2>19 DEF MethodStep
<1>7. ASSUME NEW t \in BThreads, Acts(t) \/ SayNothing(t) \/ Forget(t) \/ MethodStep(t)
      PROVE  SlotInv' /\ PlaceInv'
  BY <1>4, <1>5, <1>6, <1>7, ThreadsApart
<1> QED BY <1>1, <1>2, <1>3, <1>7 DEF ThreadsNext, Acts

-----------------------------------------------------------------------------
(* A thread whose write is not overtaken has seen the row that is there.    *)
LEMMA TimelyStaysTimely ==
  ASSUME ThreadsTypeOK, PlaceInv, OnTime, [ThreadsNext]_threadVars
  PROVE  OnTime'
<1> USE ThreadsAssumption
<1>1. CASE UNCHANGED threadVars
  BY <1>1 DEF threadVars, cells, locals, ghosts, OnTime
<1>2. CASE CreateAgain \/ SecondPasses
  BY <1>2 DEF CreateAgain, SecondPasses, cells, locals, OnTime
<1>3. CASE BootAgain
  BY <1>3 DEF BootAgain, Boots, OnTime, Loaded
<1>4. ASSUME NEW t \in BThreads, OthersStay(t), UNCHANGED <<tableRow, late>>,
             slot # NoEntry => slot' # NoEntry,
             at[t] \notin Writing,
             at'[t] \notin {"query"} \union Loaded \/ (at'[t] = "query" /\ slot' # NoEntry)
      PROVE  OnTime'
  BY <1>4 DEF OthersStay, OnTime, Writing, Loaded
<1>5. ASSUME NEW t \in BThreads, OthersStay(t), late'[t] = FALSE,
             at'[t] \notin {"query"} \union Loaded,
             \/ UNCHANGED <<slot, tableRow>> /\ \A u \in BThreads \ {t} : late'[u] = late[u]
             \/ \A u \in BThreads \ {t} : late'[u] = (late[u] \/ at[u] \in Writing)
      PROVE  OnTime'
  <2> SUFFICES ASSUME NEW u \in BThreads
               PROVE  /\ late'[u] => at'[u] \in Writing
                      /\ at'[u] \in {"query"} \union Loaded /\ ~late'[u] => slot' # NoEntry
                      /\ at'[u] \in Loaded /\ ~late'[u] => loaded'[u] = tableRow'
    BY Zenon DEF OnTime
  <2>1. CASE u = t
    BY <1>5, <2>1
  <2>2. CASE u # t
    <3>1. /\ at'[u] = at[u] /\ loaded'[u] = loaded[u]
          /\ late[u] => at[u] \in Writing
          /\ at[u] \in {"query"} \union Loaded /\ ~late[u] => slot # NoEntry
          /\ at[u] \in Loaded /\ ~late[u] => loaded[u] = tableRow
      BY <2>2, <1>5 DEF OthersStay, OnTime
    <3>2. CASE UNCHANGED <<slot, tableRow>> /\ late'[u] = late[u]
      BY <3>1, <3>2
    <3>3. CASE late'[u] = (late[u] \/ at[u] \in Writing)
      <4>1. {"query"} \union Loaded \subseteq Writing
        BY DEF Loaded, Writing
      <4> QED BY <3>1, <3>3, <4>1
    <3> QED BY <1>5, <2>2, <3>2, <3>3
  <2> QED BY <2>1, <2>2
<1>6. ASSUME NEW t \in BThreads, Acts(t) \/ SayNothing(t) \/ Forget(t)
      PROVE  OnTime'
  <2>1. ASSUME NEW method, NEW place \in {"peek", "find", "pop"}, at[t] \in Outside, Begin(t, method, place)
        PROVE  OnTime'
    BY <1>4, <1>6, <2>1, ThreadsApart DEF Begin, MoveTo, cells, ThreadsTypeOK, Writing, Loaded, Outside
  <2>2. CASE Acts(t) \/ Forget(t)
    BY <2>1, <2>2 DEF Acts, Ask, Report, CallEndpoint, Forget, Outside
  <2>3. CASE SayNothing(t)
    BY <1>4, <1>6, <2>3, ThreadsApart DEF SayNothing, MoveTo, cells, ghosts, ThreadsTypeOK, Writing, Loaded
  <2> QED BY <1>6, <2>2, <2>3
<1>7. ASSUME NEW t \in BThreads, MethodStep(t)
      PROVE  OnTime'
  <2>1. OthersStay(t)
    BY <1>7, ThreadsApart
  <2>2. ASSUME NEW place \in Outside, Return(t, place) PROVE at'[t] \in Outside
    BY <2>2 DEF Return, MoveTo, ThreadsTypeOK
  <2>3. Onwards(t) \in Outside /\ "idle" \in Outside
    BY DEF Onwards, Outside
  <2>4. CASE Peek(t) \/ Test(t) \/ Compare(t)
    <3>1. at'[t] \in Outside \union {"test", "compare", "promote"}
      BY <2>2, <2>3, <2>4 DEF Peek, Test, Compare, MoveTo, ThreadsTypeOK
    <3> QED BY <1>4, <2>1, <2>4, <3>1 DEF Peek, Test, Compare, cells, Writing, Loaded, Outside
  <2>5. CASE PromoteTo(t) \/ Act(t) \/ FinishSuccess(t) \/ FinishDegrade(t) \/ Trip(t) \/ SetDeadline(t)
    <3>1. at'[t] \in {"rest", "deadline", "persist"} /\ UNCHANGED <<slot, tableRow, late>>
      BY <2>5 DEF PromoteTo, Act, FinishSuccess, FinishDegrade, Trip, Trips, SetDeadline, Alter, MoveTo,
         ThreadsTypeOK
    <3>2. at[t] \notin Writing
      BY <2>5 DEF PromoteTo, Act, FinishSuccess, FinishDegrade, Trip, SetDeadline, Writing
    <3> QED BY <1>4, <2>1, <3>1, <3>2 DEF Loaded
  <2>6. CASE Find(t) \/ Make(t)
    BY <1>4, <2>1, <2>6 DEF Find, Make, MoveTo, cells, ghosts, ThreadsTypeOK, Writing, Loaded
  <2>7. CASE LookUp(t)
    <3>1. CASE Return(t, Onwards(t))
      BY <1>4, <2>1, <2>2, <2>3, <2>7, <3>1 DEF LookUp, cells, ghosts, Writing, Loaded, Outside
    <3>2. CASE slot # NoEntry /\ MoveTo(t, "query")
      BY <1>4, <2>1, <2>7, <3>2 DEF LookUp, MoveTo, cells, ghosts, ThreadsTypeOK, Writing, Loaded
    <3> QED BY <2>7, <3>1, <3>2 DEF LookUp
  <2>8. CASE Query(t)
    BY <2>1, <2>8 DEF Query, MoveTo, cells, ghosts, ThreadsTypeOK, OnTime, OthersStay, Writing, Loaded
  <2>9. CASE CopyField(t)
    BY <2>1, <2>9 DEF CopyField, Copied, MoveTo, cells, ghosts, ThreadsTypeOK, OnTime, OthersStay, Writing,
       Loaded
  <2>10. CASE Commit(t) \/ DeleteRow(t)
    <3>1. at'[t] \in Outside
      BY <2>2, <2>3, <2>10 DEF Commit, DeleteRow
    <3>2. late'[t] = FALSE
      BY <2>10 DEF Commit, DeleteRow, OthersAreLate, ThreadsTypeOK
    <3>3. \/ UNCHANGED <<slot, tableRow>> /\ \A u \in BThreads \ {t} : late'[u] = late[u]
          \/ \A u \in BThreads \ {t} : late'[u] = (late[u] \/ at[u] \in Writing)
      BY <2>10 DEF Commit, DeleteRow, OthersAreLate, cells, ThreadsTypeOK
    <3> QED BY <1>5, <2>1, <3>1, <3>2, <3>3 DEF Outside, Loaded
  <2>11. CASE Pop(t)
    <3>1. at'[t] = "delete" /\ late'[t] = FALSE
      BY <2>11 DEF Pop, MoveTo, OthersAreLate, ThreadsTypeOK
    <3>2. \A u \in BThreads \ {t} : late'[u] = (late[u] \/ at[u] \in Writing)
      BY <2>11 DEF Pop, OthersAreLate, ThreadsTypeOK
    <3> QED BY <1>5, <2>1, <3>1, <3>2 DEF Loaded
  <2> QED BY <1>7, <2>4, <2>5, <2>6, <2>7, <2>8, <2>9, <2>10, <2>11 DEF MethodStep
<1> QED BY <1>1, <1>2, <1>3, <1>6, <1>7 DEF ThreadsNext, Acts

-----------------------------------------------------------------------------
(* A provider that is dead without a deadline has a cause, whatever part of *)
(* a method another one overtakes.                                          *)
LEMMA DeadEndsKeepTheirCause ==
  ASSUME ThreadsTypeOK, PlaceInv, DeadEndHasCause, [ThreadsNext]_threadVars
  PROVE  DeadEndHasCause'
<1> USE ThreadsAssumption
<1>1. CASE UNCHANGED threadVars
  BY <1>1 DEF threadVars, cells, locals, ghosts, DeadEndHasCause
<1>2. CASE CreateAgain \/ SecondPasses
  BY <1>2 DEF CreateAgain, SecondPasses, cells, locals, DeadEndHasCause
<1>3. CASE BootAgain
  <2>1. ~DeadEnd(Default)
    BY DEF DeadEnd, Default
  <2>2. ASSUME NEW r, Boots(r), NEW x \in Objects, DeadEnd(objs'[x])
        PROVE  r # NoRow /\ DeadEnd(r)
    BY <2>1, <2>2 DEF Boots
  <2>3. CASE Boots(tableRow) /\ botched' = (tableRow # NoRow /\ DeadEnd(tableRow))
    BY <2>2, <2>3 DEF DeadEndHasCause
  <2>4. CASE Boots(NoRow)
    BY <2>2, <2>4 DEF DeadEndHasCause
  <2> QED BY <1>3, <2>3, <2>4 DEF BootAgain
<1>4. ASSUME NEW t \in BThreads, OthersStay(t), at[t] # "deadline",
             botched => botched', \A o \in Objects : DeadEnd(objs'[o]) => DeadEnd(objs[o])
      PROVE  DeadEndHasCause'
  BY <1>4 DEF OthersStay, DeadEndHasCause
<1>5. ASSUME NEW t \in BThreads, Acts(t) \/ SayNothing(t) \/ Forget(t)
      PROVE  DeadEndHasCause'
  <2>1. UNCHANGED <<objs, botched>> /\ at[t] # "deadline"
    BY <1>5 DEF Acts, Ask, Report, CallEndpoint, Forget, SayNothing, Begin, cells, ghosts
  <2> QED BY <1>4, <1>5, <2>1, ThreadsApart
<1>6. ASSUME NEW t \in BThreads, MethodStep(t)
      PROVE  DeadEndHasCause'
  <2>1. OthersStay(t)
    BY <1>6, ThreadsApart
  <2>2. InPlace(t)
    BY DEF PlaceInv
  <2>3. ASSUME NEW h, NEW place, Alter(t, h, place), mine[t] \in Objects
        PROVE  objs'[mine[t]] = h /\ \A o \in Objects \ {mine[t]} : objs'[o] = objs[o]
    BY <2>3 DEF Alter, ThreadsTypeOK
  <2>4. CASE Peek(t) \/ Test(t) \/ Compare(t) \/ Find(t) \/ LookUp(t) \/ Query(t) \/ CopyField(t)
             \/ Commit(t) \/ Pop(t) \/ DeleteRow(t)
    <3>1. at[t] # "deadline" /\ UNCHANGED <<objs, botched>>
      BY <2>4 DEF Peek, Test, Compare, Find, LookUp, Query, CopyField, Copied, Commit, Pop, DeleteRow, cells,
         ghosts
    <3> QED BY <1>4, <2>1, <3>1
  <2>5. CASE Make(t)
    <3>1. ~DeadEnd(Default)
      BY DEF DeadEnd, Default
    <3>2. \A o \in Objects : DeadEnd(objs'[o]) => DeadEnd(objs[o])
      BY <2>5, <3>1 DEF Make, ThreadsTypeOK
    <3> QED BY <1>4, <2>1, <2>5, <3>2 DEF Make, ghosts
  <2> DEFINE o == mine[t]
             h == objs[o]
  <2>6. MethodStep(t) /\ at[t] \in {"promote", "act", "rest", "deadline"} => o \in Objects /\ h \in Timed
    BY <2>2 DEF InPlace, ThreadsTypeOK
  <2>7. CASE PromoteTo(t)
    <3>1. o \in Objects /\ h \in Timed /\ aim[t] # "dead"
      BY <1>6, <2>2, <2>6, <2>7 DEF PromoteTo, InPlace
    <3>2. ~DeadEnd([h EXCEPT !.status = aim[t], !.tripped = NotTripped])
      BY <3>1 DEF DeadEnd, Timed
    <3>3. Alter(t, [h EXCEPT !.status = aim[t], !.tripped = NotTripped], "persist")
      BY <2>7 DEF PromoteTo
    <3>4. \A x \in Objects : DeadEnd(objs'[x]) => DeadEnd(objs[x])
      BY <2>3, <3>1, <3>2, <3>3
    <3> QED BY <1>4, <2>1, <2>7, <3>4 DEF PromoteTo
  <2>8. CASE Act(t)
    <3>1. o \in Objects /\ h \in Timed
      BY <1>6, <2>6, <2>8 DEF Act
    <3>2. PICK w \in BWeights :
            Alter(t, FirstPart(op[t], h, w),
                  IF op[t] \in {"succeed", "fail", "degrade"} THEN "rest" ELSE "persist")
      BY <2>8 DEF Act
    <3>3. DeadEnd(FirstPart(op[t], h, w)) => DeadEnd(h)
      BY <3>1 DEF DeadEnd, FirstPart, Timed, Default
    <3>4. \A x \in Objects : DeadEnd(objs'[x]) => DeadEnd(objs[x])
      BY <2>3, <3>1, <3>2, <3>3
    <3> QED BY <1>4, <2>1, <2>8, <3>4 DEF Act
  <2>9. CASE FinishSuccess(t)
    <3>1. o \in Objects
      BY <1>6, <2>6, <2>9 DEF FinishSuccess
    <3>2. Alter(t, [h EXCEPT !.tripped = NotTripped, !.override = "none"], "persist")
          /\ botched' = (botched \/ DeadEnd([h EXCEPT !.tripped = NotTripped, !.override = "none"]))
      BY <2>9 DEF FinishSuccess
    <3>3. ~botched' => \A x \in Objects : DeadEnd(objs'[x]) => DeadEnd(objs[x])
      <4> DEFINE g == [h EXCEPT !.tripped = NotTripped, !.override = "none"]
      <4>1. objs'[o] = g /\ \A x \in Objects \ {o} : objs'[x] = objs[x]
        BY <2>3, <3>1, <3>2
      <4>2. botched' = (botched \/ DeadEnd(g))
        BY <3>2
      <4> HIDE DEF g
      <4> QED BY <4>1, <4>2
    <3>4. CASE botched'
      BY <3>4 DEF DeadEndHasCause
    <3>5. CASE ~botched'
      <4>1. botched => botched'
        BY <3>2, Zenon
      <4> QED BY <1>4, <2>1, <2>9, <3>3, <3>5, <4>1 DEF FinishSuccess
    <3> QED BY <3>4, <3>5
  <2>10. CASE FinishDegrade(t)
    <3>1. o \in Objects /\ h \in Timed
      BY <1>6, <2>6, <2>10 DEF FinishDegrade
    <3>2. ~DeadEnd([h EXCEPT !.tripped = now + DegradedCooldown, !.override = "degraded"])
      BY <3>1, CooldownAssumption DEF DeadEnd, Timed, NotTripped, ThreadsTypeOK
    <3>3. Alter(t, [h EXCEPT !.tripped = now + DegradedCooldown, !.override = "degraded"], "persist")
      BY <2>10 DEF FinishDegrade
    <3>4. \A x \in Objects : DeadEnd(objs'[x]) => DeadEnd(objs[x])
      BY <2>3, <3>1, <3>2, <3>3
    <3> QED BY <1>4, <2>1, <2>10, <3>4 DEF FinishDegrade
  <2>11. CASE Trip(t)
    <3>1. o \in Objects /\ h \in Timed /\ h.failures \in Int
      BY <1>6, <2>6, <2>11 DEF Trip, Trips, Timed
    <3>2. CASE \E status \in {"dead", "degraded"} : Alter(t, [h EXCEPT !.status = status], "deadline")
      <4>1. at'[t] = "deadline" /\ mine'[t] = o /\ botched' = botched
        BY <2>11, <3>2 DEF Alter, MoveTo, ThreadsTypeOK, Trip, Trips
      <4>2. \A x \in Objects \ {o} : objs'[x] = objs[x]
        BY <2>3, <3>1, <3>2
      <4> QED BY <2>1, <2>11, <4>1, <4>2 DEF Trip, Trips, OthersStay, DeadEndHasCause
    <3>3. CASE Alter(t, h, "persist")
      <4>1. \A x \in Objects : DeadEnd(objs'[x]) => DeadEnd(objs[x])
        BY <2>3, <3>1, <3>3
      <4> QED BY <1>4, <2>1, <2>11, <4>1 DEF Trip, Trips
    <3> QED BY <2>11, <3>2, <3>3 DEF Trip, Trips
  <2>12. CASE SetDeadline(t)
    <3>1. o \in Objects /\ h \in Timed
      BY <1>6, <2>6, <2>12 DEF SetDeadline
    <3>2. PICK d \in Nat : Alter(t, [h EXCEPT !.tripped = d], "persist")
      <4>1. now + (IF aim[t] = "dead" THEN DeadCooldown ELSE DegradedCooldown) \in Nat
        BY CooldownAssumption DEF ThreadsTypeOK
      <4> QED BY <2>12, <4>1 DEF SetDeadline
    <3>3. ~DeadEnd([h EXCEPT !.tripped = d])
      BY <3>1 DEF DeadEnd, Timed, NotTripped
    <3>4. \A x \in Objects : DeadEnd(objs'[x]) => x # o /\ DeadEnd(objs[x])
      BY <2>3, <3>1, <3>2, <3>3
    <3> QED BY <2>1, <2>12, <3>4 DEF SetDeadline, OthersStay, DeadEndHasCause
  <2> HIDE DEF o, h
  <2> QED BY <1>6, <2>4, <2>5, <2>7, <2>8, <2>9, <2>10, <2>11, <2>12 DEF MethodStep
<1> QED BY <1>1, <1>2, <1>3, <1>5, <1>6 DEF ThreadsNext, Acts

-----------------------------------------------------------------------------
(* The row follows the entry: each field that differs is about to be        *)
(* brought by the _persist of some thread, until a write is overtaken or    *)
(* fails.                                                                   *)
LEMMA RowStaysDue ==
  ASSUME ThreadsTypeOK, SlotInv, PlaceInv, OnTime, RowIsDue, [ThreadsNext]_threadVars, OnTime'
  PROVE  RowIsDue'
<1> USE ThreadsAssumption
<1>1. CASE UNCHANGED threadVars
  BY <1>1 DEF threadVars, cells, locals, ghosts, RowIsDue, Unhindered, Covered, Brings
<1>2. CASE CreateAgain \/ SecondPasses
  BY <1>2 DEF CreateAgain, SecondPasses, cells, locals, ghosts, RowIsDue, Unhindered, Covered, Brings
<1>3. CASE BootAgain
  <2>1. CASE Boots(tableRow)
    <3>1. (slot' # NoEntry) <=> tableRow # NoRow
      BY <2>1 DEF Boots
    <3>2. tableRow # NoRow => objs'[slot'] = tableRow
      BY <2>1 DEF Boots
    <3>3. \A t \in BThreads : at'[t] \notin Writing
      BY <2>1 DEF Boots, Writing
    <3>4. tableRow' = tableRow
      BY <1>3 DEF BootAgain
    <3> QED BY <3>1, <3>2, <3>3, <3>4 DEF RowIsDue, Agree
  <2>2. CASE RowFault
    BY <2>2 DEF RowFault, RowIsDue, Unhindered, ThreadsTypeOK
  <2> QED BY <1>3, <2>1, <2>2 DEF BootAgain
\* With a thread at work, the hypotheses of a step that nothing disturbs.
<1>4. ASSUME NEW t \in BThreads, OthersStay(t),
             UNCHANGED <<slot, objs, tableRow, late, crossed, rowFaults>>,
             at[t] \notin Bound \union Writing, at'[t] \notin Writing
      PROVE  RowIsDue'
  <2> SUFFICES ASSUME Unhindered' PROVE RowIsDue'
    BY DEF RowIsDue
  <2>1. Unhindered
    BY <1>4 DEF Unhindered
  <2>2. ASSUME NEW f \in Fields, Covered(f) PROVE Covered(f)'
    <3>1. PICK u \in BThreads : Brings(u, f)
      BY <2>2 DEF Covered
    <3>2. u # t
      BY <1>4, <3>1 DEF Brings, Writing, Loaded
    <3>3. Brings(u, f)'
      BY <1>4, <3>1, <3>2 DEF Brings, OthersStay
    <3> QED BY <3>3 DEF Covered
  <2>3. \A u \in BThreads : at'[u] \in Writing => at[u] \in Writing
    BY <1>4 DEF OthersStay
  <2>4. \A u \in BThreads : at[u] = "delete" => at'[u] = "delete"
    BY <1>4 DEF OthersStay, Writing
  <2> QED BY <1>4, <2>1, <2>2, <2>3, <2>4 DEF RowIsDue
<1>5. ASSUME NEW t \in BThreads, OthersStay(t), UNCHANGED <<tableRow, late, crossed, rowFaults>>,
             at'[t] \in Bound \/ (at'[t] = "query" /\ mine'[t] = slot'), slot' # NoEntry \/ UNCHANGED slot,
             at[t] # "delete"
      PROVE  RowIsDue'
  <2> SUFFICES ASSUME Unhindered' PROVE RowIsDue'
    BY DEF RowIsDue
  <2>1. Unhindered
    BY <1>5 DEF Unhindered
  <2>2. ASSUME NEW f \in Fields PROVE Covered(f)'
    BY <1>5 DEF Covered, Brings, Ahead, Fields
  <2>3. \A u \in BThreads : at[u] = "delete" => at'[u] = "delete"
    BY <1>5 DEF OthersStay
  <2> QED BY <1>5, <2>1, <2>2, <2>3 DEF RowIsDue
<1>6. ASSUME NEW t \in BThreads, OthersStay(t), UNCHANGED <<slot, objs, tableRow, late, crossed, rowFaults>>,
             at[t] \in {"query"} \union Loaded, at'[t] \in Loaded,
             \A f \in Fields : Brings(t, f) => Brings(t, f)'
      PROVE  RowIsDue'
  <2> SUFFICES ASSUME Unhindered' PROVE RowIsDue'
    BY DEF RowIsDue
  <2>1. Unhindered
    BY <1>6 DEF Unhindered
  <2>2. ASSUME NEW f \in Fields, Covered(f) PROVE Covered(f)'
    <3>1. PICK u \in BThreads : Brings(u, f)
      BY <2>2 DEF Covered
    <3>2. CASE u # t
      BY <1>6, <3>1, <3>2 DEF Brings, OthersStay, Covered
    <3>3. CASE u = t
      BY <1>6, <3>1, <3>3 DEF Covered
    <3> QED BY <3>2, <3>3
  <2>3. at[t] \in Writing /\ at[t] # "delete"
    BY <1>6 DEF Writing, Loaded
  <2>4. \A u \in BThreads : at[u] = "delete" => at'[u] = "delete"
    BY <1>6, <2>3 DEF OthersStay
  <2> QED BY <1>6, <2>1, <2>2, <2>3, <2>4 DEF RowIsDue
<1>7. ASSUME NEW t \in BThreads, Acts(t) \/ SayNothing(t) \/ Forget(t)
      PROVE  RowIsDue'
  <2>1. ASSUME NEW method, NEW place \in {"peek", "find", "pop"}, at[t] \in Outside, Begin(t, method, place)
        PROVE  RowIsDue'
    BY <1>4, <1>7, <2>1, ThreadsApart DEF Begin, MoveTo, cells, ThreadsTypeOK, Writing, Bound, Outside
  <2>2. CASE Acts(t) \/ Forget(t)
    BY <2>1, <2>2 DEF Acts, Ask, Report, CallEndpoint, Forget, Outside
  <2>3. CASE SayNothing(t)
    BY <1>4, <1>7, <2>3, ThreadsApart DEF SayNothing, MoveTo, cells, ghosts, ThreadsTypeOK, Writing, Bound
  <2> QED BY <1>7, <2>2, <2>3
<1>8. ASSUME NEW t \in BThreads, MethodStep(t)
      PROVE  RowIsDue'
  <2>1. OthersStay(t)
    BY <1>8, ThreadsApart
  <2>2. ASSUME NEW place \in Outside, Return(t, place) PROVE at'[t] \in Outside
    BY <2>2 DEF Return, MoveTo, ThreadsTypeOK
  <2>3. Onwards(t) \in Outside /\ "idle" \in Outside
    BY DEF Onwards, Outside
  <2>4. CASE Peek(t) \/ Test(t) \/ Compare(t) \/ Find(t)
    <3>1. CASE at'[t] \in {"promote", "act", "make"}
      <4>1. at[t] # "delete" /\ UNCHANGED <<slot, objs, tableRow, late, crossed, rowFaults>>
        BY <2>4 DEF Peek, Test, Compare, Find, cells, ghosts
      <4>2. CASE at'[t] = "make"
        <5>1. at[t] \notin Bound \union Writing
          BY <2>4 DEF Peek, Test, Compare, Find, Bound, Writing
        <5> QED BY <1>4, <2>1, <4>1, <4>2, <5>1 DEF Writing
      <4> QED BY <1>5, <2>1, <3>1, <4>1, <4>2 DEF Bound
    <3>2. CASE at'[t] \notin {"promote", "act", "make"}
      <4>1. at'[t] \in Outside \union {"test", "compare"}
        BY <2>2, <2>3, <2>4, <3>2 DEF Peek, Test, Compare, Find, MoveTo, ThreadsTypeOK
      <4> QED BY <1>4, <2>1, <2>4, <4>1 DEF Peek, Test, Compare, Find, cells, ghosts, Writing, Bound, Outside
    <3> QED BY <3>1, <3>2
  <2>5. CASE PromoteTo(t) \/ Act(t) \/ FinishSuccess(t) \/ FinishDegrade(t) \/ Trip(t) \/ SetDeadline(t)
    <3>1. at'[t] \in {"rest", "deadline", "persist"} /\ UNCHANGED <<slot, tableRow, late, crossed, rowFaults>>
      BY <2>5 DEF PromoteTo, Act, FinishSuccess, FinishDegrade, Trip, Trips, SetDeadline, Alter, MoveTo,
         ThreadsTypeOK
    <3>2. at[t] # "delete"
      BY <2>5 DEF PromoteTo, Act, FinishSuccess, FinishDegrade, Trip, Trips, SetDeadline
    <3> QED BY <1>5, <2>1, <3>1, <3>2 DEF Bound
  <2>6. CASE Make(t)
    BY <1>5, <2>1, <2>6 DEF Make, MoveTo, ghosts, ThreadsTypeOK, Bound
  <2>7. CASE LookUp(t)
    <3>1. CASE slot = NoEntry /\ Return(t, Onwards(t))
      <4>1. \A u \in BThreads : at[u] = "delete" => at'[u] = "delete"
        BY <2>1, <2>7 DEF OthersStay, LookUp
      <4> QED BY <2>7, <3>1, <4>1 DEF LookUp, cells, ghosts, RowIsDue, Unhindered
    <3>2. CASE slot # NoEntry /\ MoveTo(t, "query") /\ mine' = [mine EXCEPT ![t] = slot]
      BY <1>5, <2>1, <2>7, <3>2 DEF LookUp, MoveTo, cells, ghosts, ThreadsTypeOK
    <3> QED BY <2>7, <3>1, <3>2 DEF LookUp
  <2>8. CASE Query(t)
    <3>1. at[t] = "query" /\ at'[t] \in {"insert", "status"} /\ mine' = mine
      BY <2>8 DEF Query, MoveTo, ThreadsTypeOK
    <3>2. \A f \in Fields : {"insert", "status"} \subseteq Ahead(f)
      BY DEF Fields, Ahead
    <3>3. UNCHANGED <<slot, objs, tableRow, late, crossed, rowFaults>>
      BY <2>8 DEF Query, cells, ghosts
    <3>4. \A f \in Fields : Brings(t, f) => Brings(t, f)'
      BY <3>1, <3>2, <3>3 DEF Brings, Bound, Loaded
    <3> QED BY <1>6, <2>1, <3>1, <3>3, <3>4 DEF Loaded
  <2>9. CASE CopyField(t)
    <3>1. UNCHANGED <<slot, objs, tableRow, late, crossed, rowFaults, mine>>
      BY <2>9 DEF CopyField, Copied, cells, ghosts
    <3>2. at[t] \in Loaded \ {"commit"} /\ at'[t] \in Loaded
      BY <2>9 DEF CopyField, Copied, MoveTo, ThreadsTypeOK, Loaded
    <3>3. ASSUME NEW f \in Fields, Brings(t, f) PROVE Brings(t, f)'
      <4>1. mine[t] = slot /\ (at[t] \in Ahead(f) \/ Agree(f, draft[t], objs[slot]))
        BY <3>2, <3>3 DEF Brings, Bound, Loaded
      <4>2. at'[t] \in Ahead(f) \/ Agree(f, draft'[t], objs[slot])
        <5>1. draft[t] \in Timed
          BY DEF ThreadsTypeOK
        <5> QED BY <2>9, <4>1, <5>1 DEF CopyField, Copied, MoveTo, ThreadsTypeOK, Timed, Fields, Ahead, Agree
      <4> QED BY <3>1, <3>2, <4>1, <4>2 DEF Brings
    <3> QED BY <1>6, <2>1, <3>1, <3>2, <3>3
  <2>10. CASE Pop(t)
    <3>1. at'[t] = "delete" /\ slot' = NoEntry
      BY <2>10 DEF Pop, MoveTo, ThreadsTypeOK
    <3> QED BY <3>1 DEF RowIsDue
  <2>11. CASE Commit(t) \/ DeleteRow(t)
    <3> SUFFICES ASSUME Unhindered' PROVE RowIsDue'
      BY DEF RowIsDue
    <3>1. at[t] \in {"commit", "delete"} /\ at'[t] \in Outside
      BY <2>2, <2>3, <2>11 DEF Commit, DeleteRow
    <3>2. ~crossed' /\ rowFaults' = 0 /\ \A u \in BThreads : ~late'[u]
      BY DEF Unhindered
    <3>3. ~crossed /\ ~late[t]
      <4>1. crossed' = (crossed \/ late[t])
        BY <2>11 DEF Commit, DeleteRow
      <4> QED BY <3>2, <4>1
    <3>4. OthersAreLate(t) /\ rowFaults' = rowFaults
      <4>1. ~RowFault
        BY <3>2 DEF RowFault, ThreadsTypeOK
      <4>2. at[t] = "commit" => loaded[t] = tableRow
        BY <3>3 DEF OnTime, Loaded
      <4> QED BY <2>11, <4>1, <4>2 DEF Commit, DeleteRow
    <3>5. \A u \in BThreads \ {t} : ~late[u] /\ at[u] \notin Writing
      <4> SUFFICES ASSUME NEW u \in BThreads \ {t} PROVE ~late[u] /\ at[u] \notin Writing
        OBVIOUS
      <4>1. late'[u] = (late[u] \/ at[u] \in Writing)
        BY <3>4 DEF OthersAreLate
      <4> QED BY <3>2, <4>1
    <3>6. Unhindered
      BY <3>2, <3>3, <3>4, <3>5 DEF Unhindered
    <3>7. \A u \in BThreads : at'[u] \notin Writing
      BY <2>1, <3>1, <3>5 DEF OthersStay, Outside, Writing
    <3>8. UNCHANGED <<slot, objs>>
      BY <2>11 DEF Commit, DeleteRow, cells
    <3>9. at[t] \in Writing
      BY <3>1 DEF Writing
    <3>10. ASSUME slot # NoEntry, NEW f \in Fields
           PROVE  Covered(f)' \/ (Brings(t, f) /\ at[t] = "commit")
      <4>1. PICK u \in BThreads : Brings(u, f)
        BY <3>6, <3>9, <3>10 DEF RowIsDue, Covered
      <4>2. CASE u = t
        BY <3>1, <4>1, <4>2 DEF Brings, Bound, Loaded
      <4>3. CASE u # t
        <5>1. at'[u] = at[u] /\ at[u] \in Bound
          BY <2>1, <3>5, <4>1, <4>3 DEF OthersStay, Brings, Writing, Loaded
        <5> QED BY <5>1 DEF Covered, Brings
      <4> QED BY <4>2, <4>3
    <3>11. CASE DeleteRow(t)
      <4>1. at[t] = "delete" /\ tableRow' = NoRow
        BY <3>2, <3>11 DEF DeleteRow, RowFault, ThreadsTypeOK
      <4> QED BY <3>8, <3>10, <4>1 DEF RowIsDue
    <3>12. CASE Commit(t)
      <4>1. at[t] = "commit" /\ slot # NoEntry /\ loaded[t] = tableRow
        BY <3>3, <3>12 DEF Commit, OnTime, Loaded
      <4>2. tableRow' = IF tableRow = NoRow THEN draft[t] ELSE Merged(t)
        BY <3>2, <3>12, <4>1 DEF Commit, RowFault, ThreadsTypeOK
      <4>3. draft[t] \in Timed /\ tableRow \in Timed \union {NoRow}
        BY DEF ThreadsTypeOK
      <4>4. tableRow' = draft[t]
        BY <4>1, <4>2, <4>3 DEF Merged, Timed
      <4>5. tableRow' # NoRow
        BY <4>3, <4>4
      <4>6. ASSUME NEW f \in Fields, Brings(t, f) PROVE Agree(f, tableRow', objs'[slot'])
        BY <3>8, <4>1, <4>4, <4>6 DEF Brings, Bound, Loaded, Ahead, Fields
      <4> QED BY <3>7, <3>8, <3>10, <4>1, <4>5, <4>6 DEF RowIsDue
    <3> QED BY <2>11, <3>11, <3>12
  <2> QED BY <1>8, <2>4, <2>5, <2>6, <2>7, <2>8, <2>9, <2>10, <2>11 DEF MethodStep
<1> QED BY <1>1, <1>2, <1>3, <1>7, <1>8 DEF ThreadsNext, Acts

-----------------------------------------------------------------------------
WorkPlaces == Bound \union {"query"} \union Loaded

(* A thread that is alone in the breaker makes of the entry what its method *)
(* says, step after step.                                                   *)
LEMMA AloneMakesProgress ==
  ASSUME ThreadsTypeOK, PlaceInv, AloneInv, [ThreadsNext]_threadVars, PlaceInv', ThreadsTypeOK'
  PROVE  AloneInv'
<1> USE ThreadsAssumption
<1>1. CASE UNCHANGED threadVars
  BY <1>1 DEF threadVars, cells, locals, ghosts, AloneInv, Inside, Progress, LiveEntry
<1>2. CASE CreateAgain \/ SecondPasses
  <2>1. alone' = (alone /\ NoneInside) /\ at' = at
    BY <1>2 DEF CreateAgain, SecondPasses, locals
  <2> QED BY <2>1 DEF AloneInv, NoneInside, Inside
<1>3. CASE BootAgain
  BY <1>3 DEF BootAgain, Boots, AloneInv, Inside, Outside
<1>4. ASSUME NEW t \in BThreads, OthersStay(t), alone => \A u \in BThreads \ {t} : ~Inside(u),
             alone' => alone,
             alone' /\ Inside(t)' => Progress(t)'
      PROVE  AloneInv'
  BY <1>4 DEF AloneInv, OthersStay, Inside
<1>5. ASSUME NEW t \in BThreads, Acts(t) \/ SayNothing(t) \/ Forget(t)
      PROVE  AloneInv'
  <2>1. OthersStay(t)
    BY <1>5, ThreadsApart
  <2>2. CASE SayNothing(t)
    <3>1. \A u \in BThreads : Inside(u)' => u # t /\ Inside(u)
      BY <2>1, <2>2 DEF SayNothing, MoveTo, ThreadsTypeOK, OthersStay, Inside, Outside
    <3>2. ASSUME NEW u \in BThreads \ {t}, Progress(u) PROVE Progress(u)'
      BY <2>1, <2>2, <3>2 DEF SayNothing, cells, ghosts, OthersStay, Progress, LiveEntry
    <3>3. alone' = alone
      BY <2>2 DEF SayNothing, ghosts
    <3> QED BY <3>1, <3>2, <3>3 DEF AloneInv
  <2>3. ASSUME NEW method \in Ops \ {"none"}, NEW place \in {"peek", "find", "pop"}, Begin(t, method, place),
               listed' = (listed /\ method # "forget"),
               method \in {"degrade", "kill", "resume"} => listed
        PROVE  AloneInv'
    <3> SUFFICES ASSUME alone', NEW u \in BThreads, Inside(u)'
                 PROVE  (\A v \in BThreads \ {u} : ~Inside(v)') /\ Progress(u)'
      BY DEF AloneInv
    <3>1. NoneInside
      BY <2>3 DEF Begin
    <3>2. u = t /\ \A v \in BThreads \ {u} : ~Inside(v)'
      BY <2>1, <3>1 DEF OthersStay, NoneInside, Inside
    <3>3. at'[t] = place /\ op'[t] = method /\ before' = LiveEntry /\ LiveEntry' = LiveEntry
      BY <2>3, <3>1 DEF Begin, MoveTo, cells, LiveEntry, ThreadsTypeOK
    <3> QED BY <2>3, <3>2, <3>3 DEF Progress, Bound, Loaded
  <2>4. CASE Acts(t) \/ Forget(t)
    <3>1. CASE Forget(t)
      BY <2>3, <3>1 DEF Forget, Ops
    <3>2. CASE Acts(t)
      <4>1. PICK method \in Ops : Ask(t, method) \/ Report(t, method) \/ CallEndpoint(t, method)
        BY <3>2 DEF Acts
      <4> QED BY <2>3, <4>1 DEF Ask, Report, CallEndpoint, Ops, ThreadsTypeOK
    <3> QED BY <2>4, <3>1, <3>2
  <2> QED BY <1>5, <2>2, <2>4
<1>6. ASSUME NEW t \in BThreads, MethodStep(t)
      PROVE  AloneInv'
  <2>1. OthersStay(t)
    BY <1>6, ThreadsApart
  <2>2. Inside(t)
    BY <1>6 DEF MethodStep, Peek, Test, Compare, PromoteTo, Find, Make, Act, FinishSuccess, FinishDegrade,
                Trip, SetDeadline, LookUp, Query, CopyField, Commit, Pop, DeleteRow, Inside, Outside
  <2>3. alone' = alone
    BY <1>6 DEF MethodStep, Peek, Test, Compare, PromoteTo, Find, Make, Act, FinishSuccess, FinishDegrade,
                Trip, Trips, SetDeadline, LookUp, Query, CopyField, Copied, Commit, Pop, DeleteRow, Alter, ghosts
  <2>4. SUFFICES ASSUME alone, Progress(t), Inside(t)' PROVE Progress(t)'
    BY <1>4, <2>1, <2>2, <2>3 DEF AloneInv
  <2>5. InPlace(t) /\ InPlace(t)'
    BY DEF PlaceInv
  <2>6. ASSUME NEW place \in Outside, Return(t, place) PROVE FALSE
    BY <2>4, <2>6 DEF Return, MoveTo, ThreadsTypeOK, Inside
  <2>7. Onwards(t) \in Outside /\ "idle" \in Outside
    BY DEF Onwards, Outside
  <2>8. Was(before) \in Timed
    BY DefaultTyped DEF Was, ThreadsTypeOK
  <2>9. CASE Peek(t)
    <3>1. /\ slot # NoEntry /\ mine' = [mine EXCEPT ![t] = slot] /\ at'[t] = "test"
          /\ UNCHANGED <<op, cells, before, listed, now>>
      BY <2>6, <2>7, <2>9 DEF Peek, MoveTo, ThreadsTypeOK
    <3>2. objs[slot] = before
      BY <2>4, <2>9, <3>1 DEF Peek, Progress, LiveEntry
    <3> QED BY <2>4, <3>1, <3>2 DEF Progress, cells, Bound, Loaded, ThreadsTypeOK
  <2>10. CASE Test(t)
    <3>1. /\ objs[mine[t]].status # "healthy" /\ objs[mine[t]].tripped # NotTripped /\ at'[t] = "compare"
          /\ UNCHANGED <<op, mine, cells, before, listed, now>>
      BY <2>6, <2>7, <2>10 DEF Test, MoveTo, ThreadsTypeOK
    <3>2. slot # NoEntry /\ mine[t] = slot /\ objs[slot] = before
      BY <2>4, <2>10 DEF Test, Progress
    <3> QED BY <2>4, <3>1, <3>2 DEF Progress, cells, Bound, Loaded
  <2>11. CASE Compare(t)
    <3>1. /\ objs[mine[t]].tripped <= now /\ at'[t] = "promote"
          /\ aim'[t] = IF objs[mine[t]].status = "dead" THEN "degraded" ELSE "healthy"
          /\ UNCHANGED <<op, mine, cells, before, listed, now>>
      BY <2>6, <2>7, <2>11 DEF Compare, MoveTo, ThreadsTypeOK
    <3>2. /\ slot # NoEntry /\ mine[t] = slot /\ objs[slot] = before
          /\ before.status # "healthy" /\ before.tripped # NotTripped
      BY <2>4, <2>11 DEF Compare, Progress
    <3>3. before \in Timed
      BY <3>2, <2>5, <2>11 DEF Compare, InPlace, ThreadsTypeOK
    <3>4. Promoted(before).status = aim'[t]
      BY <3>1, <3>2, <3>3 DEF Promoted, Timed
    <3>5. Overdue(before, now)'
      BY <3>1, <3>2 DEF Overdue
    <3>6. before' = before /\ Promoted(before)' = Promoted(before)
      BY <3>1 DEF Promoted
    <3> QED BY <2>4, <3>1, <3>2, <3>4, <3>5, <3>6 DEF Progress, cells, Bound, Loaded
  <2> DEFINE h == objs[slot]
  <2>12. ASSUME at[t] \in WorkPlaces \/ at[t] = "promote"
         PROVE  /\ slot \in Objects /\ mine[t] = slot /\ slot # NoEntry /\ h \in Timed
                /\ \A g, place : Alter(t, g, place) =>
                     /\ objs'[slot] = g /\ at'[t] = place
                     /\ UNCHANGED <<slot, mine, op, tableRow, loaded, draft, before, listed, now>>
    <3>1. slot \in Objects /\ mine[t] = slot /\ slot # NoEntry /\ h \in Timed
      BY <2>4, <2>12 DEF Progress, WorkPlaces, Bound, Loaded, ThreadsTypeOK
    <3> QED BY <3>1 DEF Alter, MoveTo, ThreadsTypeOK
  <2>13. CASE PromoteTo(t)
    <3>1. /\ objs'[slot] = [h EXCEPT !.status = aim[t], !.tripped = NotTripped] /\ at'[t] = "persist"
          /\ slot # NoEntry /\ mine[t] = slot
          /\ UNCHANGED <<slot, mine, op, before, listed, now>>
      BY <2>12, <2>13 DEF PromoteTo
    <3>2. before = h /\ Overdue(before, now) /\ aim[t] = Promoted(before).status /\ h \in Timed
      BY <2>4, <2>12, <2>13 DEF PromoteTo, Progress
    <3>3. objs'[slot] = Promoted(before)
      BY <3>1, <3>2 DEF Promoted, Timed
    <3>4. op[t] \in {"admit", "probe"}
      BY <2>5, <2>13 DEF PromoteTo, InPlace
    <3>5. Outcome(op[t], before, now, objs[slot])'
      BY <3>1, <3>2, <3>3, <3>4 DEF Outcome
    <3> QED BY <2>4, <3>1, <3>5 DEF Progress, Bound, Loaded
  <2>14. CASE Find(t)
    <3>1. LiveEntry = before /\ UNCHANGED <<op, cells, before, listed, now>>
      BY <2>4, <2>14 DEF Find, Progress, ghosts
    <3>2. CASE slot = NoEntry /\ at'[t] = "make"
      BY <2>4, <3>1, <3>2 DEF Progress, LiveEntry, cells, Bound, Loaded
    <3>3. CASE slot # NoEntry /\ at'[t] = "act" /\ mine'[t] = slot
      <4>1. objs[slot] = Was(before)
        BY <3>1, <3>3 DEF LiveEntry, Was, ThreadsTypeOK
      <4> QED BY <2>4, <3>1, <3>3, <4>1 DEF Progress, cells, Bound, Loaded, Was
    <3> QED BY <2>14, <3>2, <3>3 DEF Find, MoveTo, ThreadsTypeOK
  <2>15. CASE Make(t)
    <3>1. slot = NoEntry /\ before = NoEntry
      BY <2>4, <2>15 DEF Make, Progress
    <3>2. /\ slot' # NoEntry /\ objs'[slot'] = Default /\ mine'[t] = slot' /\ at'[t] = "act"
          /\ UNCHANGED <<op, before, listed, now>>
      BY <2>15 DEF Make, MoveTo, ghosts, ThreadsTypeOK
    <3> QED BY <2>4, <3>1, <3>2 DEF Progress, Bound, Loaded, Was
  <2>16. CASE Act(t)
    <3>1. PICK w \in BWeights :
            /\ objs'[slot] = FirstPart(op[t], h, w)
            /\ at'[t] = IF op[t] \in {"succeed", "fail", "degrade"} THEN "rest" ELSE "persist"
            /\ slot # NoEntry /\ mine[t] = slot
            /\ UNCHANGED <<slot, mine, op, before, listed, now>>
      BY <2>12, <2>16 DEF Act, WorkPlaces, Bound
    <3>2. h = Was(before)
      BY <2>4, <2>16 DEF Act, Progress
    <3>3. op[t] \in {"succeed", "fail", "reset", "degrade", "kill", "resume"}
      BY <2>5, <2>16 DEF Act, InPlace
    <3>5. CASE op[t] \in {"succeed", "fail", "degrade"}
      <4>1. Half(op[t], before, objs[slot])'
        BY <3>1, <3>2, <3>5 DEF Half, FirstPart
      <4> QED BY <2>4, <3>1, <3>5, <4>1 DEF Progress, Bound, Loaded
    <3>6. CASE op[t] \in {"reset", "kill", "resume"}
      <4>1. Outcome(op[t], before, now, objs[slot])'
        BY <3>1, <3>2, <3>6 DEF Outcome, FirstPart
      <4> QED BY <2>4, <3>1, <3>6, <4>1 DEF Progress, Bound, Loaded
    <3> QED BY <3>3, <3>5, <3>6
  <2>17. CASE FinishSuccess(t)
    <3>1. /\ objs'[slot] = [h EXCEPT !.tripped = NotTripped, !.override = "none"] /\ at'[t] = "persist"
          /\ slot # NoEntry /\ mine[t] = slot
          /\ UNCHANGED <<slot, mine, op, before, listed, now>>
      BY <2>12, <2>17 DEF FinishSuccess, WorkPlaces, Bound
    <3>2. op[t] = "succeed" /\ h = [Was(before) EXCEPT !.status = "healthy", !.failures = 0]
      BY <2>4, <2>17 DEF FinishSuccess, Progress, Half
    <3>3. objs'[slot] = Default
      BY <2>8, <3>1, <3>2 DEF Timed, Default
    <3>4. Outcome(op[t], before, now, objs[slot])'
      BY <3>1, <3>2, <3>3 DEF Outcome
    <3> QED BY <2>4, <3>1, <3>4 DEF Progress, Bound, Loaded
  <2>18. CASE FinishDegrade(t)
    <3>1. /\ objs'[slot] = [h EXCEPT !.tripped = now + DegradedCooldown, !.override = "degraded"]
          /\ at'[t] = "persist" /\ slot # NoEntry /\ mine[t] = slot
          /\ UNCHANGED <<slot, mine, op, before, listed, now>>
      BY <2>12, <2>18 DEF FinishDegrade, WorkPlaces, Bound
    <3>2. op[t] = "degrade" /\ h = [Was(before) EXCEPT !.status = "degraded"]
      BY <2>4, <2>18 DEF FinishDegrade, Progress, Half
    <3>3. objs'[slot] = [Was(before) EXCEPT !.status = "degraded", !.tripped = now + DegradedCooldown,
                                    !.override = "degraded"]
      BY <2>8, <3>1, <3>2 DEF Timed
    <3>4. Outcome(op[t], before, now, objs[slot])'
      BY <3>1, <3>2, <3>3 DEF Outcome
    <3> QED BY <2>4, <3>1, <3>4 DEF Progress, Bound, Loaded
  <2>19. CASE Trip(t)
    <3>1. op[t] = "fail" /\ at[t] = "rest"
      BY <2>19 DEF Trip, Trips
    <3>2. PICK w \in BWeights : h = [Was(before) EXCEPT !.failures = Saturate(Was(before).failures + w)]
      BY <2>4, <3>1 DEF Progress, Half
    <3> DEFINE n == Saturate(Was(before).failures + w)
    <3>3. h.failures = n /\ n \in Nat
      <4>1. Was(before).failures + w \in Nat
        BY <2>8, ThresholdAssumption DEF Timed
      <4> QED BY <2>8, <3>2, <4>1, ThresholdAssumption DEF Timed, Saturate
    <3>4. before' = before
      BY <2>19 DEF Trip, Trips, Alter
    <3>5. ASSUME NEW v \in {"dead", "degraded"}, Alter(t, [h EXCEPT !.status = v], "deadline"),
                 aim' = [aim EXCEPT ![t] = v], v = Level(n), n >= FailuresDead \/ n >= FailuresDegraded
          PROVE  Progress(t)'
      <4>1. /\ objs'[slot] = [h EXCEPT !.status = v] /\ at'[t] = "deadline" /\ slot # NoEntry /\ mine[t] = slot
            /\ UNCHANGED <<slot, mine, op, before, listed, now>>
        BY <2>12, <3>1, <3>5 DEF WorkPlaces, Bound
      <4>2. objs'[slot] = [Was(before) EXCEPT !.failures = n, !.status = Level(n)]
        BY <2>8, <3>2, <3>5, <4>1 DEF Timed
      <4>3. aim'[t] = Level(n)
        BY <3>5 DEF ThreadsTypeOK
      <4>4. Tripped(before, objs[slot], aim[t])'
        <5>1. TrippedAt(before, n, objs'[slot], aim'[t])
          BY <3>5, <4>2, <4>3 DEF TrippedAt
        <5> QED BY <4>1, <5>1 DEF Tripped
      <4> QED BY <2>4, <3>1, <4>1, <4>4 DEF Progress, Bound, Loaded
    <3>6. CASE Alter(t, h, "persist") /\ n < FailuresDead /\ n < FailuresDegraded
      <4>1. /\ objs'[slot] = h /\ at'[t] = "persist" /\ slot # NoEntry /\ mine[t] = slot
            /\ UNCHANGED <<slot, mine, op, before, listed, now>>
        BY <2>12, <3>1, <3>6 DEF WorkPlaces, Bound
      <4>2. h = Failed(Was(before), n, now)
        BY <3>2, <3>3, <3>6, ThresholdAssumption DEF Failed
      <4>3. Outcome(op[t], before, now, objs[slot])'
        BY <3>1, <4>1, <4>2 DEF Outcome
      <4> QED BY <2>4, <3>1, <4>1, <4>3 DEF Progress, Bound, Loaded
    <3>7. mine[t] = slot
      BY <2>12, <3>1 DEF WorkPlaces, Bound
    <3> QED BY <2>19, <3>3, <3>5, <3>6, <3>7, ThresholdAssumption DEF Trip, Trips, Level
  <2>20. CASE SetDeadline(t)
    <3>1. /\ objs'[slot] = [h EXCEPT !.tripped = now + (IF aim[t] = "dead" THEN DeadCooldown ELSE DegradedCooldown)]
          /\ at'[t] = "persist" /\ slot # NoEntry /\ mine[t] = slot
          /\ UNCHANGED <<slot, mine, op, before, listed, now>>
      BY <2>12, <2>20 DEF SetDeadline, WorkPlaces, Bound
    <3>2. PICK w \in BWeights : TrippedAt(before, Saturate(Was(before).failures + w), h, aim[t])
      BY <2>4, <2>20 DEF Progress, SetDeadline, Tripped
    <3>3. objs'[slot] = Failed(Was(before), Saturate(Was(before).failures + w), now)
      BY <2>8, <3>1, <3>2 DEF Failed, TrippedAt, Level, Wait, Timed
    <3>4. op[t] = "fail"
      BY <2>5, <2>20 DEF SetDeadline, InPlace
    <3>5. Outcome(op[t], before, now, objs[slot])'
      BY <3>1, <3>3, <3>4 DEF Outcome
    <3> QED BY <2>4, <3>1, <3>5 DEF Progress, Bound, Loaded
  <2>21. CASE LookUp(t)
    <3>1. /\ at'[t] = "query" /\ mine'[t] = slot /\ UNCHANGED <<op, cells, before, listed, now>>
      BY <2>6, <2>7, <2>21 DEF LookUp, MoveTo, ghosts, ThreadsTypeOK
    <3>2. slot # NoEntry /\ Outcome(op[t], before, now, h)
      BY <2>4, <2>21 DEF LookUp, Progress, Bound
    <3>3. Outcome(op[t], before, now, h)'
      BY <3>1, <3>2 DEF cells
    <3> QED BY <2>4, <3>1, <3>2, <3>3 DEF Progress, Bound, Loaded, cells
  <2>22. CASE Query(t)
    <3>1. /\ at'[t] \in {"insert", "status"} /\ loaded'[t] = tableRow
          /\ UNCHANGED <<op, mine, cells, tableRow, before, listed, now>>
      BY <2>22 DEF Query, MoveTo, ghosts, ThreadsTypeOK
    <3>2. slot # NoEntry /\ mine[t] = slot /\ Outcome(op[t], before, now, h)
      BY <2>4, <2>22 DEF Query, Progress
    <3>3. Outcome(op[t], before, now, h)'
      BY <3>1, <3>2 DEF cells
    <3>4. \A f \in Fields : at'[t] \in Ahead(f)
      BY <3>1 DEF Fields, Ahead
    <3> QED BY <2>4, <3>1, <3>2, <3>3, <3>4 DEF Progress, Bound, Loaded, cells
  <2>23. CASE CopyField(t)
    <3>1. UNCHANGED <<op, mine, loaded, cells, tableRow, before, listed, now>>
      BY <2>23 DEF CopyField, Copied, ghosts
    <3>2. at[t] \in Loaded /\ at'[t] \in Loaded
      BY <2>23 DEF CopyField, Copied, MoveTo, ThreadsTypeOK, Loaded
    <3>3. slot # NoEntry /\ mine[t] = slot /\ Outcome(op[t], before, now, h) /\ loaded[t] = tableRow
      BY <2>4, <3>2 DEF Progress
    <3>4. Outcome(op[t], before, now, h)'
      BY <3>1, <3>3 DEF cells
    <3>5. ASSUME NEW f \in Fields, at'[t] \notin Ahead(f) PROVE Agree(f, draft'[t], h)
      <4>1. draft[t] \in Timed /\ (at[t] \notin Ahead(f) => Agree(f, draft[t], h))
        BY <2>4, <3>2 DEF ThreadsTypeOK, Progress
      <4> QED BY <2>23, <3>3, <3>5, <4>1 DEF CopyField, Copied, MoveTo, ThreadsTypeOK, Timed, Fields, Ahead,
                 Agree
    <3>6. at[t] # "forget" /\ objs' = objs /\ slot' = slot
      BY <3>1, <3>2 DEF cells, Loaded
    <3> QED BY <2>4, <3>1, <3>2, <3>3, <3>4, <3>5, <3>6 DEF Progress, Bound, Loaded
  <2>24. CASE Commit(t) \/ DeleteRow(t)
    BY <2>6, <2>7, <2>24 DEF Commit, DeleteRow
  <2>25. CASE Pop(t)
    <3>1. /\ at'[t] = "delete" /\ slot' = NoEntry /\ UNCHANGED <<op, listed>>
      BY <2>25 DEF Pop, MoveTo, ThreadsTypeOK
    <3> QED BY <2>4, <3>1 DEF Progress, Bound, Loaded
  <2> HIDE DEF h
  <2> QED BY <1>6, <2>9, <2>10, <2>11, <2>13, <2>14, <2>15, <2>16, <2>17, <2>18, <2>19, <2>20, <2>21, <2>22,
             <2>23, <2>24, <2>25 DEF MethodStep
<1> QED BY <1>1, <1>2, <1>3, <1>5, <1>6 DEF ThreadsNext, Acts

-----------------------------------------------------------------------------
(* CircuitBreaker's entry, which keeps what is left until the deadline,     *)
(* field by field.                                                          *)
LEMMA LeftFields ==
  ASSUME NEW h \in Timed, NEW c \in Nat
  PROVE  Left(h, c) = [status |-> h.status, failures |-> h.failures,
                       tripped |-> IF h.tripped = NotTripped THEN NotTripped
                                   ELSE IF h.tripped > c THEN h.tripped - c ELSE 0,
                       override |-> h.override]
BY DEF Left, Timed

(* What a method makes of an entry is what CircuitBreaker makes of the time *)
(* that is left of it.                                                      *)
LEMMA OutcomesAreAtomic ==
  ASSUME NEW b \in Timed \union {NoEntry}, NEW c \in Nat, NEW h \in Timed, NEW method,
         Outcome(method, b, c, h)
  PROVE  LET x == Left(Was(b), c) IN
         /\ method \in {"admit", "probe"} =>
              b # NoEntry /\ Atomic!Expired(x) /\ Left(h, c) = Atomic!Promote(x)
         /\ method = "succeed" => Left(h, c) = Atomic!RecordSuccess(x)
         /\ method = "fail" => \E w \in BWeights : Left(h, c) = Atomic!RecordFailure(x, w)
         /\ method = "reset" => Left(h, c) = Atomic!ResetHealth(x)
         /\ method \in {"degrade", "kill", "resume"} => Left(h, c) = Atomic!ForceStatus(x, method)
<1> DEFINE e == Was(b)
           x == Left(e, c)
<1>1. e \in Timed
  BY DefaultTyped DEF Was
<1>2. /\ x.status = e.status /\ x.failures = e.failures /\ x.override = e.override
      /\ x.tripped = IF e.tripped = NotTripped THEN NotTripped
                     ELSE IF e.tripped > c THEN e.tripped - c ELSE 0
      /\ x = [status |-> x.status, failures |-> x.failures, tripped |-> x.tripped, override |-> x.override]
  BY <1>1, LeftFields
<1>3. Left(h, c) = [status |-> h.status, failures |-> h.failures,
                    tripped |-> IF h.tripped = NotTripped THEN NotTripped
                                ELSE IF h.tripped > c THEN h.tripped - c ELSE 0,
                    override |-> h.override]
  BY LeftFields
<1> HIDE DEF x, e
<1>4. ASSUME h = Default
      PROVE  Left(h, c) = [status |-> "healthy", failures |-> 0, tripped |-> NotTripped, override |-> "none"]
  BY <1>3, <1>4 DEF Default
<1>5. ASSUME method \in {"admit", "probe"}
      PROVE  b # NoEntry /\ Atomic!Expired(x) /\ Left(h, c) = Atomic!Promote(x)
  <2>1. b # NoEntry /\ Overdue(b, c) /\ h = Promoted(b)
    BY <1>5 DEF Outcome
  <2>2. e = b
    BY <2>1 DEF e, Was
  <2>3. Atomic!Expired(x)
    BY <1>1, <1>2, <2>1, <2>2 DEF Overdue, Atomic!Expired, NotTripped, Timed, Times
  <2>4. h.status = (IF e.status = "dead" THEN "degraded" ELSE "healthy") /\ h.failures = e.failures
        /\ h.tripped = NotTripped /\ h.override = e.override
    BY <1>1, <2>1, <2>2 DEF Promoted, Timed
  <2> QED BY <1>2, <1>3, <2>1, <2>3, <2>4 DEF Atomic!Promote, Atomic!NotTripped, NotTripped
<1>6. ASSUME method = "fail"
      PROVE  \E w \in BWeights : Left(h, c) = Atomic!RecordFailure(x, w)
  <2>1. PICK w \in BWeights : h = Failed(e, Saturate(e.failures + w), c)
    BY <1>6 DEF Outcome, e
  <2> DEFINE n == Saturate(e.failures + w)
  <2>2. n = Atomic!Saturate(x.failures + w)
    BY <1>2 DEF Saturate, Atomic!Saturate
  <2>3. n \in Nat
    <3>1. e.failures + w \in Nat
      BY <1>1, ThreadsAssumption, ThresholdAssumption DEF Timed
    <3> QED BY <3>1, ThresholdAssumption DEF Saturate
  <2> HIDE DEF n
  <2>4. CASE n >= FailuresDead \/ n >= FailuresDegraded
    <3>1. /\ h.status = Level(n) /\ h.failures = n /\ h.tripped = c + Wait(n) /\ h.override = e.override
      BY <1>1, <2>1, <2>4 DEF Failed, Timed, n
    <3>2. Wait(n) \in Nat
      BY CooldownAssumption DEF Wait
    <3>3. Left(h, c) = [status |-> Level(n), failures |-> n, tripped |-> Wait(n), override |-> e.override]
      <4>1. h.tripped # NotTripped /\ (IF h.tripped > c THEN h.tripped - c ELSE 0) = Wait(n)
        BY <3>1, <3>2 DEF NotTripped
      <4> QED BY <1>3, <3>1, <4>1
    <3>4. Atomic!RecordFailure(x, w) = [status |-> Level(n), failures |-> n, tripped |-> Wait(n), override |-> e.override]
      BY <1>2, <2>2, <2>3, <2>4, ThresholdAssumption DEF Atomic!RecordFailure, Level, Wait
    <3> QED BY <3>3, <3>4
  <2>5. CASE ~(n >= FailuresDead \/ n >= FailuresDegraded)
    <3>1. /\ h.status = e.status /\ h.failures = n /\ h.tripped = e.tripped /\ h.override = e.override
      BY <1>1, <2>1, <2>5 DEF Failed, Timed, n
    <3>2. Atomic!RecordFailure(x, w) = [status |-> x.status, failures |-> n, tripped |-> x.tripped, override |-> x.override]
      BY <2>2, <2>3, <2>5, ThresholdAssumption DEF Atomic!RecordFailure
    <3> QED BY <1>2, <1>3, <3>1, <3>2
  <2> QED BY <2>4, <2>5
<1>7. ASSUME method = "degrade"
      PROVE  Left(h, c) = Atomic!Degrade(x)
  <2>1. h = [e EXCEPT !.status = "degraded", !.tripped = c + DegradedCooldown, !.override = "degraded"]
    BY <1>7 DEF Outcome, e
  <2>2. h.status = "degraded" /\ h.failures = e.failures /\ h.tripped = c + DegradedCooldown
        /\ h.override = "degraded"
    BY <1>1, <2>1 DEF Timed
  <2>3. h.tripped # NotTripped /\ (IF h.tripped > c THEN h.tripped - c ELSE 0) = DegradedCooldown
    BY <2>2, CooldownAssumption DEF NotTripped
  <2> QED BY <1>2, <1>3, <2>2, <2>3 DEF Atomic!Degrade
<1>8. ASSUME method = "kill"
      PROVE  Left(h, c) = Atomic!Kill(x)
  <2>1. h = [e EXCEPT !.status = "dead", !.tripped = NotTripped, !.override = "dead"]
    BY <1>8 DEF Outcome, e
  <2>2. h.status = "dead" /\ h.failures = e.failures /\ h.tripped = NotTripped /\ h.override = "dead"
    BY <1>1, <2>1 DEF Timed
  <2> QED BY <1>2, <1>3, <2>2 DEF Atomic!Kill, Atomic!NotTripped, NotTripped
<1>9. ASSUME method \in {"succeed", "reset", "resume"}
      PROVE  h = Default
  BY <1>9 DEF Outcome
<1>10. ASSUME method \in {"degrade", "kill", "resume"}
       PROVE  Left(h, c) = Atomic!ForceStatus(x, method)
  BY <1>4, <1>7, <1>8, <1>9, <1>10 DEF Atomic!ForceStatus, Atomic!ResetHealth, Atomic!NotTripped, NotTripped
<1> QED BY <1>4, <1>5, <1>6, <1>9, <1>10 DEF x, e, Atomic!RecordSuccess, Atomic!ResetHealth,
           Atomic!NotTripped, NotTripped

-----------------------------------------------------------------------------
\* What holds whichever thread is switched to next.
MethodsInv == ThreadsTypeOK /\ SlotInv /\ PlaceInv /\ OnTime /\ RowIsDue /\ DeadEndHasCause /\ AloneInv

(* What callers have seen stays what it was as long as the entry, the row,  *)
(* the clock, the configuration and the calls do.                           *)
LEMMA NothingSeen ==
  ASSUME UNCHANGED <<Seen, tableRow, now, rowFaults>>,
         StillListed' <=> StillListed, \A t \in BThreads : Calls(t)' <=> Calls(t)
  PROVE  UNCHANGED Atomic!vars
<1>1. /\ Shown(Seen, NoEntry)' = Shown(Seen, NoEntry) /\ Present(Seen, NoEntry)' = Present(Seen, NoEntry)
      /\ Shown(tableRow, NoRow)' = Shown(tableRow, NoRow) /\ Present(tableRow, NoRow)' = Present(tableRow, NoRow)
  BY DEF Shown, Present
<1>2. (IF StillListed THEN {Owners} ELSE {})' = (IF StillListed THEN {Owners} ELSE {})
  BY Zenon
<1>3. [t \in BThreads |-> IF Calls(t) THEN OneKey ELSE "idle"]'
        = [t \in BThreads |-> IF Calls(t) THEN OneKey ELSE "idle"]
  BY Zenon
<1> QED BY <1>1, <1>2, <1>3 DEF Atomic!vars

(* A deadline passes in memory and on disk by the same second.              *)
LEMMA SecondIsTick ==
  ASSUME ThreadsTypeOK, UNCHANGED <<Seen, tableRow, rowFaults>>, now' = now + 1,
         StillListed' <=> StillListed, \A t \in BThreads : Calls(t)' <=> Calls(t)
  PROVE  Atomic!Tick \/ UNCHANGED Atomic!vars
<1> DEFINE shown == Shown(Seen, NoEntry)
           onDisk == Shown(tableRow, NoRow)
<1>1. ASSUME NEW h \in Timed
      PROVE  Left(h, now + 1) = Atomic!Elapse(Left(h, now))
  <2>1. now \in Nat /\ now + 1 \in Nat
    BY DEF ThreadsTypeOK
  <2> DEFINE x == Left(h, now)
  <2>2. x = [status |-> h.status, failures |-> h.failures,
             tripped |-> IF h.tripped = NotTripped THEN NotTripped
                         ELSE IF h.tripped > now THEN h.tripped - now ELSE 0,
             override |-> h.override]
    BY <2>1, LeftFields
  <2>3. Left(h, now + 1) = [status |-> h.status, failures |-> h.failures,
             tripped |-> IF h.tripped = NotTripped THEN NotTripped
                         ELSE IF h.tripped > now + 1 THEN h.tripped - (now + 1) ELSE 0,
             override |-> h.override]
    BY <2>1, LeftFields
  <2>4. h.tripped \in Times
    BY DEF Timed
  <2> HIDE DEF x
  <2>5. Atomic!Elapse(x) = [status |-> x.status, failures |-> x.failures,
                            tripped |-> IF x.tripped > 0 THEN x.tripped - 1 ELSE x.tripped,
                            override |-> x.override]
    BY <2>2 DEF Atomic!Elapse
  <2>6. (IF h.tripped = NotTripped THEN NotTripped
         ELSE IF h.tripped > now + 1 THEN h.tripped - (now + 1) ELSE 0)
        = IF x.tripped > 0 THEN x.tripped - 1 ELSE x.tripped
    BY <2>1, <2>2, <2>4 DEF Times, NotTripped
  <2>7. x.status = h.status /\ x.failures = h.failures /\ x.override = h.override
    BY <2>2
  <2> QED BY <2>3, <2>5, <2>6, <2>7 DEF x
<1>2. DefaultHealth = Atomic!Elapse(DefaultHealth)
  BY DEF DefaultHealth, Atomic!Elapse, NotTripped
<1>3. Seen \in Timed \union {NoEntry} /\ tableRow \in Timed \union {NoRow}
  BY DEF Seen, LiveEntry, ThreadsTypeOK
<1>4. shown' = [k \in {OneKey} |-> Atomic!Elapse(shown[k])]
  BY <1>1, <1>2, <1>3 DEF Shown
<1>5. onDisk' = [k \in {OneKey} |-> Atomic!Elapse(onDisk[k])]
  BY <1>1, <1>2, <1>3 DEF Shown
<1>6. Present(Seen, NoEntry)' = Present(Seen, NoEntry) /\ Present(tableRow, NoRow)' = Present(tableRow, NoRow)
  BY DEF Present
<1>7. (IF StillListed THEN {Owners} ELSE {})' = (IF StillListed THEN {Owners} ELSE {})
  BY Zenon
<1>8. [t \in BThreads |-> IF Calls(t) THEN OneKey ELSE "idle"]'
        = [t \in BThreads |-> IF Calls(t) THEN OneKey ELSE "idle"]
  BY Zenon
<1>9. CASE \E k \in {OneKey} : shown[k].tripped > 0 \/ onDisk[k].tripped > 0
  BY <1>4, <1>5, <1>6, <1>7, <1>8, <1>9 DEF Atomic!Tick
<1>10. CASE ~\E k \in {OneKey} : shown[k].tripped > 0 \/ onDisk[k].tripped > 0
  <2>1. ASSUME NEW h, NEW c, h \in Timed
        PROVE  Left(h, c) = [Left(h, c) EXCEPT !.tripped = Left(h, c).tripped]
    BY <2>1 DEF Left, Timed
  <2>2. shown[OneKey] = [shown[OneKey] EXCEPT !.tripped = shown[OneKey].tripped]
        /\ onDisk[OneKey] = [onDisk[OneKey] EXCEPT !.tripped = onDisk[OneKey].tripped]
    BY <1>3, <2>1 DEF Shown, DefaultHealth
  <2>3. shown' = shown /\ onDisk' = onDisk
    <3>1. shown = [k \in {OneKey} |-> shown[k]] /\ onDisk = [k \in {OneKey} |-> onDisk[k]]
      BY DEF Shown
    <3> HIDE DEF shown, onDisk
    <3> QED BY <1>4, <1>5, <1>10, <2>2, <3>1 DEF Atomic!Elapse
  <2> QED BY <1>6, <1>7, <1>8, <2>3 DEF Atomic!vars
<1> QED BY <1>9, <1>10

(* A method that returns after a write, or after one that failed, is an     *)
(* Update of CircuitBreaker.                                                *)
LEMMA CommitIsUpdate ==
  ASSUME ThreadsTypeOK, ThreadsTypeOK', NEW t \in BThreads, Commit(t), Progress(t), ~NoneInside, NoneInside', NEW g,
         g = Left(objs[slot], now)
  PROVE  Atomic!Update(OneKey, g)
<1>1. slot # NoEntry /\ mine[t] = slot /\ slot \in Objects /\ loaded[t] = tableRow /\ at[t] = "commit"
  BY DEF Commit, Progress, Loaded, ThreadsTypeOK
<1>2. objs[slot] \in Timed /\ draft[t] \in Timed /\ tableRow \in Timed \union {NoRow}
  BY <1>1 DEF ThreadsTypeOK
<1>3. draft[t] = objs[slot]
  <2>1. \A f \in Fields : Agree(f, draft[t], objs[slot])
    BY <1>1 DEF Progress, Loaded, Fields, Ahead
  <2> QED BY <1>2, <2>1 DEF Fields, Agree, Timed
<1>4. UNCHANGED <<slot, objs, now>>
  BY DEF Commit, cells
<1>5. Seen' = objs[slot] /\ objs[slot] # NoEntry
  BY <1>1, <1>2, <1>4, ThreadsAssumption DEF Seen, LiveEntry
<1>6. Shown(Seen, NoEntry)' = [Shown(Seen, NoEntry) EXCEPT ![OneKey] = g]
  BY <1>4, <1>5 DEF Shown
<1>7. Present(Seen, NoEntry)' = Present(Seen, NoEntry) \union {OneKey}
  BY <1>5 DEF Present
<1>8. Atomic!Persist(OneKey, g)
  <2>1. CASE tableRow' = (IF tableRow = NoRow THEN draft[t] ELSE Merged(t)) /\ rowFaults' = rowFaults
    <3>1. tableRow # NoRow => Merged(t) = draft[t]
      BY <1>1, <1>2 DEF Merged, Timed
    <3>2. tableRow' = objs[slot] /\ tableRow' # NoRow
      BY <1>2, <1>3, <2>1, <3>1, ThreadsAssumption
    <3>3. Shown(tableRow, NoRow)' = [Shown(tableRow, NoRow) EXCEPT ![OneKey] = g]
      BY <1>4, <3>2 DEF Shown
    <3>4. Present(tableRow, NoRow)' = Present(tableRow, NoRow) \union {OneKey}
      BY <3>2 DEF Present
    <3> QED BY <2>1, <3>3, <3>4 DEF Atomic!Persist
  <2>2. CASE RowFault /\ tableRow' = tableRow
    <3>1. rowFaults < MaxEvents /\ rowFaults' = rowFaults + 1
      BY <2>2, ThreadsAssumption DEF RowFault, Happens, ThreadsTypeOK
    <3>2. Shown(tableRow, NoRow)' = Shown(tableRow, NoRow) /\ Present(tableRow, NoRow)' = Present(tableRow, NoRow)
      BY <1>4, <2>2 DEF Shown, Present
    <3> QED BY <3>1, <3>2 DEF Atomic!Persist, Atomic!DatabaseError
  <2> QED BY <1>1, <2>1, <2>2 DEF Commit
<1> QED BY <1>6, <1>7, <1>8 DEF Atomic!Update

(* A method that meets no other is a step of CircuitBreaker when it         *)
(* returns, and no step before.                                             *)
LEMMA ReturnsAreAtomic ==
  ASSUME MethodsInv, MethodsInv', NEW t \in BThreads, MethodStep(t), alone, ~Inside(t)'
  PROVE  Atomic!Next \/ UNCHANGED Atomic!vars
<1> USE DEF MethodsInv
<1>1. Inside(t)
  BY DEF MethodStep, Peek, Test, Compare, PromoteTo, Find, Make, Act, FinishSuccess, FinishDegrade,
         Trip, SetDeadline, LookUp, Query, CopyField, Commit, Pop, DeleteRow, Inside, Outside
<1>2. Progress(t) /\ InPlace(t) /\ \A u \in BThreads \ {t} : ~Inside(u)
  BY <1>1 DEF AloneInv, PlaceInv
<1>3. OthersStay(t)
  BY ThreadsApart
<1>4. ~NoneInside /\ NoneInside' /\ Seen = before
  BY <1>1, <1>2, <1>3 DEF NoneInside, OthersStay, Inside, Seen
<1>5. \A u \in BThreads \ {t} : op[u] = "none" /\ op'[u] = "none" /\ (Calls(u)' <=> Calls(u))
  BY <1>2, <1>3 DEF PlaceInv, InPlace, OthersStay, Inside, Calls
<1>6. op'[t] = "none" /\ (Calls(t)' <=> at'[t] = "calling")
  BY DEF PlaceInv, InPlace, Inside, Calls
<1>7. op[t] # "none" /\ (Calls(t) <=> op[t] \in {"succeed", "fail"})
  BY <1>1, <1>2 DEF InPlace, Calls, Inside, Outside
<1> DEFINE shown == Shown(Seen, NoEntry)
           held == Present(Seen, NoEntry)
           calls == [u \in BThreads |-> IF Calls(u) THEN OneKey ELSE "idle"]
           known == IF StillListed THEN {Owners} ELSE {}
           x == Left(Was(before), now)
<1>8. shown[OneKey] = x
  BY <1>4 DEF Shown, Was, Left, Default, DefaultHealth
<1>9. ASSUME NEW v, v = IF at'[t] = "calling" THEN OneKey ELSE "idle"
      PROVE  calls' = [calls EXCEPT ![t] = v]
  BY <1>5, <1>6, <1>9
<1>10. ASSUME op[t] # "forget", listed' = listed
       PROVE  known' = known /\ (StillListed' <=> StillListed) /\ (StillListed <=> listed)
  BY <1>5, <1>6, <1>10 DEF StillListed
\* Returns that have changed nothing.
<1>11. ASSUME UNCHANGED <<slot, objs, tableRow, listed, now, rowFaults>>, LiveEntry = before,
              at'[t] = "idle", op[t] \in {"admit", "probe"}
       PROVE  UNCHANGED Atomic!vars
  <2>1. Seen' = Seen
    BY <1>4, <1>11 DEF Seen, LiveEntry
  <2>2. \A u \in BThreads : Calls(u)' <=> Calls(u)
    BY <1>5, <1>6, <1>7, <1>11
  <2> QED BY <1>10, <1>11, <2>1, <2>2, NothingSeen
<1>12. ASSUME UNCHANGED <<slot, objs, tableRow, listed, now, rowFaults>>, LiveEntry = before,
              at'[t] = "calling", op[t] = "admit", Atomic!IsAvailable(x), ~Atomic!Expired(x)
       PROVE  Atomic!Admit(t, OneKey)
  <2>1. Seen' = Seen
    BY <1>4, <1>12 DEF Seen, LiveEntry
  <2>2. /\ shown' = shown /\ held' = held
        /\ Shown(tableRow, NoRow)' = Shown(tableRow, NoRow) /\ Present(tableRow, NoRow)' = Present(tableRow, NoRow)
    BY <1>12, <2>1 DEF Shown, Present
  <2>3. calls[t] = "idle"
    BY <1>7, <1>12
  <2>4. calls' = [calls EXCEPT ![t] = OneKey]
    BY <1>9, <1>12
  <2>5. Atomic!Check(OneKey)
    BY <1>8, <1>12, <2>2 DEF Atomic!Check, Atomic!memory, Atomic!database
  <2> QED BY <1>8, <1>10, <1>12, <2>3, <2>4, <2>5 DEF Atomic!Admit
<1>13. CASE Peek(t)
  <2>1. /\ slot = NoEntry /\ at'[t] = Onwards(t)
        /\ UNCHANGED <<slot, objs, tableRow, listed, now, rowFaults>>
    <3>1. ASSUME MoveTo(t, "test") PROVE FALSE
      BY <3>1 DEF MoveTo, Inside, Outside, ThreadsTypeOK
    <3> QED BY <1>13, <3>1 DEF Peek, Return, MoveTo, cells, ThreadsTypeOK
  <2>2. LiveEntry = before /\ before = NoEntry /\ op[t] \in {"admit", "probe"}
    BY <1>2, <1>13, <2>1 DEF Peek, Progress, InPlace, LiveEntry
  <2>3. Atomic!IsAvailable(x) /\ ~Atomic!Expired(x)
    BY <2>2 DEF Was, Default, Left, Atomic!IsAvailable, Atomic!Expired, NotTripped
  <2> QED BY <1>11, <1>12, <2>1, <2>2, <2>3 DEF Onwards, Atomic!Next
<1>14. ASSUME at[t] \in {"test", "compare"}
       PROVE  /\ slot # NoEntry /\ mine[t] = slot /\ objs[slot] = before /\ LiveEntry = before /\ before \in Timed
              /\ op[t] \in {"admit", "probe"} /\ Was(before) = before
              /\ x.status = before.status
              /\ x.tripped = IF before.tripped = NotTripped THEN NotTripped
                             ELSE IF before.tripped > now THEN before.tripped - now ELSE 0
  <2>1. slot # NoEntry /\ mine[t] = slot /\ objs[slot] = before /\ op[t] \in {"admit", "probe"}
    BY <1>2, <1>14 DEF Progress, InPlace
  <2>2. before \in Timed
    BY <2>1 DEF ThreadsTypeOK
  <2>3. Was(before) = before
    BY <2>2, ThreadsAssumption DEF Was
  <2>4. now \in Nat
    BY DEF ThreadsTypeOK
  <2>5. x = [status |-> before.status, failures |-> before.failures,
             tripped |-> IF before.tripped = NotTripped THEN NotTripped
                         ELSE IF before.tripped > now THEN before.tripped - now ELSE 0,
             override |-> before.override]
    BY <2>2, <2>3, <2>4, LeftFields
  <2> QED BY <2>1, <2>2, <2>3, <2>5 DEF LiveEntry
<1>15. CASE Test(t)
  <2>1. /\ objs[mine[t]].status = "healthy" \/ objs[mine[t]].tripped = NotTripped
        /\ at'[t] = IF objs[mine[t]].status = "dead" THEN "idle" ELSE Onwards(t)
        /\ UNCHANGED <<slot, objs, tableRow, listed, now, rowFaults>>
    <3>1. ASSUME MoveTo(t, "compare") PROVE FALSE
      BY <3>1 DEF MoveTo, Inside, Outside, ThreadsTypeOK
    <3> QED BY <1>15, <3>1 DEF Test, Return, MoveTo, cells, ThreadsTypeOK
  <2>2. at[t] = "test"
    BY <1>15 DEF Test
  <2>3. ~Atomic!Expired(x)
    BY <1>14, <2>1, <2>2 DEF Atomic!Expired, NotTripped
  <2>4. before.status # "dead" => Atomic!IsAvailable(x)
    BY <1>14, <2>1, <2>2 DEF Atomic!IsAvailable, Atomic!NotTripped, NotTripped, Timed, Statuses
  <2> QED BY <1>11, <1>12, <1>14, <2>1, <2>2, <2>3, <2>4 DEF Onwards, Atomic!Next
<1>16. CASE Compare(t)
  <2>1. at'[t] = "idle" /\ UNCHANGED <<slot, objs, tableRow, listed, now, rowFaults>>
    <3>1. ASSUME MoveTo(t, "promote") PROVE FALSE
      BY <3>1 DEF MoveTo, Inside, Outside, ThreadsTypeOK
    <3> QED BY <1>16, <3>1 DEF Compare, Return, MoveTo, cells, ThreadsTypeOK
  <2>2. at[t] = "compare"
    BY <1>16 DEF Compare
  <2> QED BY <1>11, <1>14, <2>1, <2>2
<1>17. CASE LookUp(t)
  <2>1. at[t] = "persist" /\ slot # NoEntry
    BY <1>2, <1>17 DEF LookUp, Progress, Bound
  <2>2. at'[t] = "query"
    BY <1>17, <2>1 DEF LookUp, MoveTo, ThreadsTypeOK
  <2> QED BY <2>2 DEF Inside, Outside
<1>18. CASE Commit(t)
  <2>1. at[t] = "commit" /\ at'[t] = Onwards(t) /\ listed' = listed
    BY <1>18 DEF Commit, Return, MoveTo, ThreadsTypeOK
  <2>2. op[t] \notin {"none", "forget"} /\ Outcome(op[t], before, now, objs[slot]) /\ objs[slot] \in Timed
    BY <1>2, <2>1 DEF Progress, InPlace, Loaded, Outside, ThreadsTypeOK
  <2>3. ASSUME NEW g, g = Left(objs[slot], now) PROVE Atomic!Update(OneKey, g)
    BY <1>2, <1>4, <1>18, <2>3, CommitIsUpdate
  <2>4. now \in Nat /\ before \in Timed \union {NoEntry}
    BY DEF ThreadsTypeOK
  <2>5. known' = known /\ (StillListed <=> listed)
    BY <1>10, <2>1, <2>2
  <2>6. CASE op[t] \in {"admit", "probe"}
    <3>1. Atomic!Expired(x) /\ Left(objs[slot], now) = Atomic!Promote(x)
      BY <2>2, <2>4, <2>6, OutcomesAreAtomic
    <3>2. Atomic!Check(OneKey)
      BY <1>8, <2>3, <3>1 DEF Atomic!Check
    <3>3. CASE op[t] = "admit"
      <4>1. calls[t] = "idle" /\ calls' = [calls EXCEPT ![t] = OneKey]
        BY <1>7, <1>9, <2>1, <3>3 DEF Onwards
      <4>2. Atomic!IsAvailable(x)
        BY <3>1 DEF Atomic!IsAvailable
      <4> QED BY <1>8, <2>5, <3>2, <4>1, <4>2 DEF Atomic!Admit, Atomic!Next
    <3>4. CASE op[t] = "probe"
      <4>1. calls' = calls
        <5>1. calls[t] = "idle" /\ at'[t] = "idle"
          BY <1>7, <2>1, <3>4 DEF Onwards
        <5> QED BY <1>5, <1>6, <5>1
      <4> QED BY <1>8, <2>5, <3>1, <3>2, <4>1 DEF Atomic!ProbeOnly, Atomic!Next
    <3> QED BY <2>6, <3>3, <3>4
  <2>7. CASE op[t] \in {"succeed", "fail"}
    <3>1. calls[t] = OneKey /\ OneKey # "idle"
      BY <1>7, <2>7 DEF OneKey
    <3>2. calls' = [calls EXCEPT ![t] = "idle"]
      BY <1>9, <2>1, <2>7 DEF Onwards
    <3>3. CASE op[t] = "succeed"
      <4>1. Left(objs[slot], now) = Atomic!RecordSuccess(x)
        BY <2>2, <2>4, <3>3, OutcomesAreAtomic
      <4> QED BY <1>8, <2>3, <2>5, <3>1, <3>2, <4>1 DEF Atomic!Succeed, Atomic!Next
    <3>4. CASE op[t] = "fail"
      <4>1. PICK w \in BWeights : Left(objs[slot], now) = Atomic!RecordFailure(x, w)
        BY <2>2, <2>4, <3>4, OutcomesAreAtomic
      <4>2. Atomic!Fail(t, w)
        BY <1>8, <2>3, <2>5, <3>1, <3>2, <4>1 DEF Atomic!Fail
      <4> QED BY <4>2 DEF Atomic!Next
    <3> QED BY <2>7, <3>3, <3>4
  <2>8. CASE op[t] \in {"reset", "degrade", "kill", "resume"}
    <3>1. calls' = calls
      <4>1. calls[t] = "idle" /\ at'[t] = "idle"
        BY <1>7, <2>1, <2>8 DEF Onwards
      <4> QED BY <1>5, <1>6, <4>1
    <3>2. CASE op[t] = "reset"
      <4>1. Left(objs[slot], now) = Atomic!ResetHealth(x)
        BY <2>2, <2>4, <3>2, OutcomesAreAtomic
      <4> QED BY <1>8, <2>3, <2>5, <3>1, <4>1 DEF Atomic!Reset, Atomic!Next
    <3>3. CASE op[t] \in {"degrade", "kill", "resume"}
      <4>1. Left(objs[slot], now) = Atomic!ForceStatus(x, op[t])
        BY <2>2, <2>4, <3>3, OutcomesAreAtomic
      <4>2. listed
        BY <1>2, <3>3 DEF Progress
      <4>3. Atomic!Toggle(OneKey, op[t])
        BY <1>8, <2>3, <2>5, <3>1, <4>1, <4>2 DEF Atomic!Toggle
      <4> QED BY <3>3, <4>3 DEF Atomic!Next, Atomic!ForceActions
    <3> QED BY <2>8, <3>2, <3>3
  <2> QED BY <2>2, <2>6, <2>7, <2>8 DEF ThreadsTypeOK, Ops
<1>19. CASE DeleteRow(t)
  <2>1. at[t] = "delete" /\ at'[t] = "idle" /\ op[t] = "forget" /\ UNCHANGED <<slot, objs, listed, now>>
    BY <1>2, <1>19 DEF DeleteRow, Return, MoveTo, cells, InPlace, ThreadsTypeOK
  <2>2. slot = NoEntry /\ ~listed
    BY <1>2, <2>1 DEF Progress
  <2>3. StillListed /\ ~StillListed'
    BY <1>5, <1>6, <2>1, <2>2 DEF StillListed
  <2>4. Seen' = NoEntry
    BY <1>4, <2>1, <2>2 DEF Seen, LiveEntry
  <2>5. shown' = [k \in {OneKey} |-> DefaultHealth] /\ held' = {}
    BY <2>4 DEF Shown, Present
  <2>6. calls' = calls
    <3>1. calls[t] = "idle" /\ at'[t] = "idle"
      BY <1>7, <2>1
    <3> QED BY <1>5, <1>6, <3>1
  <2>7. \/ tableRow' = NoRow /\ rowFaults' = rowFaults
        \/ tableRow' = tableRow /\ rowFaults' = rowFaults + 1 /\ rowFaults < MaxEvents
    BY <1>19, ThreadsAssumption DEF DeleteRow, RowFault, Happens, ThreadsTypeOK
  <2>8. \/ /\ Shown(tableRow, NoRow)' = [k \in {OneKey} |-> DefaultHealth] /\ Present(tableRow, NoRow)' = {}
           /\ rowFaults' = rowFaults
        \/ Atomic!DatabaseError
    BY <2>1, <2>7 DEF Shown, Present, Atomic!DatabaseError
  <2>9. Atomic!KeysOf(Owners) = {OneKey}
    BY DEF Atomic!KeysOf
  <2>10. held \ {OneKey} = {} /\ Present(tableRow, NoRow) \ {OneKey} = {}
    BY DEF Present
  <2>11. Atomic!ForgetProvider(Owners)
    BY <2>5, <2>8, <2>9, <2>10 DEF Atomic!ForgetProvider, Atomic!DefaultHealth, DefaultHealth,
       Atomic!NotTripped, NotTripped
  <2>12. Atomic!DeleteProvider(Owners)
    BY <2>3, <2>6, <2>11 DEF Atomic!DeleteProvider
  <2> QED BY <2>12 DEF Atomic!Next
<1>20. ASSUME PromoteTo(t) \/ Find(t) \/ Make(t) \/ Act(t) \/ FinishSuccess(t) \/ FinishDegrade(t)
              \/ Trip(t) \/ SetDeadline(t) \/ Query(t) \/ CopyField(t) \/ Pop(t)
       PROVE  FALSE
  <2>1. at'[t] \notin Outside
    BY <1>20 DEF PromoteTo, Find, Make, Act, FinishSuccess, FinishDegrade, Trip, Trips, SetDeadline, Query,
                 CopyField, Copied, Pop, Alter, MoveTo, Outside, ThreadsTypeOK
  <2> QED BY <2>1 DEF Inside
<1> HIDE DEF shown, held, calls, known, x
<1> QED BY <1>13, <1>15, <1>16, <1>17, <1>18, <1>19, <1>20 DEF MethodStep

(* Threads that meet no other in the breaker take the steps of              *)
(* CircuitBreaker, and what a method has not finished has not been seen.    *)
LEMMA StepsOrNothing ==
  ASSUME MethodsInv, MethodsInv', [ThreadsNext]_threadVars
  PROVE  MethodsAreSteps
<1> SUFFICES ASSUME Regular, Regular'
             PROVE  Atomic!Next \/ UNCHANGED Atomic!vars \/ DeletionCutShort
  BY DEF MethodsAreSteps
<1> DEFINE calls == [u \in BThreads |-> IF Calls(u) THEN OneKey ELSE "idle"]
           known == IF StillListed THEN {Owners} ELSE {}
<1>1. ASSUME NoneInside
      PROVE  /\ \A u \in BThreads : op[u] = "none"
             /\ StillListed <=> listed
             /\ Seen = LiveEntry
  BY <1>1 DEF MethodsInv, PlaceInv, InPlace, NoneInside, Inside, StillListed, Seen
<1>2. ASSUME UNCHANGED at PROVE NoneInside' <=> NoneInside
  BY <1>2 DEF NoneInside, Inside
<1>3. CASE UNCHANGED threadVars
  <2>1. Seen' = Seen
    BY <1>2, <1>3 DEF threadVars, cells, locals, ghosts, Seen, LiveEntry
  <2>2. (StillListed' <=> StillListed) /\ \A t \in BThreads : Calls(t)' <=> Calls(t)
    BY <1>3 DEF threadVars, locals, StillListed, Calls
  <2> QED BY <1>3, <2>1, <2>2, NothingSeen DEF threadVars
<1>4. CASE CreateAgain
  <2>1. NoneInside /\ NoneInside'
    <3>1. (NoneInside' <=> NoneInside) /\ (alone' => NoneInside)
      BY <1>2, <1>4, Zenon DEF CreateAgain, locals
    <3> QED BY <3>1 DEF Regular
  <2>2. ~StillListed /\ StillListed'
    BY <1>1, <1>4, <2>1 DEF CreateAgain, StillListed
  <2>3. Seen' = Seen
    BY <1>4, <2>1 DEF CreateAgain, cells, Seen, LiveEntry
  <2>4. UNCHANGED <<Shown(Seen, NoEntry), Present(Seen, NoEntry), Shown(tableRow, NoRow), Present(tableRow,
                    NoRow), rowFaults>>
    BY <1>4, <2>3 DEF CreateAgain, Shown, Present
  <2>5. calls' = calls
    BY <1>4 DEF CreateAgain, locals, Calls
  <2>6. Atomic!CreateProvider(Owners)
    BY <2>2, <2>4, <2>5 DEF Atomic!CreateProvider, Atomic!memory, Atomic!database
  <2> QED BY <2>6 DEF Atomic!Next
<1>5. CASE SecondPasses
  <2>1. NoneInside /\ NoneInside'
    BY <1>2, <1>5 DEF SecondPasses, locals, Regular
  <2>2. Seen' = Seen
    BY <1>5, <2>1 DEF SecondPasses, cells, Seen, LiveEntry
  <2>3. (StillListed' <=> StillListed) /\ \A t \in BThreads : Calls(t)' <=> Calls(t)
    BY <1>5 DEF SecondPasses, locals, StillListed, Calls
  <2>4. Atomic!Tick \/ UNCHANGED Atomic!vars
    BY <1>5, <2>2, <2>3, SecondIsTick DEF SecondPasses, MethodsInv
  <2> QED BY <2>4 DEF Atomic!Next
<1>6. CASE BootAgain /\ \A t \in BThreads : op[t] # "forget"
  <2>1. PICK r \in Timed \union {NoRow} :
          /\ Boots(r)
          /\ \/ r = tableRow /\ UNCHANGED rowFaults
             \/ r = NoRow /\ RowFault
    BY <1>6 DEF BootAgain, MethodsInv, ThreadsTypeOK
  <2>2. UNCHANGED <<tableRow, listed, now>>
    BY <1>6 DEF BootAgain
  <2>3. \A u \in BThreads : at'[u] = "idle" /\ op'[u] = "none"
    BY <2>1 DEF Boots
  <2>4. NoneInside' /\ \A u \in BThreads : ~Calls(u)'
    BY <2>3 DEF NoneInside, Inside, Outside, Calls
  <2>5. StillListed' <=> StillListed
    BY <1>6, <2>2, <2>3 DEF StillListed
  <2>6. Seen' = IF r = NoRow THEN NoEntry ELSE r
    <3>1. Seen' = LiveEntry'
      BY <2>4 DEF Seen
    <3>2. PICK o \in Objects :
            /\ slot' = IF r = NoRow THEN NoEntry ELSE o
            /\ objs' = [z \in Objects |-> IF z = o /\ r # NoRow THEN r ELSE Default]
      BY <2>1 DEF Boots
    <3> QED BY <3>1, <3>2, ThreadsAssumption DEF LiveEntry
  <2>7. Shown(Seen, NoEntry)' = Shown(r, NoRow) /\ Present(Seen, NoEntry)' = Present(r, NoRow)
    BY <2>1, <2>2, <2>6, ThreadsAssumption DEF Shown, Present
  <2>8. calls' = [u \in BThreads |-> "idle"]
    BY <2>4
  <2>9. Shown(tableRow, NoRow)' = Shown(tableRow, NoRow) /\ Present(tableRow, NoRow)' = Present(tableRow, NoRow)
    BY <2>2 DEF Shown, Present
  <2>10. CASE r = tableRow /\ UNCHANGED rowFaults
    BY <2>5, <2>7, <2>8, <2>9, <2>10 DEF Atomic!Next, Atomic!Restart, Atomic!database
  <2>11. CASE r = NoRow /\ RowFault
    <3>1. rowFaults < MaxEvents /\ rowFaults' = rowFaults + 1
      BY <2>11, ThreadsAssumption DEF RowFault, Happens, MethodsInv, ThreadsTypeOK
    <3>2. Shown(r, NoRow) = Atomic!Empty /\ Present(r, NoRow) = {}
      BY <2>11 DEF Shown, Present, Atomic!Empty, Atomic!DefaultHealth, DefaultHealth, Atomic!NotTripped,
         NotTripped
    <3> QED BY <2>5, <2>7, <2>8, <2>9, <3>1, <3>2 DEF Atomic!Next, Atomic!Restart, Atomic!DatabaseError
  <2> QED BY <2>1, <2>10, <2>11
\* A method begins.
<1>7. ASSUME NEW t \in BThreads, NEW method \in Ops \ {"none"}, NEW place \in Places \ Outside,
             Begin(t, method, place),
             StillListed' <=> StillListed, Calls(t)' <=> Calls(t)
      PROVE  UNCHANGED Atomic!vars
  <2>1. ~NoneInside'
    BY <1>7 DEF Begin, MoveTo, NoneInside, Inside, MethodsInv, ThreadsTypeOK
  <2>2. NoneInside
    BY <1>7, <2>1 DEF Begin, Regular
  <2>3. Seen' = Seen
    BY <1>1, <1>7, <2>1, <2>2 DEF Begin, Seen
  <2>4. \A u \in BThreads : Calls(u)' <=> Calls(u)
    BY <1>7 DEF Begin, MoveTo, Calls, MethodsInv, ThreadsTypeOK
  <2> QED BY <1>7, <2>3, <2>4, NothingSeen DEF Begin
<1>8. ASSUME NEW t \in BThreads, NEW method \in Ops \ {"none", "forget"}, NEW place \in Places \ Outside,
             at[t] \in Outside, Begin(t, method, place), listed' = listed
      PROVE  StillListed' <=> StillListed
  BY <1>8 DEF StillListed, Begin, MethodsInv, ThreadsTypeOK, PlaceInv, InPlace
<1>9. ASSUME NEW t \in BThreads, Acts(t)
      PROVE  UNCHANGED Atomic!vars
  <2>1. PICK method \in Ops : Ask(t, method) \/ Report(t, method) \/ CallEndpoint(t, method)
    BY <1>9 DEF Acts
  <2>2. CASE Ask(t, method)
    <3>1. /\ method \in {"admit", "probe"} /\ at[t] = "idle" /\ Begin(t, method, "peek") /\ listed' = listed
          /\ method \in Ops \ {"none", "forget"} /\ "peek" \in Places \ Outside /\ at[t] \in Outside
      BY <2>2 DEF Ask, Ops, Places, Outside
    <3>2. ~Calls(t) /\ ~Calls(t)'
      BY <3>1 DEF Begin, MoveTo, Calls, MethodsInv, ThreadsTypeOK, PlaceInv, InPlace
    <3> QED BY <1>7, <1>8, <3>1, <3>2
  <2>3. CASE Report(t, method)
    <3>1. /\ method \in {"succeed", "fail"} /\ at[t] = "calling" /\ Begin(t, method, "find") /\ listed' = listed
          /\ method \in Ops \ {"none", "forget"} /\ "find" \in Places \ Outside /\ at[t] \in Outside
      BY <2>3 DEF Report, Ops, Places, Outside
    <3>2. Calls(t) /\ Calls(t)'
      BY <3>1 DEF Begin, MoveTo, Calls, MethodsInv, ThreadsTypeOK, PlaceInv, InPlace
    <3> QED BY <1>7, <1>8, <3>1, <3>2
  <2>4. CASE CallEndpoint(t, method)
    <3>1. /\ method \in {"reset", "degrade", "kill", "resume"} /\ at[t] = "idle" /\ Begin(t, method, "find")
          /\ listed' = listed
          /\ method \in Ops \ {"none", "forget"} /\ "find" \in Places \ Outside /\ at[t] \in Outside
      BY <2>4 DEF CallEndpoint, Ops, Places, Outside
    <3>2. ~Calls(t) /\ ~Calls(t)'
      BY <3>1 DEF Begin, MoveTo, Calls, MethodsInv, ThreadsTypeOK, PlaceInv, InPlace
    <3> QED BY <1>7, <1>8, <3>1, <3>2
  <2> QED BY <2>1, <2>2, <2>3, <2>4
<1>10. ASSUME NEW t \in BThreads, Forget(t)
       PROVE  UNCHANGED Atomic!vars
  <2>1. /\ at[t] = "idle" /\ listed /\ Begin(t, "forget", "pop")
        /\ "forget" \in Ops \ {"none"} /\ "pop" \in Places \ Outside
    BY <1>10 DEF Forget, Ops, Places, Outside
  <2>2. StillListed /\ StillListed'
    BY <2>1 DEF Begin, StillListed, MethodsInv, ThreadsTypeOK
  <2>3. ~Calls(t) /\ ~Calls(t)'
    BY <2>1 DEF Begin, MoveTo, Calls, Outside, MethodsInv, ThreadsTypeOK, PlaceInv, InPlace
  <2> QED BY <1>7, <2>1, <2>2, <2>3
<1>11. ASSUME NEW t \in BThreads, SayNothing(t)
       PROVE  Atomic!Blameless(t)
  <2>1. /\ at[t] = "calling" /\ at' = [at EXCEPT ![t] = "idle"]
        /\ UNCHANGED <<slot, objs, tableRow, listed, now, op, rowFaults, before>>
    BY <1>11 DEF SayNothing, MoveTo, cells, ghosts
  <2>2. NoneInside' <=> NoneInside
    BY <2>1 DEF NoneInside, Inside, Outside, MethodsInv, ThreadsTypeOK
  <2>3. Seen' = Seen
    BY <2>1, <2>2 DEF Seen, LiveEntry
  <2>4. op[t] = "none"
    BY <2>1 DEF Outside, MethodsInv, PlaceInv, InPlace
  <2>5. calls[t] = OneKey /\ calls' = [calls EXCEPT ![t] = "idle"]
    BY <2>1, <2>4 DEF Calls, MethodsInv, ThreadsTypeOK
  <2>6. StillListed' <=> StillListed
    BY <2>1 DEF StillListed
  <2>7. UNCHANGED <<Shown(Seen, NoEntry), Present(Seen, NoEntry), Shown(tableRow, NoRow), Present(tableRow,
                    NoRow), rowFaults>>
    BY <2>1, <2>3 DEF Shown, Present
  <2> QED BY <2>5, <2>6, <2>7 DEF Atomic!Blameless, Atomic!memory, Atomic!database, OneKey
<1>12. ASSUME NEW t \in BThreads, MethodStep(t)
       PROVE  Atomic!Next \/ UNCHANGED Atomic!vars
  <2>1. Inside(t)
    BY <1>12 DEF MethodStep, Peek, Test, Compare, PromoteTo, Find, Make, Act, FinishSuccess, FinishDegrade,
           Trip, SetDeadline, LookUp, Query, CopyField, Commit, Pop, DeleteRow, Inside, Outside
  <2>2. ~NoneInside /\ alone
    BY <2>1 DEF NoneInside, Regular
  <2>3. CASE ~Inside(t)'
    BY <1>12, <2>2, <2>3, ReturnsAreAtomic
  <2>4. CASE Inside(t)'
    <3>1. ~NoneInside' /\ at'[t] \notin {"idle", "calling"}
      BY <2>4 DEF NoneInside, Inside, Outside
    <3>2. ~Commit(t) /\ ~DeleteRow(t)
      BY <3>1 DEF Commit, DeleteRow, Return, MoveTo, Onwards, MethodsInv, ThreadsTypeOK
    <3>3. UNCHANGED <<tableRow, listed, now, rowFaults, before>>
      BY <1>12, <3>2 DEF MethodStep, Peek, Test, Compare, PromoteTo, Find, Make, Act, FinishSuccess,
         FinishDegrade,
             Trip, Trips, SetDeadline, LookUp, Query, CopyField, Copied, Pop, Alter, ghosts
    <3>4. ASSUME NEW place, Return(t, place), place \in {"idle", "calling"} PROVE FALSE
      BY <3>1, <3>4 DEF Return, MoveTo, MethodsInv, ThreadsTypeOK
    <3>5. op' = op
      BY <1>12, <3>2, <3>4 DEF MethodStep, Peek, Test, Compare, PromoteTo, Find, Make, Act, FinishSuccess,
         FinishDegrade,
             Trip, Trips, SetDeadline, LookUp, Query, CopyField, Copied, Pop, Alter, Onwards
    <3>6. \A u \in BThreads \ {t} : at'[u] = at[u]
      BY <1>12, ThreadsApart DEF OthersStay, MethodsInv
    <3>7. \A u \in BThreads : Calls(u)' <=> Calls(u)
      BY <2>1, <3>1, <3>5, <3>6 DEF Calls, Inside, Outside
    <3>8. Seen' = Seen /\ (StillListed' <=> StillListed)
      BY <2>2, <3>1, <3>3, <3>5 DEF Seen, StillListed
    <3> QED BY <3>3, <3>7, <3>8, NothingSeen
  <2> QED BY <2>3, <2>4
<1>13. CASE BootAgain /\ ~\A t \in BThreads : op[t] # "forget"
  BY <1>13 DEF DeletionCutShort
<1>14. ASSUME NEW t \in BThreads, SayNothing(t) PROVE Atomic!Next
  BY <1>11, <1>14 DEF Atomic!Next
<1>15. CASE ThreadsNext
  <2>1. \/ \E t \in BThreads : Acts(t) \/ SayNothing(t) \/ Forget(t) \/ MethodStep(t)
        \/ CreateAgain \/ SecondPasses \/ BootAgain
    BY <1>15 DEF ThreadsNext, Acts
  <2> QED BY <1>4, <1>5, <1>6, <1>9, <1>10, <1>12, <1>13, <1>14, <2>1
<1> QED BY <1>3, <1>15

(* What ThreadsAreSound says of a state follows from the invariant.         *)
LEMMA SoundlyThreaded == MethodsInv => ThreadsAreSound
<1> SUFFICES ASSUME MethodsInv PROVE ThreadsAreSound
  OBVIOUS
<1> USE DEF MethodsInv
<1>1. RowFollowsEntry
  <2> SUFFICES ASSUME NoneInside, ~crossed, rowFaults = 0
               PROVE  tableRow = IF slot = NoEntry THEN NoRow ELSE objs[slot]
    BY DEF RowFollowsEntry
  <2>1. \A t \in BThreads : at[t] \in {"idle", "calling"}
    BY DEF NoneInside, Inside, Outside
  <2>2. Unhindered
    BY <2>1 DEF Unhindered, OnTime, Writing
  <2>3. \A f \in Fields : ~Covered(f)
    BY <2>1 DEF Covered, Brings, Bound, Loaded
  <2>4. CASE slot = NoEntry
    BY <2>1, <2>2, <2>4 DEF RowIsDue
  <2>5. CASE slot # NoEntry
    <3>1. tableRow # NoRow /\ \A f \in Fields : Agree(f, tableRow, objs[slot])
      BY <2>2, <2>3, <2>5 DEF RowIsDue, Fields
    <3>2. tableRow \in Timed /\ objs[slot] \in Timed
      BY <2>5, <3>1 DEF ThreadsTypeOK
    <3> QED BY <2>5, <3>1, <3>2 DEF Fields, Agree, Timed
  <2> QED BY <2>4, <2>5
<1>2. ASSUME Regular, NEW t \in BThreads, Raises(t)
      PROVE  FALSE
  <2>1. at[t] = "compare" /\ Inside(t)
    BY <1>2 DEF Raises, Inside, Outside
  <2>2. alone
    BY <1>2, <2>1 DEF Regular, NoneInside
  <2>3. Progress(t)
    BY <2>1, <2>2 DEF AloneInv
  <2> QED BY <1>2, <2>1, <2>3 DEF Raises, Progress
<1> QED BY <1>1, <1>2 DEF ThreadsAreSound

(* A program that has just booted has no thread in a method, and holds what *)
(* the table does.                                                          *)
LEMMA ThreadsStart == ThreadsInit => MethodsInv
<1> SUFFICES ASSUME ThreadsInit PROVE MethodsInv
  OBVIOUS
<1> USE DEF ThreadsInit
<1>1. tableRow \in Timed \union {NoRow}
  BY ThreadsAssumption
<1>2. PICK o \in Objects :
        /\ slot = IF tableRow = NoRow THEN NoEntry ELSE o
        /\ objs = [z \in Objects |-> IF z = o /\ tableRow # NoRow THEN tableRow ELSE Default]
        /\ made = IF tableRow = NoRow THEN {} ELSE {o}
  OBVIOUS
<1>3. objs \in [Objects -> Timed] /\ slot \in Objects \union {NoEntry} /\ made \subseteq Objects
  BY <1>1, <1>2, DefaultTyped
<1>4. \A t \in BThreads : at[t] = "idle" /\ op[t] = "none" /\ ~late[t]
  OBVIOUS
<1>5. ThreadsTypeOK
  <2>1. /\ at \in [BThreads -> Places] /\ op \in [BThreads -> Ops]
        /\ mine \in [BThreads -> Objects \union {NoEntry}] /\ aim \in [BThreads -> Statuses]
        /\ loaded \in [BThreads -> Timed \union {NoRow}] /\ draft \in [BThreads -> Timed]
        /\ late \in [BThreads -> BOOLEAN]
    BY DefaultTyped DEF Places, Ops, Statuses
  <2>2. /\ now \in 0..MaxNow /\ events \in 0..MaxEvents /\ rowFaults \in Nat /\ rowFaults <= events
    BY ThreadsAssumption
  <2>3. listed \in BOOLEAN /\ crossed \in BOOLEAN /\ botched \in BOOLEAN /\ alone \in BOOLEAN
    OBVIOUS
  <2>4. before \in Timed \union {NoEntry}
    OBVIOUS
  <2> HIDE DEF ThreadsInit
  <2> QED BY <1>1, <1>3, <2>1, <2>2, <2>3, <2>4 DEF ThreadsTypeOK
<1>6. SlotInv
  BY <1>2, ThreadsAssumption DEF SlotInv
<1>7. PlaceInv
  BY <1>4 DEF PlaceInv, InPlace, Outside, Loaded
<1>8. OnTime
  BY <1>4 DEF OnTime, Loaded
<1>9. RowIsDue
  <2>1. tableRow # NoRow => slot # NoEntry /\ objs[slot] = tableRow
    BY <1>2, ThreadsAssumption
  <2>2. tableRow = NoRow <=> slot = NoEntry
    BY <1>2, ThreadsAssumption
  <2> QED BY <1>4, <2>1, <2>2 DEF RowIsDue, Agree, Writing
<1>10. DeadEndHasCause
  <2> SUFFICES ASSUME NEW z \in Objects, DeadEnd(objs[z]), ~botched
               PROVE  FALSE
    BY DEF DeadEndHasCause
  <2>1. objs[z] = Default \/ (tableRow # NoRow /\ objs[z] = tableRow)
    BY <1>2
  <2>2. tableRow # NoRow /\ DeadEnd(tableRow) => botched
    OBVIOUS
  <2>3. ~DeadEnd(Default)
    BY DEF DeadEnd, Default
  <2> QED BY <2>1, <2>2, <2>3
<1>11. AloneInv
  BY DEF AloneInv
<1> QED BY <1>5, <1>6, <1>7, <1>8, <1>9, <1>10, <1>11 DEF MethodsInv

(* Every step of a method, every deletion, second and boot preserves the    *)
(* invariant.                                                               *)
LEMMA ThreadsGoOn ==
  ASSUME MethodsInv, [ThreadsNext]_threadVars
  PROVE  MethodsInv'
<1> USE DEF MethodsInv
<1>1. ThreadsTypeOK'
  BY ThreadsTyped
<1>2. SlotInv' /\ PlaceInv'
  BY PlacesKept
<1>3. OnTime'
  BY TimelyStaysTimely
<1>4. RowIsDue'
  BY <1>3, RowStaysDue
<1>5. DeadEndHasCause'
  BY DeadEndsKeepTheirCause
<1>6. AloneInv'
  BY <1>1, <1>2, AloneMakesProgress
<1> QED BY <1>1, <1>2, <1>3, <1>4, <1>5, <1>6

(* However the threads are switched inside the breaker's methods, the table *)
(* follows memory until a write is overtaken or fails, no provider is dead  *)
(* for good without a cause, is_available finds the deadline it has tested  *)
(* unless another method ran, and methods that meet no other are steps of   *)
(* CircuitBreaker: for any number of threads, entries, boots and seconds.   *)
THEOREM ThreadsAlwaysKeepTheBreaker == ThreadsSpec => ThreadsKeepTheBreaker
<1>1. ThreadsInit => MethodsInv
  BY ThreadsStart
<1>2. MethodsInv /\ [ThreadsNext]_threadVars => MethodsInv'
  BY ThreadsGoOn
<1>3. MethodsInv /\ MethodsInv' /\ [ThreadsNext]_threadVars => [ThreadsAreSound' /\ MethodsAreSteps]_threadVars
  <2>1. MethodsInv' => ThreadsAreSound'
    BY SoundlyThreaded, PTL
  <2> QED BY <2>1, StepsOrNothing
<1> QED BY <1>1, <1>2, <1>3, PTL DEF ThreadsSpec, ThreadsKeepTheBreaker
=============================================================================

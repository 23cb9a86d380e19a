---------------------------- MODULE BreakerThreads ----------------------------
(***************************************************************************)
(* The circuit breaker's methods as its threads run them.  CircuitBreaker  *)
(* takes a method for one step; circuit_breaker.py holds no lock, so here  *)
(* a thread may be switched wherever a method makes a call or returns from *)
(* one.  There is one key: entries of different keys share nothing.        *)
(*                                                                         *)
(* _health holds a reference to the key's entry, which threads change in   *)
(* place: objs are the entries, slot the one that _health holds.  Times    *)
(* are absolute, as in the code.  SQLite runs a SELECT outside of any      *)
(* transaction, and the ORM updates the columns that differ from the row   *)
(* it loaded.                                                              *)
(***************************************************************************)
EXTENDS BreakerHealth

CONSTANTS
  BThreads,
  BWeights,       \* the weights of the errors that can happen
  Objects,        \* bound: the entries made in one process
  BootRows,       \* rows an earlier process may have left
  NoEntry, NoRow,
  MaxEvents,      \* bound: methods begun and database errors in one behaviour
  MaxNow          \* bound: the time

Times == {NotTripped} \union Nat

\* An entry, or a row: Health with an absolute deadline.
Timed == [status : Statuses, failures : 0..FailureCap, tripped : Times, override : Overrides]

ASSUME ThreadsAssumption ==
  /\ BWeights \subseteq Nat \ {0}
  /\ NoEntry \notin Objects \union Timed /\ NoRow \notin Timed
  /\ BootRows \subseteq Timed
  /\ MaxEvents \in Nat /\ MaxNow \in Nat

VARIABLES
  slot,      \* what _health holds for the key: an object, or NoEntry
  objs,      \* [Objects -> Timed]
  made,      \* the objects this process has made
  tableRow,  \* the key's row in provider_health, or NoRow
  listed,    \* the provider is in config.raw["providers"]
  now,
  at,        \* where each thread is
  op,        \* the method it is in
  mine,      \* the entry it works on (h)
  aim,       \* the status it has decided on
  loaded,    \* the row as _persist queried it
  draft,     \* the row it is about to write
  events, rowFaults,
  late,      \* ghost: [BThreads -> BOOLEAN]: another thread wrote since it looked
  crossed,   \* ghost: a late write went through since the last boot
  botched,   \* ghost: a success was overtaken by a trip or a kill, or boot loaded a dead end
  alone,     \* ghost: the methods under way began when there were none
  before     \* ghost: the entry at that time, or NoEntry

cells == <<slot, objs, made>>
locals == <<at, op, mine, aim, loaded, draft>>
ghosts == <<late, crossed, botched, alone, before>>
threadVars == <<cells, tableRow, listed, now, locals, events, rowFaults, ghosts>>

Places == {"idle", "calling", "peek", "test", "compare", "promote", "find", "make", "act",
           "rest", "deadline", "persist", "query", "insert", "status", "failures", "tripped",
           "override", "commit", "pop", "delete"}
Ops == {"none", "admit", "probe", "succeed", "fail", "reset", "degrade", "kill", "resume", "forget"}

Outside == {"idle", "calling"}
Inside(t) == at[t] \notin Outside
NoneInside == \A t \in BThreads : ~Inside(t)

\* After _persist has looked the entry up, before it writes.
Writing == {"query", "insert", "status", "failures", "tripped", "override", "commit", "delete"}

Default == [status |-> "healthy", failures |-> 0, tripped |-> NotTripped, override |-> "none"]

ThreadsTypeOK ==
  /\ slot \in Objects \union {NoEntry}
  /\ objs \in [Objects -> Timed]
  /\ made \subseteq Objects
  /\ tableRow \in Timed \union {NoRow}
  /\ listed \in BOOLEAN
  /\ now \in 0..MaxNow
  /\ at \in [BThreads -> Places]
  /\ op \in [BThreads -> Ops]
  /\ mine \in [BThreads -> Objects \union {NoEntry}]
  /\ aim \in [BThreads -> Statuses]
  /\ loaded \in [BThreads -> Timed \union {NoRow}]
  /\ draft \in [BThreads -> Timed]
  /\ events \in 0..MaxEvents
  /\ rowFaults \in Nat /\ rowFaults <= events
  /\ late \in [BThreads -> BOOLEAN]
  /\ crossed \in BOOLEAN /\ botched \in BOOLEAN /\ alone \in BOOLEAN
  /\ before \in Timed \union {NoEntry}

\* Dead, and with no deadline after which it would be tried again.
DeadEnd(h) == h.status = "dead" /\ h.tripped = NotTripped /\ h.override # "dead"

\* The entry _health holds, if it holds one.
LiveEntry == IF slot = NoEntry THEN NoEntry ELSE objs[slot]

\* A process that has just booted: _health holds what the table does.
Boots(r) ==
  /\ \E o \in Objects :
       /\ slot' = IF r = NoRow THEN NoEntry ELSE o
       /\ objs' = [x \in Objects |-> IF x = o /\ r # NoRow THEN r ELSE Default]
       /\ made' = IF r = NoRow THEN {} ELSE {o}
  /\ at' = [t \in BThreads |-> "idle"]
  /\ op' = [t \in BThreads |-> "none"]
  /\ mine' = [t \in BThreads |-> NoEntry]
  /\ aim' = [t \in BThreads |-> "healthy"]
  /\ loaded' = [t \in BThreads |-> NoRow]
  /\ draft' = [t \in BThreads |-> Default]
  /\ late' = [t \in BThreads |-> FALSE]

ThreadsInit ==
  /\ tableRow \in BootRows \union {NoRow}
  /\ \E o \in Objects :
       /\ slot = IF tableRow = NoRow THEN NoEntry ELSE o
       /\ objs = [x \in Objects |-> IF x = o /\ tableRow # NoRow THEN tableRow ELSE Default]
       /\ made = IF tableRow = NoRow THEN {} ELSE {o}
  /\ at = [t \in BThreads |-> "idle"]
  /\ op = [t \in BThreads |-> "none"]
  /\ mine = [t \in BThreads |-> NoEntry]
  /\ aim = [t \in BThreads |-> "healthy"]
  /\ loaded = [t \in BThreads |-> NoRow]
  /\ draft = [t \in BThreads |-> Default]
  /\ late = [t \in BThreads |-> FALSE]
  /\ listed = TRUE /\ now = 0 /\ events = 0 /\ rowFaults = 0
  /\ crossed = FALSE /\ botched = (tableRow # NoRow /\ DeadEnd(tableRow))
  /\ alone = FALSE /\ before = NoEntry

-----------------------------------------------------------------------------
MoveTo(t, place) == at' = [at EXCEPT ![t] = place]

Happens == events < MaxEvents /\ events' = events + 1

Begin(t, method, place) ==
  /\ Happens
  /\ MoveTo(t, place)
  /\ op' = [op EXCEPT ![t] = method]
  /\ alone' = NoneInside
  /\ before' = IF NoneInside THEN LiveEntry ELSE before
  /\ UNCHANGED <<cells, tableRow, now, mine, aim, loaded, draft, rowFaults, late, crossed, botched>>

\* The method returns and its locals go; place is where the thread goes on.
Return(t, place) ==
  /\ MoveTo(t, place)
  /\ op' = [op EXCEPT ![t] = "none"]
  /\ mine' = [mine EXCEPT ![t] = NoEntry]
  /\ aim' = [aim EXCEPT ![t] = "healthy"]
  /\ loaded' = [loaded EXCEPT ![t] = NoRow]
  /\ draft' = [draft EXCEPT ![t] = Default]

\* A request for which the step is available goes on to call the provider.
Onwards(t) == IF op[t] = "admit" THEN "calling" ELSE "idle"

\* Only the thread's place and its entry change.
Alter(t, h, place) ==
  /\ objs' = [objs EXCEPT ![mine[t]] = h]
  /\ MoveTo(t, place)
  /\ UNCHANGED <<slot, made, tableRow, listed, now, op, mine, loaded, draft, events, rowFaults,
                 late, crossed, alone, before>>

-----------------------------------------------------------------------------
(* is_available, asked by try_chain for a request or by the router.         *)

Ask(t, method) ==
  /\ at[t] = "idle" /\ method \in {"admit", "probe"}
  /\ Begin(t, method, "peek")
  /\ UNCHANGED listed

\* peek: a key that is not tracked shows healthy, and stays untracked.
Peek(t) ==
  /\ at[t] = "peek"
  /\ \/ /\ slot = NoEntry
        /\ Return(t, Onwards(t))
     \/ /\ slot # NoEntry
        /\ mine' = [mine EXCEPT ![t] = slot]
        /\ MoveTo(t, "test")
        /\ UNCHANGED <<op, aim, loaded, draft>>
  /\ UNCHANGED <<cells, tableRow, listed, now, events, rowFaults, late, crossed, botched, alone,
                 before>>

\* The status, and whether there is a deadline to compare the time with.
Test(t) ==
  /\ at[t] = "test"
  /\ LET h == objs[mine[t]] IN
       \/ /\ h.status # "healthy" /\ h.tripped # NotTripped
          /\ MoveTo(t, "compare")
          /\ UNCHANGED <<op, mine, aim, loaded, draft>>
       \/ /\ h.status = "healthy" \/ h.tripped = NotTripped
          /\ Return(t, IF h.status = "dead" THEN "idle" ELSE Onwards(t))
  /\ UNCHANGED <<cells, tableRow, listed, now, events, rowFaults, late, crossed, botched, alone,
                 before>>

\* time.time() >= h["tripped_until"] raises if another thread has meanwhile set
\* it to None.
Raises(t) == at[t] = "compare" /\ objs[mine[t]].tripped = NotTripped

\* Back from time.time(): the comparison, and the level to promote to.
Compare(t) ==
  /\ at[t] = "compare"
  /\ LET h == objs[mine[t]] IN
       \/ /\ ~Raises(t) /\ h.tripped <= now
          /\ aim' = [aim EXCEPT ![t] = IF h.status = "dead" THEN "degraded" ELSE "healthy"]
          /\ MoveTo(t, "promote")
          /\ UNCHANGED <<op, mine, loaded, draft>>
       \/ /\ Raises(t) \/ h.tripped > now
          /\ Return(t, "idle")
  /\ UNCHANGED <<cells, tableRow, listed, now, events, rowFaults, late, crossed, botched, alone,
                 before>>

\* _promote writes what is_available decided on.
PromoteTo(t) ==
  /\ at[t] = "promote"
  /\ Alter(t, [objs[mine[t]] EXCEPT !.status = aim[t], !.tripped = NotTripped], "persist")
  /\ UNCHANGED <<aim, botched>>

-----------------------------------------------------------------------------
(* The methods that start with get_health.                                  *)

\* The provider answered or failed.
Report(t, method) ==
  /\ at[t] = "calling" /\ method \in {"succeed", "fail"}
  /\ Begin(t, method, "find")
  /\ UNCHANGED listed

\* An error that says nothing about the provider.
SayNothing(t) ==
  /\ at[t] = "calling"
  /\ MoveTo(t, "idle")
  /\ UNCHANGED <<cells, tableRow, listed, now, op, mine, aim, loaded, draft, events, rowFaults,
                 ghosts>>

\* The endpoints; only a reset takes a key whose provider is not configured.
CallEndpoint(t, method) ==
  /\ at[t] = "idle" /\ method \in {"reset", "degrade", "kill", "resume"}
  /\ listed \/ method = "reset"
  /\ Begin(t, method, "find")
  /\ UNCHANGED listed

\* key not in self._health...
Find(t) ==
  /\ at[t] = "find"
  /\ \/ slot = NoEntry /\ MoveTo(t, "make") /\ UNCHANGED mine
     \/ slot # NoEntry /\ MoveTo(t, "act") /\ mine' = [mine EXCEPT ![t] = slot]
  /\ UNCHANGED <<cells, tableRow, listed, now, op, aim, loaded, draft, events, rowFaults, ghosts>>

\* ...and the new entry takes the place of one that was made meanwhile.
Make(t) ==
  /\ at[t] = "make"
  /\ \E o \in Objects \ made :
       /\ made' = made \union {o}
       /\ slot' = o
       /\ objs' = [objs EXCEPT ![o] = Default]
       /\ mine' = [mine EXCEPT ![t] = o]
  /\ MoveTo(t, "act")
  /\ UNCHANGED <<tableRow, listed, now, op, aim, loaded, draft, events, rowFaults, ghosts>>

\* What each method does to its entry h before its first call after
\* get_health; a failure has weight w.
FirstPart(method, h, w) ==
  CASE method = "succeed" -> [h EXCEPT !.status = "healthy", !.failures = 0]
    [] method = "fail"    -> [h EXCEPT !.failures = Saturate(@ + w)]
    [] method = "degrade" -> [h EXCEPT !.status = "degraded"]
    [] method = "kill"    -> [h EXCEPT !.status = "dead", !.tripped = NotTripped,
                                       !.override = "dead"]
    [] OTHER              -> Default

Act(t) ==
  /\ at[t] = "act"
  /\ \E w \in BWeights :
       Alter(t, FirstPart(op[t], objs[mine[t]], w),
            IF op[t] \in {"succeed", "fail", "degrade"} THEN "rest" ELSE "persist")
  /\ UNCHANGED <<aim, botched>>

\* record_success after datetime.now(): the deadline and the override.
FinishSuccess(t) ==
  /\ at[t] = "rest" /\ op[t] = "succeed"
  /\ LET h == [objs[mine[t]] EXCEPT !.tripped = NotTripped, !.override = "none"] IN
       /\ Alter(t, h, "persist")
       /\ botched' = (botched \/ DeadEnd(h))
  /\ UNCHANGED aim

\* force_status after time.time().
FinishDegrade(t) ==
  /\ at[t] = "rest" /\ op[t] = "degrade"
  /\ Alter(t, [objs[mine[t]] EXCEPT !.tripped = now + DegradedCooldown, !.override = "degraded"],
          "persist")
  /\ UNCHANGED <<aim, botched>>

Trips(t, status) ==
  /\ Alter(t, [objs[mine[t]] EXCEPT !.status = status], "deadline")
  /\ aim' = [aim EXCEPT ![t] = status]

\* record_failure after datetime.now(): the count may hold more failures than
\* its own, or none of them.
Trip(t) ==
  /\ at[t] = "rest" /\ op[t] = "fail"
  /\ LET n == objs[mine[t]].failures IN
       \/ n >= FailuresDead /\ Trips(t, "dead")
       \/ n < FailuresDead /\ n >= FailuresDegraded /\ Trips(t, "degraded")
       \/ /\ n < FailuresDead /\ n < FailuresDegraded
          /\ Alter(t, objs[mine[t]], "persist") /\ UNCHANGED aim
  /\ UNCHANGED botched

\* Mutant: an entry that was dead is left without a deadline.
SetDeadlineOnce(t) ==
  /\ at[t] = "deadline"
  /\ Alter(t, IF aim[t] = "dead" THEN objs[mine[t]]
             ELSE [objs[mine[t]] EXCEPT !.tripped = now + DegradedCooldown], "persist")
  /\ UNCHANGED <<aim, botched>>

\* Back from time.time(): tripped_until.
SetDeadline(t) ==
  /\ at[t] = "deadline"
  /\ Alter(t, [objs[mine[t]] EXCEPT
                !.tripped = now + (IF aim[t] = "dead" THEN DeadCooldown ELSE DegradedCooldown)],
          "persist")
  /\ UNCHANGED <<aim, botched>>

-----------------------------------------------------------------------------
(* _persist.                                                                *)

\* Ghost: whoever looked the entry up before this write writes late.
OthersAreLate(t) ==
  late' = [u \in BThreads |-> IF u = t THEN FALSE ELSE late[u] \/ at[u] \in Writing]

\* The entry is looked up again: it need not be the one the method changed.
LookUp(t) ==
  /\ at[t] = "persist"
  /\ \/ slot = NoEntry /\ Return(t, Onwards(t))
     \/ /\ slot # NoEntry
        /\ mine' = [mine EXCEPT ![t] = slot]
        /\ MoveTo(t, "query")
        /\ UNCHANGED <<op, aim, loaded, draft>>
  /\ UNCHANGED <<cells, tableRow, listed, now, events, rowFaults, ghosts>>

Query(t) ==
  /\ at[t] = "query"
  /\ loaded' = [loaded EXCEPT ![t] = tableRow]
  /\ draft' = [draft EXCEPT ![t] = IF tableRow = NoRow THEN Default ELSE tableRow]
  /\ MoveTo(t, IF tableRow = NoRow THEN "insert" ELSE "status")
  /\ UNCHANGED <<cells, tableRow, listed, now, op, mine, aim, events, rowFaults, ghosts>>

Copied(t, h, place) ==
  /\ draft' = [draft EXCEPT ![t] = h]
  /\ MoveTo(t, place)
  /\ UNCHANGED <<cells, tableRow, listed, now, op, mine, aim, loaded, events, rowFaults, ghosts>>

\* A new row is made of the entry as it is; an old one takes field after field.
CopyField(t) ==
  LET h == objs[mine[t]] IN
    \/ at[t] = "insert" /\ Copied(t, h, "commit")
    \/ at[t] = "status" /\ Copied(t, [draft[t] EXCEPT !.status = h.status], "failures")
    \/ at[t] = "failures" /\ Copied(t, [draft[t] EXCEPT !.failures = h.failures], "tripped")
    \/ at[t] = "tripped" /\ Copied(t, [draft[t] EXCEPT !.tripped = h.tripped], "override")
    \/ at[t] = "override" /\ Copied(t, [draft[t] EXCEPT !.override = h.override], "commit")

\* The UPDATE names the columns in which the draft differs from what was loaded.
Merged(t) ==
  LET d == draft[t]
      l == loaded[t]
  IN [status   |-> IF d.status # l.status THEN d.status ELSE tableRow.status,
      failures |-> IF d.failures # l.failures THEN d.failures ELSE tableRow.failures,
      tripped  |-> IF d.tripped # l.tripped THEN d.tripped ELSE tableRow.tripped,
      override |-> IF d.override # l.override THEN d.override ELSE tableRow.override]

RowFault == Happens /\ rowFaults' = rowFaults + 1

\* The write goes through, or it is swallowed: a database error, a row that
\* another thread has inserted or deleted since the query.
Commit(t) ==
  /\ at[t] = "commit"
  /\ Return(t, Onwards(t))
  /\ \/ /\ (loaded[t] = NoRow) = (tableRow = NoRow)
        /\ tableRow' = IF tableRow = NoRow THEN draft[t] ELSE Merged(t)
        /\ crossed' = (crossed \/ late[t])
        /\ OthersAreLate(t)
        /\ UNCHANGED <<events, rowFaults>>
     \/ /\ \/ (loaded[t] = NoRow) # (tableRow = NoRow) /\ UNCHANGED <<events, rowFaults>>
           \/ RowFault
        /\ crossed' = (crossed \/ late[t])
        /\ late' = [late EXCEPT ![t] = FALSE]
        /\ UNCHANGED tableRow
  /\ UNCHANGED <<cells, listed, now, botched, alone, before>>

-----------------------------------------------------------------------------
(* Deletion of the provider, and the process.                               *)

\* DELETE /api/providers/{name}: the configuration first...
Forget(t) ==
  /\ at[t] = "idle" /\ listed
  /\ listed' = FALSE
  /\ Begin(t, "forget", "pop")

\* ...then the entry...
Pop(t) ==
  /\ at[t] = "pop"
  /\ slot' = NoEntry
  /\ MoveTo(t, "delete")
  /\ OthersAreLate(t)
  /\ UNCHANGED <<objs, made, tableRow, listed, now, op, mine, aim, loaded, draft, events, rowFaults,
                 crossed, botched, alone, before>>

\* ...and the row.
DeleteRow(t) ==
  /\ at[t] = "delete"
  /\ Return(t, "idle")
  /\ crossed' = (crossed \/ late[t])
  /\ \/ tableRow' = NoRow /\ OthersAreLate(t) /\ UNCHANGED <<events, rowFaults>>
     \/ RowFault /\ late' = [late EXCEPT ![t] = FALSE] /\ UNCHANGED tableRow
  /\ UNCHANGED <<cells, listed, now, botched, alone, before>>

\* Ghost: a method that meets it, or a tick of the clock, is not alone.
CreateAgain ==
  /\ ~listed /\ listed' = TRUE
  /\ alone' = (alone /\ NoneInside)
  /\ UNCHANGED <<cells, tableRow, now, locals, events, rowFaults, late, crossed, botched, before>>

SecondPasses ==
  /\ now < MaxNow /\ now' = now + 1
  /\ alone' = (alone /\ NoneInside)
  /\ UNCHANGED <<cells, tableRow, listed, locals, events, rowFaults, late, crossed, botched,
                 before>>

\* The process ends and boots again; a load that fails leaves _health empty.
BootAgain ==
  /\ \/ /\ Boots(tableRow) /\ botched' = (tableRow # NoRow /\ DeadEnd(tableRow))
        /\ UNCHANGED <<events, rowFaults>>
     \/ Boots(NoRow) /\ botched' = FALSE /\ RowFault
  /\ crossed' = FALSE
  /\ UNCHANGED <<tableRow, listed, now, alone, before>>

MethodStep(t) ==
  \/ Peek(t) \/ Test(t) \/ Compare(t) \/ PromoteTo(t)
  \/ Find(t) \/ Make(t) \/ Act(t)
  \/ FinishSuccess(t) \/ FinishDegrade(t) \/ Trip(t) \/ SetDeadline(t)
  \/ LookUp(t) \/ Query(t) \/ CopyField(t) \/ Commit(t) \/ Pop(t) \/ DeleteRow(t)

ThreadsNext ==
  \/ \E t \in BThreads :
       \/ \E method \in Ops : Ask(t, method) \/ Report(t, method) \/ CallEndpoint(t, method)
       \/ SayNothing(t) \/ Forget(t)
       \/ MethodStep(t)
  \/ CreateAgain \/ SecondPasses \/ BootAgain

ThreadsSpec == ThreadsInit /\ [][ThreadsNext]_threadVars

-----------------------------------------------------------------------------
(* What holds however the threads are switched.                             *)

\* The table follows memory when no method is under way, unless a write was
\* overtaken by another or failed ("writes through to this table on every
\* mutation", models.py).
RowFollowsEntry ==
  NoneInside /\ ~crossed /\ rowFaults = 0 => tableRow = IF slot = NoEntry THEN NoRow ELSE objs[slot]

\* A provider that is dead without a deadline was killed, is about to get its
\* deadline, or was tripped between the two halves of a success.
DeadEndHasCause ==
  \A o \in Objects :
    DeadEnd(objs[o]) /\ ~botched => \E t \in BThreads : at[t] = "deadline" /\ mine[t] = o

-----------------------------------------------------------------------------
(* A method that meets no other, and no tick of the clock, is one step of    *)
(* CircuitBreaker: there the step is taken when the method returns.          *)

Regular == NoneInside \/ alone

OneKey == "key"
Owners == "provider"

\* The entry that callers have seen: methods under way have done nothing yet.
Seen == IF NoneInside THEN LiveEntry ELSE before

\* A deletion under way has not been seen yet, nor has the end of a call.
StillListed == listed \/ \E t \in BThreads : op[t] = "forget"
Calls(t) == at[t] = "calling" \/ op[t] \in {"succeed", "fail"}

\* CircuitBreaker keeps the time that is left until a deadline: c is the time.
Left(h, c) == [h EXCEPT !.tripped = IF @ = NotTripped THEN @ ELSE IF @ > c THEN @ - c ELSE 0]

Shown(h, none) == [k \in {OneKey} |-> IF h = none THEN DefaultHealth ELSE Left(h, now)]
Present(h, none) == IF h = none THEN {} ELSE {OneKey}

Atomic == INSTANCE CircuitBreaker WITH
  Keys <- {OneKey}, Providers <- {Owners}, Owner <- [k \in {OneKey} |-> Owners],
  Threads <- BThreads, Weights <- BWeights, Idle <- "idle", MaxFaults <- MaxEvents,
  configured <- IF StillListed THEN {Owners} ELSE {},
  health <- Shown(Seen, NoEntry), tracked <- Present(Seen, NoEntry),
  rows <- Shown(tableRow, NoRow), stored <- Present(tableRow, NoRow),
  call <- [t \in BThreads |-> IF Calls(t) THEN OneKey ELSE "idle"],
  faults <- rowFaults

\* A process that dies in a deletion keeps what it had not deleted yet.
DeletionCutShort == BootAgain /\ \E t \in BThreads : op[t] = "forget"

MethodsAreSteps ==
  Regular /\ Regular' => UNCHANGED Atomic!vars \/ Atomic!Next \/ DeletionCutShort

ThreadsAreSound ==
  /\ ThreadsTypeOK
  /\ RowFollowsEntry /\ DeadEndHasCause
  /\ Regular => \A t \in BThreads : ~Raises(t)

(* Threads inside the breaker's methods leave it sound: the table follows    *)
(* memory until a write is overtaken or fails, a provider is dead without a  *)
(* deadline for a cause only, is_available finds the deadline it has tested  *)
(* unless another method ran (circuit_breaker.py:207 raises TypeError where  *)
(* one did), and a method that meets no other is a step of CircuitBreaker.   *)
ThreadsKeepTheBreaker == [][ThreadsAreSound' /\ MethodsAreSteps]_threadVars
=============================================================================

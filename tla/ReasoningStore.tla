---------------------------- MODULE ReasoningStore ----------------------------
(***************************************************************************)
(* ReasoningStore: the reasoning of turns that made tool calls, by call id,*)
(* for requests whose client stripped it.  Two dicts without a lock, texts *)
(* and times, are shared by the handler threads: a capture writes both for *)
(* each of its ids and prunes, a lookup forgets what has expired, and each *)
(* walks, counts, sorts and pops while others do.  A call belongs to one   *)
(* turn, so that its text is that turn's whoever writes it.                *)
(***************************************************************************)
EXTENDS Integers, FiniteSets

CONSTANTS
  CallIds,         \* tool_call_ids
  Turns,           \* provider turns; a turn stands for its reasoning content
  TurnOf,          \* the turn that made a call
  Keepers,         \* handler threads at the store
  StoreTtl, StoreMax,            \* ttl_seconds and max_entries
  MaxTime,                       \* bound: clock
  MaxKeeps                       \* bound: captures and lookups

Nobody == "nobody"

ASSUME StoreAssumption ==
  /\ Nobody \notin Keepers
  /\ TurnOf \in [CallIds -> Turns]
  /\ StoreTtl \in Nat /\ StoreMax \in Nat \ {0} /\ MaxTime \in Nat

VARIABLES
  texts,      \* _by_tool_call_id: the ids it has a text for
  stamps,     \* _stored_at: id -> time
  storeTime,
  keeping,    \* what each thread is at
  keeps,      \* captures and lookups so far
  captured,   \* history: id -> the time of its last capture
  lone,       \* history: the thread that has the store to itself since it began
  sure        \* history: ids of such captures, with no overlap ever since

storeVars == <<texts, stamps, storeTime, keeping, keeps, captured, lone, sure>>

Absent == [at |-> "absent"]

\* A lookup is at the store only once it goes on to forget.
Inside(k) == keeping[k].at \notin {"absent", "look"}
Alone(k) == \A j \in Keepers \ {k} : ~Inside(j)
InStep == texts = DOMAIN stamps
Expired(now, since) == now - since > StoreTtl

ReasoningInit ==
  /\ texts = {} /\ stamps = [i \in {} |-> 0] /\ storeTime = 0
  /\ keeping = [k \in Keepers |-> Absent] /\ keeps = 0
  /\ captured = [i \in {} |-> 0] /\ lone = Nobody /\ sure = {}

\* Whoever comes while nobody is at the store has it to himself, until another comes.
Enter(k) ==
  /\ lone' = IF Alone(k) /\ InStep THEN k ELSE Nobody
  /\ sure' = IF Alone(k) THEN sure ELSE {}

Go(k, state) == keeping' = [keeping EXCEPT ![k] = state]
Leave(k) == Go(k, Absent) /\ lone' = IF lone = k THEN Nobody ELSE lone
Stay(k, state) == Go(k, state) /\ UNCHANGED lone

-----------------------------------------------------------------------------
(* capture.                                                                *)

\* capture_reasoning_from_response / _from_sse: a turn that made calls and came
\* with reasoning.  The time is read once for all its ids.
StartCapture(k, turn) ==
  LET ids == {i \in CallIds : TurnOf[i] = turn} IN
  /\ keeping[k] = Absent /\ keeps < MaxKeeps /\ keeps' = keeps + 1 /\ ids # {}
  /\ Go(k, [at |-> "text", left |-> ids, now |-> storeTime]) /\ Enter(k)
  /\ UNCHANGED <<texts, stamps, storeTime, captured>>

PutText(k) ==
  /\ keeping[k].at = "text"
  /\ \E i \in keeping[k].left :
       /\ texts' = texts \cup {i}
       /\ Stay(k, [at |-> "stamp", left |-> keeping[k].left, now |-> keeping[k].now, id |-> i])
  /\ UNCHANGED <<stamps, storeTime, keeps, captured, sure>>

With(f, i, t) == [j \in DOMAIN f \cup {i} |-> IF j = i THEN t ELSE f[j]]

PutStamp(k) ==
  LET left == keeping[k].left \ {keeping[k].id} IN
  /\ keeping[k].at = "stamp"
  /\ stamps' = With(stamps, keeping[k].id, keeping[k].now)
  /\ captured' = With(captured, keeping[k].id, keeping[k].now)
  /\ sure' = IF lone = k THEN sure \cup {keeping[k].id} ELSE sure
  /\ Stay(k, IF left = {} THEN [at |-> "prune"]
             ELSE [at |-> "text", left |-> left, now |-> keeping[k].now])
  /\ UNCHANGED <<texts, storeTime, keeps>>

-----------------------------------------------------------------------------
(* _prune.                                                                 *)

\* Its own reading of the clock,
ReadClock(k) ==
  /\ keeping[k].at = "prune"
  /\ Stay(k, [at |-> "scan", now |-> storeTime])
  /\ UNCHANGED <<texts, stamps, storeTime, keeps, captured, sure>>

\* and a walk over the times, which the dict watches.
StartScan(k) ==
  /\ keeping[k].at = "scan"
  /\ Stay(k, [at |-> "walk", now |-> keeping[k].now, keys |-> DOMAIN stamps, seen |-> {}, doomed |-> {}])
  /\ UNCHANGED <<texts, stamps, storeTime, keeps, captured, sure>>

SameSize(k) == Cardinality(DOMAIN stamps) = Cardinality(keeping[k].keys)

ScanKey(k) ==
  /\ keeping[k].at = "walk" /\ SameSize(k)
  /\ \E i \in DOMAIN stamps \ keeping[k].seen :
       LET doomed == IF Expired(keeping[k].now, stamps[i]) THEN keeping[k].doomed \cup {i}
                     ELSE keeping[k].doomed
       IN Stay(k, [at |-> "walk", now |-> keeping[k].now, keys |-> keeping[k].keys,
                   seen |-> keeping[k].seen \cup {i}, doomed |-> doomed])
  /\ UNCHANGED <<texts, stamps, storeTime, keeps, captured, sure>>

\* Other keys in the same number may or may not be met.
EndScan(k) ==
  /\ keeping[k].at = "walk" /\ SameSize(k)
  /\ DOMAIN stamps = keeping[k].keys => keeping[k].seen = keeping[k].keys
  /\ Stay(k, IF keeping[k].doomed = {} THEN [at |-> "measure"]
             ELSE [at |-> "forget", doomed |-> keeping[k].doomed, next |-> "measure"])
  /\ UNCHANGED <<texts, stamps, storeTime, keeps, captured, sure>>

\* RuntimeError: the dict changed during the walk.  The caller of capture swallows
\* it, and nothing is pruned.
ScanFails(k) ==
  /\ keeping[k].at = "walk" /\ DOMAIN stamps # keeping[k].keys
  /\ Leave(k)
  /\ UNCHANGED <<texts, stamps, storeTime, keeps, captured, sure>>

\* _forget: two pops.
ForgetText(k) ==
  /\ keeping[k].at = "forget"
  /\ \E i \in keeping[k].doomed :
       /\ texts' = texts \ {i}
       /\ Stay(k, [at |-> "unstamp", doomed |-> keeping[k].doomed, next |-> keeping[k].next, id |-> i])
  /\ UNCHANGED <<stamps, storeTime, keeps, captured, sure>>

ForgetStamp(k) ==
  LET doomed == keeping[k].doomed \ {keeping[k].id} IN
  /\ keeping[k].at = "unstamp"
  /\ stamps' = [i \in DOMAIN stamps \ {keeping[k].id} |-> stamps[i]]
  /\ \/ doomed # {} /\ Stay(k, [at |-> "forget", doomed |-> doomed, next |-> keeping[k].next])
     \/ doomed = {} /\ keeping[k].next = "measure" /\ Stay(k, [at |-> "measure"])
     \/ doomed = {} /\ keeping[k].next = "absent" /\ Leave(k)
  /\ UNCHANGED <<texts, storeTime, keeps, captured, sure>>

\* The overflow is counted on the texts, the oldest are chosen by their times.
Measure(k) ==
  LET overflow == Cardinality(texts) - StoreMax IN
  /\ keeping[k].at = "measure"
  /\ IF overflow > 0 THEN Stay(k, [at |-> "choose", overflow |-> overflow]) ELSE Leave(k)
  /\ UNCHANGED <<texts, stamps, storeTime, keeps, captured, sure>>

\* n of the entries, none of the others older than any of them; all when there are
\* not n.  Entries stored at the same time are in any order.
Oldest(f, n) ==
  {S \in SUBSET DOMAIN f :
     /\ Cardinality(S) = IF n < Cardinality(DOMAIN f) THEN n ELSE Cardinality(DOMAIN f)
     /\ \A i \in S, j \in DOMAIN f \ S : f[i] <= f[j]}

Choose(k) ==
  /\ keeping[k].at = "choose"
  /\ \E S \in Oldest(stamps, keeping[k].overflow) :
       IF S = {} THEN Leave(k) ELSE Stay(k, [at |-> "forget", doomed |-> S, next |-> "absent"])
  /\ UNCHANGED <<texts, stamps, storeTime, keeps, captured, sure>>

-----------------------------------------------------------------------------
(* get_for_tool_call_id.  An id without a time is not known.               *)

StartLookup(k, i) ==
  /\ keeping[k] = Absent /\ keeps < MaxKeeps /\ keeps' = keeps + 1
  /\ i \in DOMAIN stamps
  /\ Stay(k, [at |-> "look", id |-> i, since |-> stamps[i]])
  /\ UNCHANGED <<texts, stamps, storeTime, captured, sure>>

\* The entry is as young as it may be: its text, if it is still there.
LookupIsOver(k) ==
  /\ keeping[k].at = "look" /\ ~Expired(storeTime, keeping[k].since)
  /\ Stay(k, Absent)
  /\ UNCHANGED <<texts, stamps, storeTime, keeps, captured, sure>>

\* It has expired by the time that was read, even if it was captured again since.
LookupForgets(k) ==
  LET i == keeping[k].id
      current == i \in DOMAIN stamps /\ stamps[i] = keeping[k].since IN
  /\ keeping[k].at = "look" /\ Expired(storeTime, keeping[k].since)
  /\ Go(k, [at |-> "forget", doomed |-> {i}, next |-> "absent"])
  /\ \/ current /\ Enter(k)
     \/ ~current /\ lone' = Nobody /\ sure' = {}
  /\ UNCHANGED <<texts, stamps, storeTime, keeps, captured>>

StoreTick ==
  /\ storeTime < MaxTime /\ storeTime' = storeTime + 1
  /\ UNCHANGED <<texts, stamps, keeping, keeps, captured, lone, sure>>

ReasoningNext ==
  \/ \E k \in Keepers :
       \/ \E turn \in Turns : StartCapture(k, turn)
       \/ PutText(k) \/ PutStamp(k)
       \/ ReadClock(k) \/ StartScan(k) \/ ScanKey(k) \/ EndScan(k) \/ ScanFails(k)
       \/ ForgetText(k) \/ ForgetStamp(k) \/ Measure(k) \/ Choose(k)
       \/ \E i \in CallIds : StartLookup(k, i)
       \/ LookupIsOver(k) \/ LookupForgets(k)
  \/ StoreTick

ReasoningSpec == ReasoningInit /\ [][ReasoningNext]_storeVars

-----------------------------------------------------------------------------
(* Properties.                                                             *)

\* The type of the dicts and of their history.
RTypeOK ==
  /\ texts \subseteq CallIds /\ DOMAIN stamps \subseteq CallIds /\ DOMAIN captured \subseteq CallIds
  /\ \A i \in DOMAIN stamps : stamps[i] \in 0 .. storeTime
  /\ storeTime \in 0 .. MaxTime
  /\ lone \in Keepers \cup {Nobody} /\ sure \subseteq DOMAIN captured

\* What was captured last by a thread that had the store to itself, and has been met
\* by no two threads at once since, is at hand until it expires or max_entries later
\* captures have taken its place.
StoreKeepsTheNewest ==
  \A i \in sure :
    /\ ~Expired(storeTime, captured[i])
    /\ Cardinality({j \in DOMAIN captured \ {i} : captured[j] >= captured[i]}) < StoreMax
    => i \in texts /\ i \in DOMAIN stamps /\ stamps[i] = captured[i]

\* One capture alone brings a store whose dicts agree back to its bound, whatever
\* captures that met, or a walk that failed, had left in it.
LoneCapturesKeepTheBound ==
  (sure # {} /\ \A k \in Keepers : ~Inside(k)) => InStep /\ Cardinality(texts) <= StoreMax

ReasoningIsKept == RTypeOK /\ StoreKeepsTheNewest /\ LoneCapturesKeepTheBound
=============================================================================

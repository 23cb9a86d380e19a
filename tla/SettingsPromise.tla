--------------------------- MODULE SettingsPromise ---------------------------
(* What the admin settings promise, without a cache: a write is stored, and  *)
(* a little later every reader sees it.  "Changes made via the Settings page *)
(* apply immediately without a restart" (cost_cache.py, SettingsStore).      *)

CONSTANTS
  Keys, Contents, Writers,
  Missing    \* what a reader gets for a key that nobody set

VARIABLES
  stored,   \* what the settings table holds
  seen,     \* what a reader gets
  flying,   \* writes that are stored and not yet seen
  raced,    \* keys two writers wrote at the same time since the last start
  blinded   \* keys whose readers could not read the table

promiseVars == <<stored, seen, flying, raced, blinded>>

Write == [by : Writers, key : Keys, to : Contents]

PromiseInit ==
  /\ stored \in [Keys -> Contents]
  /\ seen = stored
  /\ flying = {}
  /\ raced = {} /\ blinded = {}

Put(w) ==
  /\ w \in Write
  /\ \A f \in flying : f.by # w.by
  /\ stored' = [stored EXCEPT ![w.key] = w.to]
  /\ flying' = flying \cup {w}
  /\ raced' \in {raced, raced \cup {w.key}}
  /\ (\E f \in flying : f.key = w.key) => w.key \in raced'
  /\ UNCHANGED <<seen, blinded>>

Appear(w) ==
  /\ w \in flying
  /\ seen' = [seen EXCEPT ![w.key] = w.to]
  /\ flying' = flying \ {w}
  /\ UNCHANGED <<stored, raced, blinded>>

(* A new process reads what is stored; the writers of the old one are gone. *)
Restart ==
  /\ seen' = stored
  /\ flying' = {}
  /\ raced' = {} /\ blinded' = {}
  /\ UNCHANGED stored

(* The table cannot be read: the readers of some keys get nothing, until they *)
(* can read it.                                                              *)
Overlook(K) ==
  /\ seen' = [k \in Keys |-> IF k \in K THEN Missing ELSE seen[k]]
  /\ blinded' = blinded \cup K
  /\ UNCHANGED <<stored, flying, raced>>

Recover(K) ==
  /\ seen' = [k \in Keys |-> IF k \in K THEN stored[k] ELSE seen[k]]
  /\ blinded' = blinded \ K
  /\ UNCHANGED <<stored, flying, raced>>

PromiseNext ==
  \/ Restart
  \/ \E K \in SUBSET Keys : Overlook(K) \/ (K \subseteq blinded /\ Recover(K))
  \/ \E w \in Write : Put(w) \/ Appear(w)

PromiseSpec == PromiseInit /\ [][PromiseNext]_promiseVars

-----------------------------------------------------------------------------
(* Readers lag the table only while a write is on its way: once the writers  *)
(* of a key are done, and none of them overlapped another, every reader that *)
(* could read the table sees what is stored (SettingsStore.set, _clear_key). *)
LagHasACause ==
  \A k \in Keys : seen[k] # stored[k] => k \in raced \cup blinded \/ \E f \in flying : f.key = k
=============================================================================

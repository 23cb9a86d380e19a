---------------------------- MODULE ModelCatalog ----------------------------
(* The live model catalog of Command Code: a bare model name of a request is *)
(* translated to the vendor's id with an index that the request's thread     *)
(* fetches when it is old.  Nothing is locked: threads that find it old at   *)
(* once all fetch, and the clock is read before the request goes out.        *)
EXTENDS Integers

CONSTANTS
  Callers,               \* threads that forward a request
  CatalogTTL, CatalogCooldown,  \* _CATALOG_TTL_SECONDS, _CATALOG_FAIL_COOLDOWN
  MaxCatalogTime, MaxRelease

(* The waiting time after a failure is the shorter one. *)
ASSUME CatalogAssumption ==
  /\ CatalogTTL \in Nat /\ CatalogCooldown \in Nat /\ CatalogCooldown <= CatalogTTL
  /\ MaxCatalogTime \in Nat /\ MaxRelease \in Nat

NeverLoaded == -CatalogTTL     \* 0.0: longer ago than both waiting times

VARIABLES
  release,       \* the vendor's catalog, by its release; the model is in all of them
  indexed,       \* by_last_seg: the release it was made of, 0 if it is empty
  loadedTs, failedTs,
  callers,
  catalogTime,
  answered,      \* a well-formed catalog arrived, and no odd one since
  openedAt       \* when the last fetch was begun by a thread that found none under way

catalogVars == <<release, indexed, loadedTs, failedTs, callers, catalogTime, answered, openedAt>>

CallerIdle == [at |-> "idle"]
Fetching == {c \in Callers : callers[c].at = "fetch"}

CatalogInit ==
  /\ release = 1 /\ indexed = 0 /\ loadedTs = NeverLoaded /\ failedTs = NeverLoaded
  /\ callers = [c \in Callers |-> CallerIdle]
  /\ catalogTime = 0 /\ answered = FALSE /\ openedAt = [last |-> NeverLoaded, gap |-> CatalogTTL]

\* Mutant: a failure is not remembered.
WaitsForTTLOnly == catalogTime - loadedTs < CatalogTTL

Waits == catalogTime - loadedTs < CatalogTTL \/ catalogTime - failedTs < CatalogCooldown

(* _api_model: the name is looked up in what _load_catalog returns. *)
Translate(c) ==
  /\ callers[c] = CallerIdle
  /\ IF Waits THEN /\ callers' = [callers EXCEPT ![c] = [at |-> "sent", of |-> indexed]]
                   /\ UNCHANGED openedAt
     ELSE /\ callers' = [callers EXCEPT ![c] = [at |-> "fetch", now |-> catalogTime]]
          /\ openedAt' = IF Fetching # {} THEN openedAt ELSE [last |-> catalogTime, gap |-> catalogTime - openedAt.last]
  /\ UNCHANGED <<release, indexed, loadedTs, failedTs, catalogTime, answered>>

(* The answer replaces the index, also one whose shape is not known, of      *)
(* which nothing can be indexed.                                             *)
Answered(c, odd) ==
  /\ callers[c].at = "fetch"
  /\ indexed' = IF odd THEN 0 ELSE release
  /\ loadedTs' = callers[c].now
  /\ answered' = ~odd
  /\ callers' = [callers EXCEPT ![c] = [at |-> "sent", of |-> indexed']]
  /\ UNCHANGED <<release, failedTs, catalogTime, openedAt>>

\* Mutant: a failed fetch leaves an empty index.
FetchFailsEmpty(c) ==
  /\ callers[c].at = "fetch"
  /\ failedTs' = callers[c].now /\ indexed' = 0
  /\ callers' = [callers EXCEPT ![c] = [at |-> "sent", of |-> 0]]
  /\ UNCHANGED <<release, loadedTs, catalogTime, answered, openedAt>>

(* A failure keeps the index that is there. *)
FetchFails(c) ==
  /\ callers[c].at = "fetch"
  /\ failedTs' = callers[c].now
  /\ callers' = [callers EXCEPT ![c] = [at |-> "sent", of |-> indexed]]
  /\ UNCHANGED <<release, indexed, loadedTs, catalogTime, answered, openedAt>>

Forwarded(c) ==
  /\ callers[c].at = "sent"
  /\ callers' = [callers EXCEPT ![c] = CallerIdle]
  /\ UNCHANGED <<release, indexed, loadedTs, failedTs, catalogTime, answered, openedAt>>

NewRelease ==
  /\ release < MaxRelease /\ release' = release + 1
  /\ UNCHANGED <<indexed, loadedTs, failedTs, callers, catalogTime, answered, openedAt>>

(* A fetch takes less than the cooldown (a timeout of 8 seconds). *)
CatalogTick ==
  /\ catalogTime < MaxCatalogTime /\ catalogTime' = catalogTime + 1
  /\ \A c \in Fetching : catalogTime - callers[c].now < CatalogCooldown - 1
  /\ UNCHANGED <<release, indexed, loadedTs, failedTs, callers, answered, openedAt>>

CatalogNext ==
  \/ \E c \in Callers : Translate(c) \/ FetchFails(c) \/ Forwarded(c) \/ \E odd \in BOOLEAN : Answered(c, odd)
  \/ NewRelease \/ CatalogTick

-----------------------------------------------------------------------------
(* A request is sent with the vendor's id for its model once a catalog has   *)
(* been read: neither a failure nor a race of two fetches loses the index    *)
(* (_load_catalog: "returns the last cached index").                         *)
KnownModelsStayKnown ==
  answered => indexed > 0

(* The vendor is left alone after a failure: fetches that are not begun at   *)
(* the same time are at least the cooldown apart (_CATALOG_FAIL_COOLDOWN).   *)
FetchesAreSpaced ==
  openedAt.gap >= CatalogCooldown
=============================================================================

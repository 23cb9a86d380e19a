----------------------------- MODULE RouterCaches -----------------------------
(* What the router ranks by: the capability rows and the model registry in   *)
(* the database (seed_capabilities.py), the two caches in front of them      *)
(* (router.py: load_matrix, get_model_registry), and the endpoints of the    *)
(* Models page that change the tables (endpoints.py).  A row is keyed by the *)
(* benchmark key it scores, its task, its source and its release; a registry *)
(* entry pins a logical name to a benchmark key and perhaps to a release.    *)
EXTENDS Naturals, FiniteSets, FiniteSetsExt

CONSTANTS
  Logicals, BenchKeys,
  CTasks, Derived,  \* the tasks, and [CTasks -> CTasks]: what a task is mirrored from
  Releases,         \* dated labels, ordered: positive numbers
  Legacy,           \* 0: the label of a row from before there were labels
  ManualScores,     \* the scores an operator may enter
  SeedRows,         \* the bundled rows, all with source "livebench"
  InitialRows,      \* the rows the database starts with
  InitialEntry,     \* [Logicals -> RegistryEntries \cup {NoEntry}]: the registry as seeded
  Lookups, Editors, \* request threads that score a model, threads of the Models page
  MaxEdits,         \* bound: edits of a behaviour
  NoCache, NoEntry

\* What a row is matched on; a table has one score for each.
RowKey(r) == <<r.key, r.task, r.source, r.release>>
OneScorePerRow(rs) == \A r, s \in rs : RowKey(r) = RowKey(s) => r = s

Row(key, t, source, release, score) ==
  [key |-> key, task |-> t, source |-> source, release |-> release, score |-> score]

\* What an edit writes: a manual score, or the bundled rows.
ManualRows ==
  {Row(key, t, "manual", release, score) : key \in BenchKeys, t \in CTasks, release \in Releases, score \in ManualScores}
Batches == {{r} : r \in ManualRows} \cup {SeedRows}

RegistryEntries == [key : BenchKeys, active : Releases \cup {Legacy}]
SoleOwners(reg) ==
  \A k, l \in Logicals : reg[k] # NoEntry /\ reg[l] # NoEntry /\ reg[k].key = reg[l].key => k = l

\* The tables a behaviour starts from, and the bundled rows, are tables.
ASSUME TablesAssumption ==
  /\ \A rs \in {InitialRows, SeedRows} :
       IsFiniteSet(rs) /\ OneScorePerRow(rs) /\ \A r \in rs : r.release \in Releases \cup {Legacy}
  /\ InitialEntry \in [Logicals -> RegistryEntries \cup {NoEntry}] /\ SoleOwners(InitialEntry)

ASSUME CachesConstants ==
  /\ Releases \subseteq Nat \ {0} /\ Legacy = 0
  /\ MaxEdits \in Nat
  /\ \A t \in CTasks : Derived[t] \in CTasks /\ Derived[Derived[t]] = Derived[t]

VARIABLES
  rows,      \* model_capabilities: a set of [key, task, source, release, score]
  registry,  \* model_registry: [Logicals -> RegistryEntries \cup {NoEntry}]
  matrix,    \* CapabilityRouter._matrix
  regCache,  \* _registry_cache
  lookup,    \* [Lookups -> where a load is and what it has read]
  editor,    \* [Editors -> where an edit is and what it will write]
  edits,
  missed,    \* ghost: the tables changed behind the cached matrix, or it is the empty
             \* one of a load that failed or lost what it had kept to a drop
  crossed,   \* ghost: two upserts at once gave a benchmark key to two names
  doubled    \* ghost: two edits at once wrote the row each had looked for in vain

cachesVars == <<rows, registry, matrix, regCache, lookup, editor, edits, missed, crossed, doubled>>

Idle == [at |-> "idle"]

\* The registry entry a row belongs to: by benchmark key, else by its name.
EntryFor(reg, key) ==
  LET owners == {l \in Logicals : reg[l] # NoEntry /\ reg[l].key = key}
  IN IF owners = {} THEN NoEntry ELSE reg[CHOOSE l \in owners : TRUE]

Pinned(reg, key) == IF EntryFor(reg, key) = NoEntry THEN Legacy ELSE EntryFor(reg, key).active
Labels(rs, key) == {r.release : r \in {x \in rs : x.key = key}}
Dated(rs, key) == Labels(rs, key) \ {Legacy}

\* resolve_active_rows: the release whose rows count.  An entry without a pin
\* has the null label, which a legacy row also has.
SelectedRelease(rs, reg, key) ==
  IF Pinned(reg, key) \in Labels(rs, key) THEN Pinned(reg, key)
  ELSE IF Dated(rs, key) # {} THEN Max(Dated(rs, key)) ELSE Legacy

\* effective_releases: the release the Models page shows.
EffectiveRelease(rs, reg, key) ==
  IF Pinned(reg, key) \in Dated(rs, key) THEN Pinned(reg, key) ELSE Max(Dated(rs, key))

\* Mutant: the newest release always counts
ActiveRowsNewest(rs, reg) ==
  {r \in rs : r.release = Legacy \/ r.release = Max(Labels(rs, r.key))}

ActiveRows(rs, reg) == {r \in rs : r.release \in {Legacy, SelectedRelease(rs, reg, r.key)}}

Priority(source) == CASE source = "manual" -> 1 [] source = "livebench" -> 3 [] OTHER -> 9

NoScore == 1000  \* the router's default applies

\* The best source's score; a derived task takes its parent's scores, over
\* its own.  Two releases of one source may both be active (a legacy row and
\* a selected one): the first row read wins, so the choice is a set.
DirectScores(rs, reg, key, t) ==
  LET active == {r \in ActiveRows(rs, reg) : r.key = key /\ r.task = t}
      best == {r \in active : \A x \in active : Priority(r.source) <= Priority(x.source)}
  IN IF active = {} THEN {NoScore} ELSE {r.score : r \in best}

MatrixOf(rs, reg) ==
  [kt \in BenchKeys \X CTasks |->
     LET parents == DirectScores(rs, reg, kt[1], Derived[kt[2]])
     IN IF parents = {NoScore} THEN DirectScores(rs, reg, kt[1], kt[2]) ELSE parents]

EmptyMatrix == [kt \in BenchKeys \X CTasks |-> {NoScore}]

CachesInit ==
  /\ rows = InitialRows
  /\ registry = InitialEntry
  /\ matrix = NoCache
  /\ regCache = NoCache
  /\ lookup = [x \in Lookups |-> Idle]
  /\ editor = [x \in Editors |-> Idle]
  /\ edits = 0
  /\ missed = FALSE
  /\ crossed = FALSE /\ doubled = FALSE

-----------------------------------------------------------------------------
(* Scoring a model: get_model_score.                                        *)

\* load_matrix finds no cache and reads the rows in one session...
ReadRows(x) ==
  /\ lookup[x] = Idle /\ matrix = NoCache
  /\ lookup' = [lookup EXCEPT ![x] = [at |-> "rows", rows |-> rows, late |-> FALSE]]
  /\ UNCHANGED <<rows, registry, matrix, regCache, editor, edits, missed, crossed, doubled>>

\* ...the registry in another...
ReadRegistry(x) ==
  /\ lookup[x].at = "rows"
  /\ lookup' = [lookup EXCEPT ![x] = [at |-> "read", late |-> lookup[x].late,
                                      found |-> MatrixOf(lookup[x].rows, registry)]]
  /\ UNCHANGED <<rows, registry, matrix, regCache, editor, edits, missed, crossed, doubled>>

\* ...keeps the matrix, whatever happened to the tables or the cache since...
KeepMatrix(x) ==
  /\ lookup[x].at = "read"
  /\ matrix' = lookup[x].found
  /\ missed' = lookup[x].late
  /\ lookup' = [lookup EXCEPT ![x] = [at |-> "kept"]]
  /\ UNCHANGED <<rows, registry, regCache, editor, edits, crossed, doubled>>

\* ...and reads the cache again to log how many tasks there are.  When it has
\* been dropped since, len(None) raises and an empty matrix is cached.
CountTasks(x) ==
  /\ lookup[x].at = "kept"
  /\ IF matrix = NoCache THEN matrix' = EmptyMatrix /\ missed' = TRUE
                         ELSE UNCHANGED <<matrix, missed>>
  /\ lookup' = [lookup EXCEPT ![x] = Idle]
  /\ UNCHANGED <<rows, registry, regCache, editor, edits, crossed, doubled>>

\* A load that fails leaves an empty matrix, and that is cached too.
LoadFails(x) ==
  /\ lookup[x].at = "rows"
  /\ matrix' = EmptyMatrix
  /\ missed' = TRUE
  /\ lookup' = [lookup EXCEPT ![x] = Idle]
  /\ UNCHANGED <<rows, registry, regCache, editor, edits, crossed, doubled>>

\* get_model_registry: read, and in another step keep, the registry.
ReadAliases(x) ==
  /\ lookup[x] = Idle /\ matrix # NoCache /\ regCache = NoCache
  /\ lookup' = [lookup EXCEPT ![x] = [at |-> "aliases", reg |-> registry]]
  /\ UNCHANGED <<rows, registry, matrix, regCache, editor, edits, missed, crossed, doubled>>

KeepAliases(x) ==
  /\ lookup[x].at = "aliases"
  /\ regCache' = lookup[x].reg
  /\ lookup' = [lookup EXCEPT ![x] = Idle]
  /\ UNCHANGED <<rows, registry, matrix, editor, edits, missed, crossed, doubled>>

-----------------------------------------------------------------------------
(* The Models page.                                                         *)

\* Ghost: the matrix in the cache and the loads under way are now behind.
TablesChange ==
  /\ missed' = (missed \/ matrix # NoCache)
  /\ lookup' = [x \in Lookups |-> IF lookup[x].at \in {"rows", "read"}
                                   THEN [lookup[x] EXCEPT !.late = TRUE] ELSE lookup[x]]

Has(rs, r) == \E x \in rs : RowKey(x) = RowKey(r)

\* An edit of the rows looks for the first row it writes; the write locks the
\* table, so it looks for the others when it holds them.
LookUp(e, batch) ==
  /\ edits < MaxEdits
  /\ editor[e] = Idle
  /\ \E first \in batch :
       editor' = [editor EXCEPT ![e] = [at |-> "sought", batch |-> batch, first |-> first,
                                        new |-> ~Has(rows, first)]]
  /\ edits' = edits + 1
  /\ UNCHANGED <<rows, registry, matrix, regCache, lookup, missed, crossed, doubled>>

\* POST /api/models/capability/manual, and /api/models/capability/seed, which
\* writes the bundled rows again.
ManualScore(e) == \E r \in ManualRows : LookUp(e, {r})
SeedAgain(e) == LookUp(e, SeedRows)

\* Mutant: a second score is added beside the first
AddRows(e) ==
  /\ editor[e].at = "sought"
  /\ rows' = rows \cup editor[e].batch
  /\ regCache' = IF editor[e].batch = SeedRows THEN regCache ELSE NoCache
  /\ TablesChange
  /\ editor' = [editor EXCEPT ![e] = Idle]
  /\ UNCHANGED <<registry, matrix, edits, crossed, doubled>>

\* The rows of a write w that it updates in place.
Found(w) == {r \in w.batch : IF r = w.first THEN ~w.new ELSE Has(rows, r)}

\* The rows that were found get their new scores, the others are added.  A
\* manual score drops the registry cache, the seed does not; neither drops the
\* matrix.
WriteRows(e) ==
  /\ editor[e].at = "sought"
  /\ LET w == editor[e]
     IN /\ \E old \in [Found(w) -> rows] :
             /\ \A r \in Found(w) : RowKey(old[r]) = RowKey(r)
             /\ rows' = (rows \ {old[r] : r \in Found(w)}) \cup w.batch
        /\ regCache' = IF w.batch = SeedRows THEN regCache ELSE NoCache
        /\ doubled' = (doubled \/ (w.new /\ Has(rows, w.first)))
  /\ TablesChange
  /\ editor' = [editor EXCEPT ![e] = Idle]
  /\ UNCHANGED <<registry, matrix, edits, crossed>>

\* Mutant: the entry is written without looking for another owner of the key
CheckNothing(e) ==
  /\ edits < MaxEdits
  /\ editor[e] = Idle
  /\ \E l \in Logicals, key \in BenchKeys, active \in Releases \cup {Legacy} :
       editor' = [editor EXCEPT ![e] = [at |-> "checked", l |-> l, key |-> key, active |-> active,
                                      alone |-> TRUE]]
  /\ edits' = edits + 1
  /\ UNCHANGED <<rows, registry, matrix, regCache, lookup, missed, crossed, doubled>>

\* POST /api/models/registry: the guard reads the other entries...
CheckUpsert(e) ==
  /\ edits < MaxEdits
  /\ editor[e] = Idle
  /\ \E l \in Logicals, key \in BenchKeys, active \in Releases \cup {Legacy} :
       /\ \A o \in Logicals \ {l} : registry[o] # NoEntry => registry[o].key # key
       /\ editor' = [editor EXCEPT ![e] = [at |-> "checked", l |-> l, key |-> key, active |-> active,
                                      alone |-> TRUE]]
  /\ edits' = edits + 1
  /\ UNCHANGED <<rows, registry, matrix, regCache, lookup, missed, crossed, doubled>>

\* ...the entry is committed, an absent pin leaves the old one.  Ghost: another
\* upsert that has passed the guard with the same key is no longer alone with it...
CommitUpsert(e) ==
  /\ editor[e].at = "checked"
  /\ LET w == editor[e]
         old == registry[w.l]
         active == IF w.active = Legacy /\ old # NoEntry THEN old.active ELSE w.active
         Rival(o) == editor[o].at = "checked" /\ editor[o].key = w.key /\ editor[o].l # w.l
     IN /\ registry' = [registry EXCEPT ![w.l] = [key |-> w.key, active |-> active]]
        /\ editor' = [o \in Editors |-> IF o = e THEN [at |-> "committed"]
                                        ELSE IF Rival(o) THEN [editor[o] EXCEPT !.alone = FALSE]
                                        ELSE editor[o]]
        /\ crossed' = (crossed \/ ~w.alone)
  /\ TablesChange
  /\ UNCHANGED <<rows, matrix, regCache, edits, doubled>>

\* Mutant: the matrix stays when the registry changes
DropAliasesOnly(e) ==
  /\ editor[e].at = "committed"
  /\ regCache' = NoCache
  /\ missed' = FALSE
  /\ editor' = [editor EXCEPT ![e] = Idle]
  /\ UNCHANGED <<rows, registry, matrix, lookup, edits, crossed, doubled>>

\* ...and both caches are dropped.
DropCaches(e) ==
  /\ editor[e].at = "committed"
  /\ regCache' = NoCache
  /\ matrix' = NoCache
  /\ missed' = FALSE
  /\ editor' = [editor EXCEPT ![e] = Idle]
  /\ UNCHANGED <<rows, registry, lookup, edits, crossed, doubled>>

\* DELETE /api/models/registry/{logical}: the registry cache is dropped, the
\* matrix is not.
DeleteEntry ==
  /\ edits < MaxEdits
  /\ \E l \in Logicals : registry[l] # NoEntry /\ registry' = [registry EXCEPT ![l] = NoEntry]
  /\ regCache' = NoCache
  /\ TablesChange
  /\ edits' = edits + 1
  /\ UNCHANGED <<rows, matrix, editor, crossed, doubled>>

\* A restart: the tables stay, the caches and the threads go.
RouterRestart ==
  /\ matrix # NoCache \/ regCache # NoCache
  /\ matrix' = NoCache /\ regCache' = NoCache /\ missed' = FALSE
  /\ lookup' = [x \in Lookups |-> Idle] /\ editor' = [x \in Editors |-> Idle]
  /\ UNCHANGED <<rows, registry, edits, crossed, doubled>>

CachesNext ==
  \/ \E x \in Lookups : ReadRows(x) \/ ReadRegistry(x) \/ KeepMatrix(x) \/ CountTasks(x)
                        \/ LoadFails(x) \/ ReadAliases(x) \/ KeepAliases(x)
  \/ \E e \in Editors : ManualScore(e) \/ SeedAgain(e) \/ WriteRows(e)
                        \/ CheckUpsert(e) \/ CommitUpsert(e) \/ DropCaches(e)
  \/ DeleteEntry \/ RouterRestart

CachesSpec == CachesInit /\ [][CachesNext]_cachesVars

-----------------------------------------------------------------------------

\* A cached matrix covers every key and task.
CachesTypeOK ==
  /\ matrix = NoCache \/ DOMAIN matrix = BenchKeys \X CTasks
  /\ edits \in 0 .. MaxEdits

\* The router ranks by what the tables say, unless since the matrix was kept
\* a load failed or a change was made that does not drop it (a manual score, a
\* seed, a deleted entry, an upsert on its way), it was kept by a load that a
\* change overtook, or a drop fell between a load's keeping the matrix and its
\* reading it again, which leaves an empty one: an upsert that dropped the cache
\* does not leave an older matrix behind otherwise (router.py: load_matrix,
\* invalidate_matrix).
StaleMatrixHasCause ==
  matrix # NoCache /\ ~missed => matrix = MatrixOf(rows, registry)

\* "a row is matched on the same key the manual edit endpoint uses"
\* (seed_capabilities.py): a row key has two scores only if an edit wrote the
\* row between the search and the write of another.
OneScorePerKey == ~doubled => OneScorePerRow(rows)

\* "a benchmark key may belong to only one logical model" (endpoints.py,
\* _serve_registry_upsert_api): two names have a key only if an upsert was
\* committed between the guard of another and its commit.
OneOwnerPerKey == ~crossed => SoleOwners(registry)

\* The release the Models page shows for a model is the one the router ranks
\* by: effective_releases "Mirrors resolve_active_rows" (seed_capabilities.py),
\* except for an unpinned model that has rows from before there were labels:
\* the router ranks that by those alone.
PageShowsTheRankedRelease ==
  \A key \in BenchKeys :
    Dated(rows, key) # {} /\ (Pinned(registry, key) # Legacy \/ Legacy \notin Labels(rows, key))
      => {r.release : r \in {x \in ActiveRows(rows, registry) : x.key = key}} \ {Legacy}
           = {EffectiveRelease(rows, registry, key)}

(* Said in the code, and not so: two handlers look before either writes, and *)
(* the null label of a legacy row is the one of an entry without a pin.      *)

\* "a benchmark key may belong to only one logical model" (endpoints.py).
KeyHasOneOwner == SoleOwners(registry)

\* A row is matched on its key by those who write it (seed_capabilities.py).
RowHasOneScore == OneScorePerRow(rows)

\* active_release: "None = newest" (models.py).
NullPinIsNewest ==
  \A key \in BenchKeys :
    Pinned(registry, key) = Legacy /\ Dated(rows, key) # {}
      => SelectedRelease(rows, registry, key) = Max(Dated(rows, key))

(* The ranking follows the tables: a cached matrix is out of date only when  *)
(* an edit overtook its load, meets it half-way or does not drop it, a row   *)
(* has one score and a benchmark key one model unless two edits crossed, and *)
(* the page shows the release that is ranked (load_matrix,                   *)
(* resolve_active_rows, _serve_registry_upsert_api).                         *)
RankingFollowsTheTables ==
  /\ CachesTypeOK
  /\ StaleMatrixHasCause /\ OneScorePerKey /\ OneOwnerPerKey /\ PageShowsTheRankedRelease
=============================================================================

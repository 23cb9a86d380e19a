--------------------------- MODULE LifecyclesProofs ---------------------------
(***************************************************************************)
(* What is proved of the parts that are started, installed and logged in:  *)
(* the settings tables, the component runtime, the module installers and   *)
(* the console session, each by itself, and then the invariants of the     *)
(* runs that put them side by side (MCLifecycles).                         *)
(***************************************************************************)
EXTENDS MCLifecycles, SelectionProofs, FiniteSetTheorems, TLAPS

-----------------------------------------------------------------------------
(* The two caches of the settings table, with their writes in two steps,     *)
(* their failed reads and their restarts, implement SettingsPromise, a       *)
(* reader of them lags the table only for a cause, and the configuration in  *)
(* memory is the stored one whenever the API is at rest.                     *)

(* What a handler may still have to write: a row that one store owns is      *)
(* written through that store, and only sections are written as they are.    *)
Jobs ==
  {w \in [store : Stores, key : SKeys, to : SContents \cup {Current}] :
     /\ w.key \in OwnedKeys => w.store = OwnerOf(w.key)
     /\ w.to = Current => w.key \in SectionKeys}
BootJobs == {w \in Jobs : w.store = "boot"}

Writes == [stage : WriteStages, store : Stores, key : SKeys, to : SContents]

(* Well-formed rows, caches and writes (SettingsStore, Config).              *)
TypesOfStores ==
  /\ table \in [SKeys -> SContents] /\ data \in [SectionKeys -> SContents]
  /\ cache \in [Stores -> [SKeys -> SContents]] /\ loaded \in [Stores -> BOOLEAN]
  /\ boot \in {"hydrate", "seed", "router", "up"}
  /\ blind \subseteq Stores /\ overlapped \subseteq SKeys
  /\ mid \in [Handlers -> Writes \cup {NoWrite}]
  /\ \A h \in Handlers : mid[h] # NoWrite /\ mid[h].key \in OwnedKeys => mid[h].store = OwnerOf(mid[h].key)

(* Nothing is queued before the boot has come to its writes, and nothing for *)
(* the live store before the process is up.                                  *)
Queues ==
  \A h \in Handlers :
    /\ todo[h] \in Seq(Jobs)
    /\ boot # "up" => todo[h] \in Seq(BootJobs)
    /\ boot \in {"hydrate", "seed"} => todo[h] = <<>>
    /\ mid[h] # NoWrite => boot \in {"router", "up"} /\ (boot = "router" => mid[h].store = "boot")

(* A store that never read the table has an empty cache, and a store is      *)
(* asked before anything is written through it.                              *)
Known(s) == loaded[s] \/ s \in blind
Caches ==
  /\ \A s \in Stores : ~loaded[s] => cache[s] = Empty
  /\ boot \in {"router", "up"} => Known("boot")
  /\ boot = "up" => Known("live")

StoresInvariant == TypesOfStores /\ todo \in [Handlers -> Seq(Jobs)] /\ Queues /\ Caches

-----------------------------------------------------------------------------
LEMMA SaveAllWritesSections == SaveAll \in Seq(BootJobs)
<1> DEFINE n == Cardinality(SectionKeys)
           turns == SetToSeq(SectionKeys)
<1>1. n \in Nat /\ ExistsBijection(1..n, SectionKeys)
  BY FS_CardinalityType, SettingsAssumption
<1>2. \E f \in [1..n -> SectionKeys] : IsInjective(f)
  BY <1>1 DEF ExistsBijection, Bijection, Injection, IsInjective
<1>3. turns \in [1..n -> SectionKeys]
  BY <1>2 DEF SetToSeq
<1>4. \A k \in SectionKeys : WriteInto("boot", k, Current) \in BootJobs
  BY DEF WriteInto, BootJobs, Jobs, OwnedKeys, OwnerOf, Stores, SKeys
<1> QED BY <1>1, <1>3, <1>4 DEF SaveAll

LEMMA StoresStart == SettingsInit => StoresInvariant
<1> SUFFICES ASSUME SettingsInit PROVE StoresInvariant
  OBVIOUS
<1>1. (CHOOSE v \in SValues : TRUE) \in SValues
  BY SettingsAssumption
<1>2. table \in [SKeys -> SContents] /\ Empty \in [SKeys -> SContents]
  BY <1>1 DEF SettingsInit, Empty, SContents, SKeys
<1>3. TypesOfStores
  BY <1>2 DEF SettingsInit, NewProcess, TypesOfStores, SContents
<1> QED BY <1>3 DEF SettingsInit, NewProcess, StoresInvariant, Queues, Caches

-----------------------------------------------------------------------------
(* What a read of a store does: it knows the table afterwards, or is blind.  *)
LEMMA ReadKeepsCaches ==
  ASSUME StoresInvariant, NEW s \in Stores, NEW ok \in BOOLEAN, EnsureLoaded(s, ok)
  PROVE  /\ cache' \in [Stores -> [SKeys -> SContents]] /\ loaded' \in [Stores -> BOOLEAN]
         /\ blind' \subseteq Stores
         /\ \A t \in Stores : ~loaded'[t] => cache'[t] = Empty
         /\ Known(s)' /\ \A t \in Stores : Known(t) => Known(t)'
<1> USE DEF StoresInvariant, TypesOfStores, Caches
<1>1. CASE loaded[s]
  BY <1>1 DEF EnsureLoaded, Known
<1>2. CASE ~loaded[s] /\ ok
  <2>1. cache' = [cache EXCEPT ![s] = [k \in SKeys |-> IF table[k] = Absent THEN cache[s][k] ELSE table[k]]]
    BY <1>2 DEF EnsureLoaded
  <2>2. loaded' = [loaded EXCEPT ![s] = TRUE] /\ blind' = blind \ {s}
    BY <1>2 DEF EnsureLoaded
  <2> QED BY <2>1, <2>2 DEF Known
<1>3. CASE ~loaded[s] /\ ~ok
  BY <1>3 DEF EnsureLoaded, Known
<1> QED BY <1>1, <1>2, <1>3

(* ... and what that is to a reader of the settings.                         *)
LEMMA ReadIsPromised ==
  ASSUME StoresInvariant, NEW s \in Stores, NEW ok \in BOOLEAN, EnsureLoaded(s, ok),
         UNCHANGED <<table, mid, overlapped>>
  PROVE  [Promise!PromiseNext]_(Promise!promiseVars)
<1> USE DEF StoresInvariant, TypesOfStores, Caches
<1> DEFINE K == {k \in OwnedKeys : OwnerOf(k) = s}
<1>0. \A k \in OwnedKeys : OwnerOf(k) \in Stores /\ k \in SKeys
  BY DEF OwnedKeys, OwnerOf, Stores
<1>1. CASE loaded[s]
  BY <1>1 DEF EnsureLoaded, Promise!promiseVars, View, StoredRows, SeenRows, FlyingWrites, BlindKeys
<1>2. CASE ~loaded[s] /\ ok
  <2>1. cache' = [cache EXCEPT ![s] = [k \in SKeys |-> IF table[k] = Absent THEN cache[s][k] ELSE table[k]]]
    BY <1>2 DEF EnsureLoaded
  <2>2. loaded' = [loaded EXCEPT ![s] = TRUE] /\ blind' = blind \ {s}
    BY <1>2 DEF EnsureLoaded
  <2>3. cache'[s] = table
    BY <2>1, <1>2 DEF Empty
  <2>4. \A t \in Stores : View(t)' = IF t = s THEN table ELSE View(t)
    BY <2>1, <2>2, <2>3 DEF View
  <2>5. CASE s \in blind
    <3>1. K \subseteq BlindKeys /\ Promise!Recover(K)
      BY <1>0, <2>2, <2>4, <2>5 DEF Promise!Recover, StoredRows, SeenRows, FlyingWrites, BlindKeys
    <3> QED BY <3>1 DEF Promise!PromiseNext
  <2>6. CASE s \notin blind
    <3>1. View(s) = table
      BY <1>2, <2>6 DEF View
    <3> QED BY <1>0, <2>2, <2>4, <2>6, <3>1 DEF Promise!promiseVars, StoredRows, SeenRows, FlyingWrites, BlindKeys
  <2> QED BY <2>5, <2>6
<1>3. CASE ~loaded[s] /\ ~ok
  <2>1. UNCHANGED <<cache, loaded>> /\ blind' = blind \cup {s}
    BY <1>3 DEF EnsureLoaded
  <2>2. \A t \in Stores : View(t)' = IF t = s THEN Empty ELSE View(t)
    BY <1>3, <2>1 DEF View
  <2>3. Promise!Overlook(K)
    BY <1>0, <2>1, <2>2 DEF Promise!Overlook, Empty, StoredRows, SeenRows, FlyingWrites, BlindKeys
  <2> QED BY <2>3 DEF Promise!PromiseNext
<1> QED BY <1>1, <1>2, <1>3

-----------------------------------------------------------------------------
(* One lemma for each action: it preserves the invariant, and it is a step   *)
(* of the promise or none.                                                   *)
Promised == StoresInvariant' /\ [Promise!PromiseNext]_(Promise!promiseVars)

LEMMA HydrateIsPromised ==
  ASSUME StoresInvariant, NEW k \in SectionKeys, NEW ok \in BOOLEAN, Hydrate(k, ok)
  PROVE  Promised
<1> USE DEF StoresInvariant
<1>1. "boot" \in Stores /\ EnsureLoaded("boot", ok) /\ UNCHANGED <<table, mid, overlapped, todo, boot>>
  BY DEF Hydrate, Stores
<1>2. [Promise!PromiseNext]_(Promise!promiseVars)
  BY <1>1, ReadIsPromised
<1>3. Caches' /\ cache' \in [Stores -> [SKeys -> SContents]] /\ loaded' \in [Stores -> BOOLEAN] /\ blind' \subseteq Stores
  BY <1>1, ReadKeepsCaches DEF Hydrate, Caches
<1>4. data' \in [SectionKeys -> SContents]
  BY <1>1, <1>3 DEF Hydrate, TypesOfStores, FromRow, SContents, SKeys, Stores
<1>5. TypesOfStores' /\ todo' \in [Handlers -> Seq(Jobs)] /\ Queues'
  BY <1>1, <1>3, <1>4 DEF TypesOfStores, Queues
<1> QED BY <1>2, <1>3, <1>5 DEF Promised

LEMMA HydratedIsPromised ==
  ASSUME StoresInvariant, Hydrated
  PROVE  Promised
<1>1. UNCHANGED <<table, cache, loaded, blind, mid, overlapped, data, todo>> /\ boot = "hydrate" /\ boot' = "seed"
  BY DEF Hydrated, misread
<1>2. StoresInvariant'
  BY <1>1 DEF StoresInvariant, TypesOfStores, Queues, Caches, Known
<1>3. UNCHANGED Promise!promiseVars
  BY <1>1 DEF Promise!promiseVars, View, StoredRows, SeenRows, FlyingWrites, BlindKeys
<1> QED BY <1>2, <1>3 DEF Promised

LEMMA SeedingIsPromised ==
  ASSUME StoresInvariant, NEW h \in Handlers, NEW ok \in BOOLEAN, SeedOnFirstBoot(h, ok)
  PROVE  Promised
<1> USE DEF StoresInvariant
<1>1. /\ "boot" \in Stores /\ EnsureLoaded("boot", ok) /\ UNCHANGED <<table, mid, overlapped, data>>
      /\ boot = "seed" /\ boot' = "router" /\ HandlersIdle
  BY DEF SeedOnFirstBoot, Stores
<1>2. [Promise!PromiseNext]_(Promise!promiseVars)
  BY <1>1, ReadIsPromised
<1>3. /\ cache' \in [Stores -> [SKeys -> SContents]] /\ loaded' \in [Stores -> BOOLEAN] /\ blind' \subseteq Stores
      /\ Caches'
  BY <1>1, ReadKeepsCaches DEF Caches
<1>4. todo' \in [Handlers -> Seq(BootJobs)]
  <2>1. SaveAll \in Seq(BootJobs) /\ <<>> \in Seq(BootJobs)
    BY SaveAllWritesSections
  <2>2. \A g \in Handlers : todo[g] = <<>>
    BY <1>1 DEF HandlersIdle
  <2> QED BY <2>1, <2>2 DEF SeedOnFirstBoot
<1>5. Seq(BootJobs) \subseteq Seq(Jobs)
  BY DEF BootJobs
<1>6. TypesOfStores' /\ todo' \in [Handlers -> Seq(Jobs)] /\ Queues'
  BY <1>1, <1>3, <1>4, <1>5 DEF TypesOfStores, Queues, HandlersIdle
<1> QED BY <1>2, <1>3, <1>6 DEF Promised

LEMMA RouterAskingIsPromised ==
  ASSUME StoresInvariant, NEW ok \in BOOLEAN, RouterAsks(ok)
  PROVE  Promised
<1> USE DEF StoresInvariant
<1>1. /\ "live" \in Stores /\ "boot" \in Stores /\ EnsureLoaded("live", ok) /\ UNCHANGED <<table, mid, overlapped, todo, data>>
      /\ boot = "router" /\ boot' = "up" /\ HandlersIdle
  BY DEF RouterAsks, Stores
<1>2. [Promise!PromiseNext]_(Promise!promiseVars)
  BY <1>1, ReadIsPromised
<1>3. /\ cache' \in [Stores -> [SKeys -> SContents]] /\ loaded' \in [Stores -> BOOLEAN] /\ blind' \subseteq Stores
      /\ Caches'
  BY <1>1, ReadKeepsCaches DEF Caches
<1>4. TypesOfStores' /\ todo' \in [Handlers -> Seq(Jobs)] /\ Queues'
  BY <1>1, <1>3 DEF TypesOfStores, Queues
<1> QED BY <1>2, <1>3, <1>4 DEF Promised

LEMMA ReadingIsPromised ==
  ASSUME StoresInvariant, NEW ok \in BOOLEAN, ReadSettings(ok)
  PROVE  Promised
<1> USE DEF StoresInvariant
<1>1. /\ "live" \in Stores /\ "boot" \in Stores /\ EnsureLoaded("live", ok)
      /\ UNCHANGED <<table, mid, overlapped, todo, data, boot>>
  BY DEF ReadSettings, Stores
<1>2. [Promise!PromiseNext]_(Promise!promiseVars)
  BY <1>1, ReadIsPromised
<1>3. /\ cache' \in [Stores -> [SKeys -> SContents]] /\ loaded' \in [Stores -> BOOLEAN] /\ blind' \subseteq Stores
      /\ Caches'
  BY <1>1, ReadKeepsCaches DEF Caches
<1>4. TypesOfStores' /\ todo' \in [Handlers -> Seq(Jobs)] /\ Queues'
  BY <1>1, <1>3 DEF TypesOfStores, Queues
<1> QED BY <1>2, <1>3, <1>4 DEF Promised

LEMMA SerialisingIsPromised ==
  ASSUME StoresInvariant, NEW h \in Handlers, Serialise(h)
  PROVE  Promised
<1> USE DEF StoresInvariant
<1> DEFINE w == Head(todo[h])
<1>1. /\ mid[h] = NoWrite /\ todo[h] # <<>> /\ todo' = [todo EXCEPT ![h] = Tail(@)]
      /\ mid' = [mid EXCEPT ![h] = [stage |-> "read", store |-> w.store, key |-> w.key,
                                    to |-> IF w.to = Current THEN data[w.key] ELSE w.to]]
      /\ UNCHANGED <<table, cache, loaded, blind, data, boot, overlapped>>
  BY DEF Serialise, misread
<1>2. w \in Jobs /\ Tail(todo[h]) \in Seq(Jobs)
  BY <1>1
<1>3. boot # "up" => w \in BootJobs /\ Tail(todo[h]) \in Seq(BootJobs)
  BY <1>1 DEF Queues
<1>4. boot \in {"router", "up"}
  BY <1>1 DEF Queues, TypesOfStores
<1>5. mid'[h] \in Writes /\ (w.key \in OwnedKeys => w.store = OwnerOf(w.key))
  BY <1>1, <1>2 DEF Writes, WriteStages, Jobs, TypesOfStores
<1>6. TypesOfStores'
  BY <1>1, <1>5 DEF TypesOfStores
<1>7. todo' \in [Handlers -> Seq(Jobs)] /\ Queues'
  BY <1>1, <1>2, <1>3, <1>4 DEF Queues, BootJobs, TypesOfStores
<1>8. Caches'
  BY <1>1 DEF Caches, Known
<1>9. UNCHANGED Promise!promiseVars
  <2>1. \A g \in Handlers : mid'[g].stage = "committed" <=> mid[g].stage = "committed"
    BY <1>1 DEF TypesOfStores, NoWrite
  <2>2. \A g \in Handlers : mid[g].stage = "committed" => mid'[g] = mid[g]
    BY <1>1 DEF TypesOfStores, NoWrite
  <2> QED BY <1>1, <2>1, <2>2 DEF Promise!promiseVars, View, StoredRows, SeenRows, FlyingWrites, BlindKeys
<1> QED BY <1>6, <1>7, <1>8, <1>9 DEF Promised

LEMMA CommittingIsPromised ==
  ASSUME StoresInvariant, NEW h \in Handlers, Commit(h)
  PROVE  Promised
<1> USE DEF StoresInvariant
<1> DEFINE k == mid[h].key
           w == [by |-> h, key |-> k, to |-> mid[h].to]
<1>1. /\ mid[h].stage = "read" /\ table' = [table EXCEPT ![k] = mid[h].to]
      /\ mid' = [mid EXCEPT ![h].stage = "committed"]
      /\ overlapped' = IF \E g \in Handlers \ {h} : mid[g] # NoWrite /\ mid[g].key = k
                       THEN overlapped \cup {k} ELSE overlapped
      /\ UNCHANGED <<cache, loaded, blind, data, boot, todo>>
  BY DEF Commit, misread
<1>2. mid[h] \in Writes /\ mid[h] # NoWrite
  BY <1>1 DEF TypesOfStores, NoWrite
<1>3. k \in SKeys /\ mid[h].to \in SContents /\ mid'[h] \in Writes /\ mid'[h].key = k /\ mid'[h].to = mid[h].to
      /\ mid'[h].stage = "committed" /\ mid'[h].store = mid[h].store
  BY <1>1, <1>2 DEF Writes, WriteStages, TypesOfStores
<1>4. TypesOfStores'
  BY <1>1, <1>2, <1>3 DEF TypesOfStores
<1>5. Queues' /\ Caches'
  BY <1>1, <1>2, <1>3 DEF Queues, Caches, Known, TypesOfStores
<1>6. k \in OwnedKeys => Known(mid[h].store) /\ mid[h].store = OwnerOf(k)
  BY <1>2 DEF Queues, Caches, Writes, Stores, TypesOfStores
<1>7. \A j \in OwnedKeys : View(OwnerOf(j))'[j] = View(OwnerOf(j))[j]
  BY <1>1, <1>3, <1>6 DEF View, Known, OwnedKeys, TypesOfStores
<1>8. \A g \in Handlers \ {h} : mid'[g] = mid[g]
  BY <1>1 DEF TypesOfStores
<1>9. SeenRows' = SeenRows /\ BlindKeys' = BlindKeys
  BY <1>1, <1>7 DEF SeenRows, BlindKeys
<1>10. ASSUME k \in OwnedKeys PROVE Promise!PromiseNext
  <2>1. w \in Promise!Write
    BY <1>3, <1>10 DEF Promise!Write
  <2>2. Promise!Put(w)
    <3>1. \A f \in FlyingWrites : f.by # h /\ \E g \in Handlers \ {h} : mid[g].stage = "committed" /\ f.key = mid[g].key
      BY <1>1 DEF FlyingWrites
    <3>2. FlyingWrites' = FlyingWrites \cup {w}
      BY <1>1, <1>3, <1>8, <1>10 DEF FlyingWrites
    <3>3. StoredRows' = [StoredRows EXCEPT ![k] = mid[h].to]
      BY <1>1, <1>3, <1>10 DEF TypesOfStores, OwnedKeys, StoredRows
    <3>4. \A g \in Handlers : mid[g].stage = "committed" => mid[g] # NoWrite
      BY DEF NoWrite
    <3>5. k # RoutingSection
      BY <1>10 DEF OwnedKeys
    <3>6. (\E f \in FlyingWrites : f.key = k) => k \in overlapped'
      BY <1>1, <3>1, <3>4
    <3>7. /\ overlapped' \ {RoutingSection} \in {overlapped \ {RoutingSection}, (overlapped \ {RoutingSection}) \cup {k}}
          /\ (\E f \in FlyingWrites : f.key = k) => k \in overlapped' \ {RoutingSection}
      BY <1>1, <3>5, <3>6
    <3>8. w.by = h /\ w.key = k /\ w.to = mid[h].to
      OBVIOUS
    <3> HIDE DEF w, k
    <3> QED BY <1>9, <2>1, <3>1, <3>2, <3>3, <3>7, <3>8 DEF Promise!Put
  <2> QED BY <2>1, <2>2 DEF Promise!PromiseNext
<1>11. ASSUME k \notin OwnedKeys PROVE UNCHANGED Promise!promiseVars
  <2>1. k = RoutingSection
    BY <1>3, <1>11 DEF OwnedKeys
  <2>2. FlyingWrites' = FlyingWrites
    BY <1>1, <1>3, <1>8, <1>11 DEF FlyingWrites
  <2>3. StoredRows' = StoredRows
    BY <1>1, <2>1 DEF TypesOfStores, OwnedKeys, StoredRows
  <2>4. overlapped' \ {RoutingSection} = overlapped \ {RoutingSection}
    BY <1>1, <2>1
  <2> QED BY <1>9, <2>2, <2>3, <2>4 DEF Promise!promiseVars
<1> QED BY <1>1, <1>4, <1>5, <1>10, <1>11 DEF Promised

LEMMA FailingIsPromised ==
  ASSUME StoresInvariant, NEW h \in Handlers, CommitFails(h)
  PROVE  Promised
<1> USE DEF StoresInvariant
<1>1. /\ mid[h].stage = "read" /\ mid' = [mid EXCEPT ![h] = NoWrite]
      /\ todo' = IF mid[h].key \in SettingKeys THEN [todo EXCEPT ![h] = <<>>] ELSE todo
      /\ UNCHANGED <<table, cache, loaded, blind, data, boot, overlapped>>
  BY DEF CommitFails, misread
<1>2. TypesOfStores'
  BY <1>1 DEF TypesOfStores
<1>3. <<>> \in Seq(Jobs) /\ <<>> \in Seq(BootJobs)
  OBVIOUS
<1>4. todo' \in [Handlers -> Seq(Jobs)] /\ Queues' /\ Caches'
  BY <1>1, <1>3 DEF Queues, Caches, Known, TypesOfStores
<1>5. FlyingWrites' = FlyingWrites
  <2>1. NoWrite.stage # "committed" /\ mid[h].stage # "committed" /\ mid'[h] = NoWrite
    BY <1>1 DEF NoWrite, TypesOfStores
  <2>2. \A g \in Handlers \ {h} : mid'[g] = mid[g]
    BY <1>1 DEF TypesOfStores
  <2> QED BY <2>1, <2>2 DEF FlyingWrites
<1>6. UNCHANGED Promise!promiseVars
  BY <1>1, <1>5 DEF Promise!promiseVars, View, StoredRows, SeenRows, BlindKeys
<1> QED BY <1>2, <1>4, <1>6 DEF Promised

LEMMA PublishingIsPromised ==
  ASSUME StoresInvariant, NEW h \in Handlers, Publish(h)
  PROVE  Promised
<1> USE DEF StoresInvariant
<1> DEFINE s == mid[h].store
           k == mid[h].key
           w == [by |-> h, key |-> k, to |-> mid[h].to]
<1>1. /\ mid[h].stage = "committed" /\ cache' = [cache EXCEPT ![s][k] = mid[h].to]
      /\ loaded' = [loaded EXCEPT ![s] = @ \/ mid[h].to # Absent]
      /\ mid' = [mid EXCEPT ![h] = NoWrite]
      /\ UNCHANGED <<table, blind, data, boot, todo, overlapped>>
  BY DEF Publish, misread
<1>2. mid[h] \in Writes /\ mid[h] # NoWrite
  BY <1>1 DEF TypesOfStores, NoWrite
<1>3. s \in Stores /\ k \in SKeys /\ mid[h].to \in SContents
  BY <1>2 DEF Writes
<1>4. Known(s)
  BY <1>2, <1>3 DEF Queues, Caches, Stores, TypesOfStores
<1>5. cache' \in [Stores -> [SKeys -> SContents]] /\ loaded' \in [Stores -> BOOLEAN]
  BY <1>1, <1>3 DEF TypesOfStores
<1>6. TypesOfStores'
  BY <1>1, <1>5 DEF TypesOfStores
<1>7. Queues'
  BY <1>1 DEF Queues, TypesOfStores
<1>8. Caches'
  <2>1. \A t \in Stores : Known(t) => Known(t)'
    BY <1>1, <1>3 DEF Known, TypesOfStores
  <2>2. \A t \in Stores : ~loaded'[t] => cache'[t] = Empty
    <3> SUFFICES ASSUME NEW t \in Stores, ~loaded'[t] PROVE cache'[t] = Empty
      OBVIOUS
    <3>1. ~loaded[t] /\ (t = s => mid[h].to = Absent)
      BY <1>1, <1>3 DEF TypesOfStores
    <3>2. cache[t] = Empty
      BY <3>1 DEF Caches
    <3>3. cache'[t] = IF t = s THEN [cache[s] EXCEPT ![k] = mid[h].to] ELSE cache[t]
      BY <1>1, <1>3 DEF TypesOfStores
    <3> QED BY <1>3, <3>1, <3>2, <3>3 DEF Empty
  <2> QED BY <1>1, <2>1, <2>2 DEF Caches, Stores
<1>9. /\ View(s) \in [SKeys -> SContents]
      /\ \A t \in Stores : View(t)' = IF t = s THEN [View(t) EXCEPT ![k] = mid[h].to] ELSE View(t)
  BY <1>1, <1>3, <1>4, <1>5 DEF View, Known, TypesOfStores
<1>10. StoredRows' = StoredRows /\ BlindKeys' = BlindKeys
  BY <1>1 DEF StoredRows, BlindKeys
<1>11. \A j \in OwnedKeys : OwnerOf(j) \in Stores /\ j \in SKeys
  BY DEF OwnedKeys, OwnerOf, Stores
<1>12. NoWrite.stage # "committed" /\ mid'[h] = NoWrite /\ \A g \in Handlers \ {h} : mid'[g] = mid[g]
  BY <1>1 DEF NoWrite, TypesOfStores
<1>13. ASSUME k \in OwnedKeys PROVE Promise!PromiseNext
  <2>1. w \in Promise!Write /\ w \in FlyingWrites
    BY <1>1, <1>3, <1>13 DEF Promise!Write, FlyingWrites
  <2>2. FlyingWrites' = FlyingWrites \ {w}
    BY <1>1, <1>12, <1>13 DEF FlyingWrites
  <2>3. s = OwnerOf(k)
    BY <1>2, <1>13 DEF TypesOfStores
  <2>4. SeenRows' = [SeenRows EXCEPT ![k] = mid[h].to]
    <3>1. ASSUME NEW j \in OwnedKeys
          PROVE  View(OwnerOf(j))'[j] = IF j = k THEN mid[h].to ELSE View(OwnerOf(j))[j]
      <4>1. CASE OwnerOf(j) = s
        BY <1>3, <1>9, <1>11, <2>3, <4>1
      <4>2. CASE OwnerOf(j) # s
        BY <1>9, <1>11, <2>3, <4>2
      <4> QED BY <4>1, <4>2
    <3> QED BY <1>13, <3>1 DEF SeenRows
  <2>5. Promise!Appear(w)
    BY <1>1, <1>10, <2>1, <2>2, <2>4 DEF Promise!Appear
  <2> QED BY <2>1, <2>5 DEF Promise!PromiseNext
<1>14. ASSUME k \notin OwnedKeys PROVE UNCHANGED Promise!promiseVars
  <2>1. FlyingWrites' = FlyingWrites
    BY <1>1, <1>12, <1>14 DEF FlyingWrites
  <2>2. SeenRows' = SeenRows
    BY <1>3, <1>9, <1>11, <1>14 DEF SeenRows, TypesOfStores
  <2> QED BY <1>1, <1>10, <2>1, <2>2 DEF Promise!promiseVars
<1> QED BY <1>1, <1>6, <1>7, <1>8, <1>13, <1>14 DEF Promised

LEMMA EditingIsPromised ==
  ASSUME StoresInvariant, NEW h \in Handlers,
         \/ \E k \in SettingKeys, v \in SValues \cup {Absent} : ChangeSetting(h, k, v)
         \/ \E v \in SValues : ToggleRouting(h, v)
         \/ \E k \in SectionKeys, v \in SValues : EditConfig(h, k, v)
  PROVE  Promised
<1> USE DEF StoresInvariant
<1>1. boot = "up" /\ UNCHANGED <<table, cache, loaded, blind, boot, mid, overlapped>>
  BY DEF ChangeSetting, ToggleRouting, EditConfig, Begins, Ready, misread
<1>2. data' \in [SectionKeys -> SContents]
  BY DEF TypesOfStores, ChangeSetting, ToggleRouting, EditConfig, SContents
<1>3. ASSUME NEW k \in SettingKeys \cup {RoutingSection}, NEW v \in SValues \cup {Absent}
      PROVE  WriteInto("live", k, v) \in Jobs
  BY <1>3, SettingsAssumption DEF WriteInto, Jobs, Stores, SKeys, SContents, OwnedKeys, OwnerOf, Current, Absent
<1>4. \E q \in Seq(Jobs) : todo' = [todo EXCEPT ![h] = q]
  <2>1. CASE \E k \in SettingKeys, v \in SValues \cup {Absent} : ChangeSetting(h, k, v)
    <3>1. PICK k \in SettingKeys, v \in SValues \cup {Absent} : ChangeSetting(h, k, v)
      BY <2>1
    <3>2. <<WriteInto("live", k, v)>> \in Seq(Jobs)
      BY <1>3
    <3> QED BY <3>1, <3>2 DEF ChangeSetting
  <2>2. CASE \E v \in SValues : ToggleRouting(h, v)
    <3>1. PICK v \in SValues : ToggleRouting(h, v)
      BY <2>2
    <3>2. WriteInto("live", RoutingToggle, v) \in Jobs /\ WriteInto("live", RoutingSection, v) \in Jobs
      BY <1>3, SettingsAssumption
    <3>3. <<WriteInto("live", RoutingToggle, v), WriteInto("live", RoutingSection, v)>> \in Seq(Jobs)
      BY <3>2
    <3> QED BY <3>1, <3>3 DEF ToggleRouting
  <2>3. CASE \E k \in SectionKeys, v \in SValues : EditConfig(h, k, v)
    <3>1. SaveAll \in Seq(Jobs)
      BY SaveAllWritesSections DEF BootJobs
    <3> QED BY <2>3, <3>1 DEF EditConfig
  <2> QED BY <2>1, <2>2, <2>3
<1>5. TypesOfStores' /\ Caches'
  BY <1>1, <1>2 DEF TypesOfStores, Caches, Known
<1>6. todo' \in [Handlers -> Seq(Jobs)] /\ Queues'
  BY <1>1, <1>4 DEF Queues
<1>7. UNCHANGED Promise!promiseVars
  BY <1>1 DEF Promise!promiseVars, View, StoredRows, SeenRows, FlyingWrites, BlindKeys
<1> QED BY <1>5, <1>6, <1>7 DEF Promised

LEMMA RestartingIsPromised ==
  ASSUME StoresInvariant, ProcessRestarts
  PROVE  Promised
<1> USE DEF StoresInvariant
<1>1. /\ cache' = [s \in Stores |-> Empty] /\ loaded' = [s \in Stores |-> FALSE]
      /\ data' = [k \in SectionKeys |-> Absent] /\ boot' = "hydrate"
      /\ todo' = [h \in Handlers |-> <<>>] /\ mid' = [h \in Handlers |-> NoWrite]
      /\ overlapped' = {} /\ blind' = {} /\ table' = table
  BY DEF ProcessRestarts
<1>2. TypesOfStores'
  BY <1>1 DEF TypesOfStores, Empty, SContents
<1>3. todo' \in [Handlers -> Seq(Jobs)] /\ Queues' /\ Caches'
  BY <1>1 DEF Queues, Caches
<1>4. \A k \in OwnedKeys : OwnerOf(k) \in Stores
  BY DEF OwnerOf, Stores
<1>5. Promise!Restart
  BY <1>1, <1>4 DEF Promise!Restart, View, StoredRows, SeenRows, FlyingWrites, BlindKeys, NoWrite
<1> QED BY <1>2, <1>3, <1>5 DEF Promised, Promise!PromiseNext

-----------------------------------------------------------------------------
LEMMA StartIsPromised == SettingsInit => Promise!PromiseInit
<1> SUFFICES ASSUME SettingsInit PROVE Promise!PromiseInit
  OBVIOUS
<1>1. StoresInvariant
  BY StoresStart
<1>2. \A k \in OwnedKeys : OwnerOf(k) \in Stores /\ k \in SKeys
  BY DEF OwnerOf, OwnedKeys, Stores
<1>3. StoredRows \in [OwnedKeys -> SContents]
  BY <1>1, <1>2 DEF StoredRows, StoresInvariant, TypesOfStores
<1>4. SeenRows = StoredRows /\ FlyingWrites = {} /\ BlindKeys = {} /\ overlapped \ {RoutingSection} = {}
  BY <1>2 DEF SettingsInit, NewProcess, SeenRows, StoredRows, FlyingWrites, BlindKeys, View, NoWrite
<1> QED BY <1>3, <1>4 DEF Promise!PromiseInit

LEMMA StepsArePromised == StoresInvariant /\ [SettingsNext]_settingsVars => Promised
<1> SUFFICES ASSUME StoresInvariant, [SettingsNext]_settingsVars PROVE Promised
  OBVIOUS
<1>1. MainThread \in Handlers
  BY SettingsAssumption DEF MainThread
<1>2. ASSUME NEW ok \in BOOLEAN,
             (\E k \in SectionKeys : Hydrate(k, ok)) \/ SeedOnFirstBoot(MainThread, ok) \/ RouterAsks(ok) \/ ReadSettings(ok)
      PROVE  Promised
  BY <1>1, <1>2, HydrateIsPromised, SeedingIsPromised, RouterAskingIsPromised, ReadingIsPromised
<1>3. CASE Hydrated
  BY <1>3, HydratedIsPromised
<1>4. ASSUME NEW h \in Handlers, Serialise(h) \/ Commit(h) \/ CommitFails(h) \/ Publish(h)
      PROVE  Promised
  BY <1>4, SerialisingIsPromised, CommittingIsPromised, FailingIsPromised, PublishingIsPromised
<1>5. ASSUME NEW h \in Handlers,
             \/ \E k \in SettingKeys, v \in SValues \cup {Absent} : ChangeSetting(h, k, v)
             \/ \E v \in SValues : ToggleRouting(h, v)
             \/ \E k \in SectionKeys, v \in SValues : EditConfig(h, k, v)
      PROVE  Promised
  BY <1>5, EditingIsPromised
<1>6. CASE ProcessRestarts
  BY <1>6, RestartingIsPromised
<1>7. CASE UNCHANGED settingsVars
  <2>1. StoresInvariant'
    BY <1>7 DEF settingsVars, StoresInvariant, TypesOfStores, Queues, Caches, Known
  <2>2. UNCHANGED Promise!promiseVars
    BY <1>7 DEF settingsVars, Promise!promiseVars, View, StoredRows, SeenRows, FlyingWrites, BlindKeys
  <2> QED BY <2>1, <2>2 DEF Promised
<1> QED BY <1>2, <1>3, <1>4, <1>5, <1>6, <1>7 DEF SettingsNext

(* The caches, the writes in two steps, failed reads and writes, the boot    *)
(* with its seeding and the restarts implement the plain promise: a value is *)
(* seen after it is stored, never before, and once it is stored it is        *)
(* forgotten by no reader that can read the table (SettingsStore).           *)
THEOREM SettingsImplementThePromise == SettingsSpec => StoresKeepThePromise
<1>1. SettingsInit => StoresInvariant
  BY StoresStart
<1>2. StoresInvariant /\ [SettingsNext]_settingsVars => StoresInvariant' /\ [Promise!PromiseNext]_(Promise!promiseVars)
  BY StepsArePromised DEF Promised
<1> QED BY <1>1, <1>2, StartIsPromised, PTL DEF SettingsSpec, StoresKeepThePromise, Promise!PromiseSpec

-----------------------------------------------------------------------------
(* What SettingsPromise keeps in every state.                                *)
RacedKeys == overlapped \ {RoutingSection}

(* A write on its way carries what is stored, unless another one of its key  *)
(* overlapped it: what it will show is no older value.                       *)
FlyingIsStored ==
  \A f \in FlyingWrites : f.key \notin RacedKeys => f.to = StoredRows[f.key]

PromiseInvariant ==
  /\ StoredRows \in [OwnedKeys -> SContents] /\ SeenRows \in [OwnedKeys -> SContents]
  /\ FlyingWrites \subseteq Promise!Write
  /\ RacedKeys \subseteq OwnedKeys /\ BlindKeys \subseteq OwnedKeys
  /\ FlyingIsStored /\ Promise!LagHasACause

LEMMA PromiseStarts == Promise!PromiseInit => PromiseInvariant
BY DEF Promise!PromiseInit, Promise!LagHasACause, PromiseInvariant, FlyingIsStored, RacedKeys

LEMMA PromiseStays ==
  ASSUME PromiseInvariant, [Promise!PromiseNext]_(Promise!promiseVars)
  PROVE  PromiseInvariant'
<1> USE DEF PromiseInvariant
<1> overlapped' \ {RoutingSection} = RacedKeys' /\ overlapped \ {RoutingSection} = RacedKeys
  BY DEF RacedKeys
<1>1. CASE Promise!Restart
  BY <1>1 DEF Promise!Restart, Promise!LagHasACause, FlyingIsStored
<1>2. ASSUME NEW w \in Promise!Write, Promise!Put(w) PROVE PromiseInvariant'
  <2>1. w.key \in OwnedKeys /\ w.to \in SContents
    BY DEF Promise!Write
  <2>2. /\ StoredRows' = [StoredRows EXCEPT ![w.key] = w.to]
        /\ FlyingWrites' = FlyingWrites \cup {w}
        /\ RacedKeys' = RacedKeys \/ RacedKeys' = RacedKeys \cup {w.key}
        /\ (\E f \in FlyingWrites : f.key = w.key) => w.key \in RacedKeys'
        /\ SeenRows' = SeenRows /\ BlindKeys' = BlindKeys
    BY <1>2 DEF Promise!Put
  <2>3. FlyingIsStored'
    <3> SUFFICES ASSUME NEW f \in FlyingWrites', f.key \notin RacedKeys' PROVE f.to = StoredRows'[f.key]
      BY DEF FlyingIsStored
    <3>1. f = w \/ (f \in FlyingWrites /\ f.key # w.key /\ f.key \notin RacedKeys)
      BY <2>2
    <3> QED BY <2>1, <2>2, <3>1 DEF FlyingIsStored, Promise!Write
  <2>4. Promise!LagHasACause'
    BY <2>1, <2>2 DEF Promise!LagHasACause
  <2> QED BY <2>1, <2>2, <2>3, <2>4
<1>3. ASSUME NEW w \in Promise!Write, Promise!Appear(w) PROVE PromiseInvariant'
  <2>1. /\ w \in FlyingWrites /\ w.key \in OwnedKeys /\ w.to \in SContents
        /\ SeenRows' = [SeenRows EXCEPT ![w.key] = w.to] /\ FlyingWrites' = FlyingWrites \ {w}
        /\ StoredRows' = StoredRows /\ RacedKeys' = RacedKeys /\ BlindKeys' = BlindKeys
    BY <1>3 DEF Promise!Appear, Promise!Write
  <2>2. FlyingIsStored'
    BY <2>1 DEF FlyingIsStored
  <2>3. Promise!LagHasACause'
    <3> SUFFICES ASSUME NEW k \in OwnedKeys, SeenRows'[k] # StoredRows'[k],
                        k \notin RacedKeys' \cup BlindKeys'
                 PROVE \E f \in FlyingWrites' : f.key = k
      BY DEF Promise!LagHasACause
    <3>1. k # w.key
      BY <2>1 DEF FlyingIsStored
    <3>2. PICK f \in FlyingWrites : f.key = k
      BY <2>1, <3>1 DEF Promise!LagHasACause
    <3> QED BY <2>1, <3>1, <3>2
  <2> QED BY <2>1, <2>2, <2>3
<1>4. ASSUME NEW K \in SUBSET OwnedKeys, Promise!Overlook(K) \/ Promise!Recover(K)
      PROVE  PromiseInvariant'
  <2>1. Absent \in SContents
    BY DEF SContents
  <2> QED BY <1>4, <2>1 DEF Promise!Overlook, Promise!Recover, Promise!LagHasACause, FlyingIsStored
<1>5. CASE UNCHANGED Promise!promiseVars
  BY <1>5 DEF Promise!promiseVars, Promise!LagHasACause, FlyingIsStored
<1> QED BY <1>1, <1>2, <1>3, <1>4, <1>5 DEF Promise!PromiseNext

(* Readers lag the table only while a write is on its way, after two writers *)
(* of a key overlapped, or when the table could not be read: there is no     *)
(* other way for an edit of the Settings page not to apply (SettingsStore).  *)
THEOREM LagAlwaysHasACause == SettingsSpec => []Promise!LagHasACause
<1>1. SettingsInit => StoresInvariant /\ PromiseInvariant
  BY StoresStart, StartIsPromised, PromiseStarts
<1>2. StoresInvariant /\ PromiseInvariant /\ [SettingsNext]_settingsVars
        => StoresInvariant' /\ PromiseInvariant'
  BY StepsArePromised, PromiseStays DEF Promised
<1>3. PromiseInvariant => Promise!LagHasACause
  BY DEF PromiseInvariant
<1> QED BY <1>1, <1>2, <1>3, PTL DEF SettingsSpec
-----------------------------------------------------------------------------
\* The two kinds of requests: a save of the sections, and a change of settings.
SaveJobs == [store : {"boot"}, key : SectionKeys, to : {Current}]
LiveJobs == [store : {"live"}, key : SettingKeys \cup {RoutingSection}, to : SContents]

\* A handler works at one of them: a setting that fails ends no save.
OneKind ==
  \A h \in Handlers :
    \/ todo[h] \in Seq(SaveJobs) /\ (mid[h] # NoWrite => mid[h].key \in SectionKeys)
    \/ todo[h] \in Seq(LiveJobs) /\ (mid[h] # NoWrite => mid[h].key \in SettingKeys \cup {RoutingSection})

\* A handler has yet to write section k, or is about to write what it is now.
Queued(h, k) == \E i \in DOMAIN todo[h] : todo[h][i].key = k
Writing(h, k) == mid[h].stage = "read" /\ mid[h].key = k
OnItsWay(k) == \E h \in Handlers : Queued(h, k) \/ (Writing(h, k) /\ mid[h].to = data[k])

\* Section k is stored as it is in memory, or will be; no older value follows.
SectionIsSaved(k) ==
  \/ data[k] = FromRow(table[k]) /\ \A h \in Handlers : ~Writing(h, k)
  \/ OnItsWay(k)

Excused == {RoutingSection} \cup overlapped \cup unsaved \cup unread
SectionsAreSaved == \A k \in SectionKeys \ Excused : data[k] # Absent => SectionIsSaved(k)

\* Until the boot is over nothing is written but the first boot's seed.
BootReads ==
  /\ unread \subseteq SectionKeys
  /\ boot # "hydrate" => \A k \in SectionKeys : data[k] # Absent
  /\ boot \in {"hydrate", "seed"} =>
       /\ table = bootTable
       /\ \A k \in SectionKeys \ unread : data[k] # Absent => cache["boot"][k] = table[k]
  /\ boot = "router" /\ (\E k \in SectionKeys \ unread : bootTable[k] # Absent) =>
       table = bootTable /\ HandlersIdle

ConfigInvariant == OneKind /\ SectionsAreSaved /\ BootReads

(* A save has a turn for every section.                                      *)
LEMMA SaveAllCovers ==
  SaveAll \in Seq(SaveJobs) /\ \A k \in SectionKeys : \E i \in DOMAIN SaveAll : SaveAll[i].key = k
<1> DEFINE n == Cardinality(SectionKeys)
           turns == SetToSeq(SectionKeys)
<1>1. n \in Nat /\ ExistsBijection(1..n, SectionKeys) /\ IsFiniteSet(SectionKeys)
  BY FS_CardinalityType, SettingsAssumption
<1>2. \E f \in [1..n -> SectionKeys] : IsInjective(f)
  BY <1>1 DEF ExistsBijection, Bijection, Injection, IsInjective
<1>3. turns \in [1..n -> SectionKeys] /\ IsInjective(turns)
  BY <1>2 DEF SetToSeq
<1>4. turns \in Injection(1..n, SectionKeys)
  BY <1>3 DEF Injection, IsInjective
<1>5. Cardinality(1..n) = n
  BY <1>1, FS_Interval
<1>6. turns \in Surjection(1..n, SectionKeys)
  BY <1>1, <1>4, <1>5, FS_Injection
<1>7. \A k \in SectionKeys : \E i \in 1..n : turns[i] = k
  BY <1>6 DEF Surjection
<1>8. SaveAll = [i \in 1..n |-> WriteInto("boot", turns[i], Current)]
  BY <1>3 DEF SaveAll
<1>9. \A k \in SectionKeys : WriteInto("boot", k, Current) \in SaveJobs /\ WriteInto("boot", k, Current).key = k
  BY DEF WriteInto, SaveJobs
<1> QED BY <1>1, <1>3, <1>7, <1>8, <1>9

(* A step that takes no write away and touches neither k nor its row.        *)
LEMMA SavedStays ==
  ASSUME NEW k \in SectionKeys, SectionIsSaved(k), data'[k] = data[k], table'[k] = table[k],
         \A h \in Handlers :
           /\ Queued(h, k) => Queued(h, k)' \/ (Writing(h, k)' /\ mid'[h].to = data[k])
           /\ Writing(h, k) => Writing(h, k)' /\ mid'[h].to = mid[h].to
           /\ Writing(h, k)' => Writing(h, k) \/ mid'[h].to = data[k]
  PROVE  SectionIsSaved(k)'
<1>1. CASE OnItsWay(k)
  BY <1>1 DEF SectionIsSaved, OnItsWay
<1>2. CASE data[k] = FromRow(table[k]) /\ \A h \in Handlers : ~Writing(h, k)
  BY <1>2 DEF SectionIsSaved, OnItsWay, FromRow
<1> QED BY <1>1, <1>2 DEF SectionIsSaved

(* While the process boots, no handler has anything to write but the seed.   *)
LEMMA BootIsQuiet ==
  ASSUME StoresInvariant, boot \in {"hydrate", "seed"} PROVE HandlersIdle
BY DEF StoresInvariant, Queues, HandlersIdle

LEMMA QuietHasNothing ==
  ASSUME HandlersIdle PROVE \A h \in Handlers, k \in SectionKeys : ~Queued(h, k) /\ ~Writing(h, k)
BY DEF HandlersIdle, Queued, Writing, NoWrite

(* What a read of the first store leaves in its cache.                       *)
LEMMA ReadShowsTable ==
  ASSUME StoresInvariant, NEW s \in Stores, NEW ok \in BOOLEAN, EnsureLoaded(s, ok)
  PROVE  \A k \in SKeys : cache[s][k] = table[k] => cache'[s][k] = table[k]
<1>1. cache \in [Stores -> [SKeys -> SContents]]
  BY DEF StoresInvariant, TypesOfStores
<1>2. CASE cache' = cache
  BY <1>2
<1>3. CASE cache' = [cache EXCEPT ![s] = [k \in SKeys |-> IF table[k] = Absent THEN @[k] ELSE table[k]]]
  BY <1>1, <1>3
<1> QED BY <1>2, <1>3 DEF EnsureLoaded

LEMMA HydrateKeepsConfig ==
  ASSUME StoresInvariant, ConfigInvariant, NEW k \in SectionKeys, NEW ok \in BOOLEAN, Hydrate(k, ok)
  PROVE  ConfigInvariant'
<1> USE DEF ConfigInvariant
<1>1. /\ boot = "hydrate" /\ data[k] = Absent /\ EnsureLoaded("boot", ok) /\ "boot" \in Stores
      /\ data' = [data EXCEPT ![k] = FromRow(cache'["boot"][k])]
      /\ unread' = IF cache'["boot"][k] = table[k] THEN unread ELSE unread \cup {k}
      /\ UNCHANGED <<table, boot, todo, mid, bootTable, overlapped, unsaved>>
  BY DEF Hydrate, Stores
<1>2. HandlersIdle /\ data \in [SectionKeys -> SContents]
  BY <1>1, BootIsQuiet DEF StoresInvariant, TypesOfStores
<1>3. OneKind'
  BY <1>1 DEF OneKind
<1>4. SectionsAreSaved'
  <2> SUFFICES ASSUME NEW j \in SectionKeys \ Excused', data'[j] # Absent PROVE SectionIsSaved(j)'
    BY DEF SectionsAreSaved
  <2>1. j \notin Excused
    BY <1>1 DEF Excused
  <2>2. \A h \in Handlers : ~Writing(h, j)'
    BY <1>1, <1>2, QuietHasNothing DEF Writing
  <2>3. CASE j = k
    BY <1>1, <1>2, <2>2, <2>3 DEF SectionIsSaved, FromRow, Excused
  <2>4. CASE j # k
    <3>1. data'[j] = data[j] /\ SectionIsSaved(j)
      BY <1>1, <1>2, <2>1, <2>4 DEF SectionsAreSaved
    <3> QED BY <1>1, <1>2, <3>1, <2>2, QuietHasNothing DEF SectionIsSaved, OnItsWay, FromRow
  <2> QED BY <2>3, <2>4
<1>5. BootReads'
  <2>1. table = bootTable /\ unread' \subseteq SectionKeys
    BY <1>1 DEF BootReads
  <2>2. ASSUME NEW j \in SectionKeys \ unread', data'[j] # Absent PROVE cache'["boot"][j] = table[j]
    <3>1. CASE j = k
      BY <1>1, <2>2, <3>1
    <3>2. CASE j # k
      <4>1. cache["boot"][j] = table[j] /\ j \in SKeys
        BY <1>1, <1>2, <2>2, <3>2 DEF BootReads, SKeys
      <4> QED BY <1>1, <4>1, ReadShowsTable
    <3> QED BY <3>1, <3>2
  <2> QED BY <1>1, <2>1, <2>2 DEF BootReads
<1> QED BY <1>3, <1>4, <1>5

(* The reads that follow change no section and no row.                       *)
LEMMA ReadingKeepsConfig ==
  ASSUME StoresInvariant, ConfigInvariant, NEW ok \in BOOLEAN,
         Hydrated \/ RouterAsks(ok) \/ ReadSettings(ok)
  PROVE  ConfigInvariant'
<1> USE DEF ConfigInvariant
<1>1. /\ UNCHANGED <<table, data, todo, mid, bootTable, overlapped, unsaved, unread>>
      /\ \/ boot = "hydrate" /\ boot' = "seed" /\ cache' = cache /\ \A k \in SectionKeys : data[k] # Absent
         \/ boot \in {"router", "up"} /\ boot' = "up"
  BY DEF Hydrated, RouterAsks, ReadSettings, misread, Ready
<1>2. OneKind'
  BY <1>1 DEF OneKind
<1>3. SectionsAreSaved'
  BY <1>1 DEF SectionsAreSaved, Excused, SectionIsSaved, OnItsWay, Queued, Writing, FromRow
<1>4. BootReads'
  BY <1>1 DEF BootReads
<1> QED BY <1>2, <1>3, <1>4

LEMMA SeedingKeepsConfig ==
  ASSUME StoresInvariant, ConfigInvariant, NEW h \in Handlers, NEW ok \in BOOLEAN, SeedOnFirstBoot(h, ok)
  PROVE  ConfigInvariant'
<1> USE DEF ConfigInvariant
<1>1. /\ boot = "seed" /\ boot' = "router" /\ HandlersIdle /\ EnsureLoaded("boot", ok) /\ "boot" \in Stores
      /\ todo' = [todo EXCEPT ![h] = IF \A k \in SectionKeys : cache'["boot"][k] = Absent THEN SaveAll ELSE <<>>]
      /\ UNCHANGED <<table, data, mid, bootTable, overlapped, unsaved, unread>>
  BY DEF SeedOnFirstBoot, Stores
<1>2. \A g \in Handlers : mid[g] = NoWrite /\ todo[g] = <<>>
  BY <1>1 DEF HandlersIdle
<1>3. todo \in [Handlers -> Seq(Jobs)]
  BY DEF StoresInvariant
<1>4. OneKind'
  BY <1>1, <1>2, <1>3, SaveAllCovers DEF OneKind
<1>5. SectionsAreSaved'
  <2> SUFFICES ASSUME NEW k \in SectionKeys \ Excused, data[k] # Absent PROVE SectionIsSaved(k)'
    BY <1>1 DEF SectionsAreSaved, Excused
  <2>1. SectionIsSaved(k) /\ \A g \in Handlers : ~Queued(g, k) /\ ~Writing(g, k)
    BY <1>1, QuietHasNothing DEF SectionsAreSaved
  <2> QED BY <1>1, <2>1 DEF SectionIsSaved, OnItsWay, FromRow, Writing
<1>6. BootReads'
  <2>1. \A k \in SectionKeys \ unread : cache'["boot"][k] = table[k]
    <3> TAKE k \in SectionKeys \ unread
    <3>1. cache["boot"][k] = table[k] /\ k \in SKeys
      BY <1>1 DEF BootReads, SKeys
    <3> QED BY <1>1, <3>1, ReadShowsTable
  <2>2. table = bootTable
    BY <1>1 DEF BootReads
  <2>3. (\E k \in SectionKeys \ unread : bootTable[k] # Absent) => todo' = [todo EXCEPT ![h] = <<>>]
    BY <1>1, <2>1, <2>2
  <2> QED BY <1>1, <1>2, <1>3, <2>2, <2>3 DEF BootReads, HandlersIdle
<1> QED BY <1>4, <1>5, <1>6

(* What a handler takes up is of its kind, and the rest of its writes too.   *)
LEMMA TakingUp ==
  ASSUME NEW S, NEW q \in Seq(S), q # <<>>
  PROVE  /\ Head(q) \in S /\ Tail(q) \in Seq(S)
         /\ \A k : (\E i \in DOMAIN q : q[i].key = k)
              => Head(q).key = k \/ \E i \in DOMAIN Tail(q) : Tail(q)[i].key = k
<1> SUFFICES ASSUME NEW k, NEW i \in DOMAIN q, q[i].key = k, Head(q).key # k
             PROVE  \E j \in DOMAIN Tail(q) : Tail(q)[j].key = k
  OBVIOUS
<1>1. i - 1 \in DOMAIN Tail(q) /\ Tail(q)[i - 1] = q[i]
  OBVIOUS
<1> QED BY <1>1

LEMMA SerialisingKeepsConfig ==
  ASSUME StoresInvariant, ConfigInvariant, NEW h \in Handlers, Serialise(h)
  PROVE  ConfigInvariant'
<1> USE DEF ConfigInvariant
<1> DEFINE w == Head(todo[h])
           m == [stage |-> "read", store |-> w.store, key |-> w.key,
                 to |-> IF w.to = Current THEN data[w.key] ELSE w.to]
<1>1. /\ mid[h] = NoWrite /\ todo[h] # <<>> /\ todo' = [todo EXCEPT ![h] = Tail(@)]
      /\ mid' = [mid EXCEPT ![h] = m]
      /\ UNCHANGED <<table, cache, data, boot, bootTable, overlapped, unsaved, unread>>
  BY DEF Serialise, misread
<1>2. mid \in [Handlers -> Writes \cup {NoWrite}] /\ todo \in [Handlers -> Seq(Jobs)]
  BY DEF StoresInvariant, TypesOfStores
<1>3. m.key = w.key /\ m.stage = "read" /\ m.to = IF w.to = Current THEN data[w.key] ELSE w.to
  OBVIOUS
<1>4. mid'[h] = m /\ todo'[h] = Tail(todo[h])
      /\ \A g \in Handlers \ {h} : mid'[g] = mid[g] /\ todo'[g] = todo[g]
  BY <1>1, <1>2
<1> HIDE DEF m
<1>5. OneKind'
  <2>1. CASE todo[h] \in Seq(SaveJobs)
    <3>1. w \in SaveJobs /\ Tail(todo[h]) \in Seq(SaveJobs)
      BY <1>1, <2>1
    <3>2. w.key \in SectionKeys
      BY <3>1 DEF SaveJobs
    <3> QED BY <1>3, <1>4, <3>1, <3>2 DEF OneKind
  <2>2. CASE todo[h] \in Seq(LiveJobs)
    <3>1. w \in LiveJobs /\ Tail(todo[h]) \in Seq(LiveJobs)
      BY <1>1, <2>2
    <3>2. w.key \in SettingKeys \cup {RoutingSection}
      BY <3>1 DEF LiveJobs
    <3> QED BY <1>3, <1>4, <3>1, <3>2 DEF OneKind
  <2> QED BY <2>1, <2>2 DEF OneKind
<1>6. SectionsAreSaved'
  <2> SUFFICES ASSUME NEW k \in SectionKeys \ Excused, data[k] # Absent PROVE SectionIsSaved(k)'
    BY <1>1 DEF SectionsAreSaved, Excused
  <2>1. SectionIsSaved(k)
    BY DEF SectionsAreSaved
  <2>2. w.key = k => m.to = data[k]
    <3>1. CASE todo[h] \in Seq(SaveJobs)
      <4>1. w \in SaveJobs
        BY <1>1, <3>1
      <4> QED BY <1>3, <4>1 DEF SaveJobs
    <3>2. CASE todo[h] \in Seq(LiveJobs)
      <4>1. w \in LiveJobs
        BY <1>1, <3>2
      <4> QED BY <4>1, SettingsAssumption DEF LiveJobs, Excused
    <3> QED BY <3>1, <3>2 DEF OneKind
  <2>3. Queued(h, k) => w.key = k \/ Queued(h, k)'
    <3>1. todo[h] \in Seq(Jobs)
      BY <1>2
    <3>2. (\E i \in DOMAIN todo[h] : todo[h][i].key = k)
            => w.key = k \/ \E i \in DOMAIN Tail(todo[h]) : Tail(todo[h])[i].key = k
      BY <1>1, <3>1, TakingUp
    <3> QED BY <1>4, <3>2 DEF Queued
  <2>4. mid[h].stage # "read"
    BY <1>1 DEF NoWrite
  <2>5. \A g \in Handlers \ {h} : (Queued(g, k) => Queued(g, k)') /\ (Writing(g, k)' <=> Writing(g, k))
    BY <1>4 DEF Queued, Writing
  <2>6. Writing(h, k)' <=> w.key = k
    BY <1>3, <1>4 DEF Writing
  <2>7. ~Writing(h, k)
    BY <2>4 DEF Writing
  <2> QED BY <1>1, <1>4, <2>1, <2>2, <2>3, <2>5, <2>6, <2>7, SavedStays
<1>7. BootReads'
  BY <1>1 DEF BootReads, HandlersIdle
<1> QED BY <1>5, <1>6, <1>7

LEMMA CommittingKeepsConfig ==
  ASSUME StoresInvariant, ConfigInvariant, NEW h \in Handlers, Commit(h)
  PROVE  ConfigInvariant'
<1> USE DEF ConfigInvariant
<1> DEFINE k == mid[h].key
<1>1. /\ mid[h].stage = "read" /\ table' = [table EXCEPT ![k] = mid[h].to]
      /\ mid' = [mid EXCEPT ![h].stage = "committed"]
      /\ overlapped' = IF \E g \in Handlers \ {h} : mid[g] # NoWrite /\ mid[g].key = k
                       THEN overlapped \cup {k} ELSE overlapped
      /\ unsaved' = IF k \in SectionKeys /\ mid[h].to = data[k] THEN unsaved \ {k} ELSE unsaved
      /\ UNCHANGED <<cache, data, boot, todo, bootTable, unread>>
  BY DEF Commit, misread
<1>2. /\ mid[h] \in Writes /\ mid[h] # NoWrite
      /\ mid \in [Handlers -> Writes \cup {NoWrite}] /\ table \in [SKeys -> SContents]
  BY <1>1 DEF StoresInvariant, TypesOfStores, NoWrite
<1>3. /\ k \in SKeys /\ mid'[h].stage = "committed" /\ mid'[h].key = k /\ mid'[h].to = mid[h].to
      /\ mid'[h] # NoWrite
      /\ \A g \in Handlers \ {h} : mid'[g] = mid[g]
  BY <1>1, <1>2 DEF Writes, NoWrite
<1>4. OneKind'
  BY <1>1, <1>2, <1>3 DEF OneKind
<1>5. SectionsAreSaved'
  <2> SUFFICES ASSUME NEW j \in SectionKeys \ Excused', data[j] # Absent PROVE SectionIsSaved(j)'
    BY <1>1 DEF SectionsAreSaved
  <2>1. CASE j # k
    <3>1. j \notin Excused /\ table'[j] = table[j]
      BY <1>1, <1>2, <2>1 DEF Excused
    <3>2. SectionIsSaved(j)
      BY <3>1 DEF SectionsAreSaved
    <3>3. \A g \in Handlers : (Writing(g, j)' <=> Writing(g, j)) /\ (Writing(g, j) => mid'[g] = mid[g])
      BY <1>3, <2>1 DEF Writing
    <3>4. \A g \in Handlers : Queued(g, j)' <=> Queued(g, j)
      BY <1>1 DEF Queued
    <3> QED BY <1>1, <3>1, <3>2, <3>3, <3>4, SavedStays
  <2>2. CASE j = k
    <3>1. \A g \in Handlers \ {h} : ~(mid[g] # NoWrite /\ mid[g].key = k)
      BY <1>1, <2>2 DEF Excused
    <3>2. \A g \in Handlers \ {h} : ~Writing(g, k)
      BY <3>1 DEF Writing, NoWrite
    <3>3. \A g \in Handlers : ~Writing(g, k)'
      BY <1>3, <3>2 DEF Writing
    <3>4. table'[k] = mid[h].to
      BY <1>1, <1>2, <1>3
    <3>5. CASE mid[h].to = data[k]
      BY <1>1, <2>2, <3>3, <3>4, <3>5 DEF SectionIsSaved, FromRow
    <3>6. CASE mid[h].to # data[k]
      <4>1. j \notin Excused
        BY <1>1, <2>2, <3>6 DEF Excused
      <4>2. Writing(h, k)
        BY <1>1 DEF Writing
      <4>3. OnItsWay(j)
        BY <2>2, <4>1, <4>2 DEF SectionsAreSaved, SectionIsSaved
      <4>4. PICK g \in Handlers : Queued(g, j)
        BY <2>2, <3>2, <3>6, <4>3 DEF OnItsWay
      <4>5. Queued(g, j)'
        BY <1>1, <4>4 DEF Queued
      <4>6. OnItsWay(j)'
        BY <4>5 DEF OnItsWay
      <4> QED BY <4>6 DEF SectionIsSaved
    <3> QED BY <3>5, <3>6
  <2> QED BY <2>1, <2>2
<1>6. BootReads'
  <2>1. ~HandlersIdle /\ boot \notin {"hydrate", "seed"}
    BY <1>2, BootIsQuiet DEF HandlersIdle
  <2> QED BY <1>1, <2>1 DEF BootReads
<1> QED BY <1>4, <1>5, <1>6

(* A write that ends: it is published, or it failed and may end a request    *)
(* that is about settings.                                                   *)
LEMMA EndingKeepsConfig ==
  ASSUME StoresInvariant, ConfigInvariant, NEW h \in Handlers, Publish(h) \/ CommitFails(h)
  PROVE  ConfigInvariant'
<1> USE DEF ConfigInvariant
<1> DEFINE k == mid[h].key
<1>1. /\ mid[h].stage \in {"read", "committed"} /\ mid' = [mid EXCEPT ![h] = NoWrite]
      /\ \/ mid[h].stage = "committed" /\ todo' = todo /\ unsaved' = unsaved
         \/ /\ todo' = IF k \in SettingKeys THEN [todo EXCEPT ![h] = <<>>] ELSE todo
            /\ unsaved' = IF k \in SectionKeys THEN unsaved \cup {k} ELSE unsaved
      /\ UNCHANGED <<table, data, boot, bootTable, overlapped, unread>>
  BY DEF Publish, CommitFails, misread
<1>2. /\ mid[h] \in Writes /\ mid[h] # NoWrite
      /\ mid \in [Handlers -> Writes \cup {NoWrite}] /\ todo \in [Handlers -> Seq(Jobs)]
  BY <1>1 DEF StoresInvariant, TypesOfStores, NoWrite
<1>3. mid'[h] = NoWrite /\ \A g \in Handlers \ {h} : mid'[g] = mid[g] /\ todo'[g] = todo[g]
  BY <1>1, <1>2
<1>4. /\ \A g \in Handlers : todo'[g] = todo[g] \/ todo'[g] = <<>>
      /\ todo'[h] = <<>> \/ todo'[h] = todo[h]
      /\ todo'[h] # todo[h] => k \in SettingKeys
  BY <1>1, <1>2
<1>5. OneKind'
  <2>1. \A g \in Handlers : mid'[g] # NoWrite => g # h /\ mid'[g] = mid[g]
    BY <1>3
  <2>2. \A S : <<>> \in Seq(S)
    OBVIOUS
  <2> QED BY <1>4, <2>1, <2>2 DEF OneKind
<1>6. SectionsAreSaved'
  <2> SUFFICES ASSUME NEW j \in SectionKeys \ Excused', data[j] # Absent PROVE SectionIsSaved(j)'
    BY <1>1 DEF SectionsAreSaved
  <2>1. j \notin Excused /\ (mid[h].stage = "read" => j # k)
    BY <1>1 DEF Excused
  <2>2. SectionIsSaved(j) /\ ~Writing(h, j)
    BY <2>1 DEF SectionsAreSaved, Writing
  <2>3. Queued(h, j) => Queued(h, j)'
    <3>1. CASE k \in SettingKeys
      <4>1. todo[h] \in Seq(LiveJobs)
        BY <1>2, <3>1, SettingsAssumption DEF OneKind
      <4>2. \A i \in DOMAIN todo[h] : todo[h][i].key \in SettingKeys \cup {RoutingSection}
        <5> TAKE i \in DOMAIN todo[h]
        <5>1. todo[h][i] \in LiveJobs
          BY <4>1
        <5> QED BY <5>1 DEF LiveJobs
      <4> QED BY <2>1, <4>2, SettingsAssumption DEF Queued, Excused
    <3>2. CASE k \notin SettingKeys
      BY <1>4, <3>2 DEF Queued
    <3> QED BY <3>1, <3>2
  <2>4. \A g \in Handlers \ {h} : (Queued(g, j)' <=> Queued(g, j)) /\ (Writing(g, j)' <=> Writing(g, j))
    BY <1>3 DEF Queued, Writing
  <2>5. ~Writing(h, j)'
    BY <1>3 DEF Writing, NoWrite
  <2> QED BY <1>1, <1>3, <2>2, <2>3, <2>4, <2>5, SavedStays
<1>7. BootReads'
  <2>1. ~HandlersIdle /\ boot \notin {"hydrate", "seed"}
    BY <1>2, BootIsQuiet DEF HandlersIdle
  <2> QED BY <1>1, <2>1 DEF BootReads
<1> QED BY <1>5, <1>6, <1>7

LEMMA EditingKeepsConfig ==
  ASSUME StoresInvariant, ConfigInvariant, NEW h \in Handlers,
         \/ \E k \in SettingKeys, v \in SValues \cup {Absent} : ChangeSetting(h, k, v)
         \/ \E v \in SValues : ToggleRouting(h, v)
         \/ \E k \in SectionKeys, v \in SValues : EditConfig(h, k, v)
  PROVE  ConfigInvariant'
<1> USE DEF ConfigInvariant
<1>1. /\ boot = "up" /\ todo[h] = <<>> /\ mid[h] = NoWrite
      /\ UNCHANGED <<table, cache, boot, mid, bootTable, overlapped, unsaved, unread>>
  BY DEF ChangeSetting, ToggleRouting, EditConfig, Begins, Ready, misread
<1>2. /\ todo \in [Handlers -> Seq(Jobs)] /\ data \in [SectionKeys -> SContents]
  BY DEF StoresInvariant, TypesOfStores
<1>3. CASE \E k \in SectionKeys, v \in SValues : EditConfig(h, k, v)
  <2>1. PICK k \in SectionKeys, v \in SValues : EditConfig(h, k, v)
    BY <1>3
  <2>2. data' = [data EXCEPT ![k] = v] /\ todo' = [todo EXCEPT ![h] = SaveAll]
    BY <2>1 DEF EditConfig
  <2>3. OneKind'
    BY <1>1, <1>2, <2>2, SaveAllCovers DEF OneKind
  <2>4. \A j \in SectionKeys : SectionIsSaved(j)'
    <3> TAKE j \in SectionKeys
    <3>1. todo'[h] = SaveAll
      BY <1>2, <2>2
    <3>2. Queued(h, j)'
      BY <3>1, SaveAllCovers DEF Queued
    <3> QED BY <3>2 DEF SectionIsSaved, OnItsWay
  <2>5. \A j \in SectionKeys : data[j] # Absent => data'[j] # Absent
    BY <1>2, <2>2, SettingsAssumption
  <2> QED BY <1>1, <2>3, <2>4, <2>5 DEF SectionsAreSaved, BootReads
<1>4. CASE \/ \E k \in SettingKeys, v \in SValues \cup {Absent} : ChangeSetting(h, k, v)
           \/ \E v \in SValues : ToggleRouting(h, v)
  <2>1. PICK q \in Seq(LiveJobs) : data' = data /\ todo' = [todo EXCEPT ![h] = q]
    <3>1. ASSUME NEW k \in SettingKeys \cup {RoutingSection}, NEW v \in SValues \cup {Absent}
          PROVE  WriteInto("live", k, v) \in LiveJobs
      BY DEF WriteInto, LiveJobs, SContents
    <3>2. CASE \E k \in SettingKeys, v \in SValues \cup {Absent} : ChangeSetting(h, k, v)
      <4>1. PICK k \in SettingKeys, v \in SValues \cup {Absent} : ChangeSetting(h, k, v)
        BY <3>2
      <4>2. <<WriteInto("live", k, v)>> \in Seq(LiveJobs)
        BY <3>1
      <4> QED BY <4>1, <4>2 DEF ChangeSetting
    <3>3. CASE \E v \in SValues : ToggleRouting(h, v)
      <4>1. PICK v \in SValues : ToggleRouting(h, v)
        BY <3>3
      <4>2. WriteInto("live", RoutingToggle, v) \in LiveJobs /\ WriteInto("live", RoutingSection, v) \in LiveJobs
        BY <3>1, SettingsAssumption
      <4>3. <<WriteInto("live", RoutingToggle, v), WriteInto("live", RoutingSection, v)>> \in Seq(LiveJobs)
        BY <4>2
      <4> QED BY <4>1, <4>3 DEF ToggleRouting
    <3> QED BY <1>4, <3>2, <3>3
  <2>2. todo'[h] = q /\ \A g \in Handlers \ {h} : todo'[g] = todo[g]
    BY <1>2, <2>1
  <2>3. OneKind'
    BY <1>1, <2>2 DEF OneKind
  <2>4. ASSUME NEW k \in SectionKeys, SectionIsSaved(k) PROVE SectionIsSaved(k)'
    <3>1. \A g \in Handlers : (Queued(g, k) => Queued(g, k)') /\ (Writing(g, k)' <=> Writing(g, k))
      BY <1>1, <2>2 DEF Queued, Writing
    <3> QED BY <1>1, <2>1, <2>4, <3>1, SavedStays
  <2> QED BY <1>1, <2>1, <2>3, <2>4 DEF SectionsAreSaved, Excused, BootReads
<1> QED BY <1>3, <1>4

LEMMA RestartingKeepsConfig ==
  ASSUME ConfigInvariant, ProcessRestarts PROVE ConfigInvariant'
<1>1. /\ cache' = [s \in Stores |-> Empty] /\ data' = [k \in SectionKeys |-> Absent] /\ boot' = "hydrate"
      /\ todo' = [h \in Handlers |-> <<>>] /\ mid' = [h \in Handlers |-> NoWrite]
      /\ unread' = {} /\ bootTable' = table /\ table' = table
  BY DEF ProcessRestarts
<1>2. <<>> \in Seq(SaveJobs)
  OBVIOUS
<1> QED BY <1>1, <1>2 DEF ConfigInvariant, OneKind, SectionsAreSaved, BootReads

LEMMA ConfigStarts == SettingsInit => ConfigInvariant
<1>1. <<>> \in Seq(SaveJobs)
  OBVIOUS
<1> QED BY <1>1 DEF SettingsInit, NewProcess, ConfigInvariant, OneKind, SectionsAreSaved, BootReads

LEMMA ConfigStays ==
  ASSUME StoresInvariant, ConfigInvariant, [SettingsNext]_settingsVars PROVE ConfigInvariant'
<1>1. MainThread \in Handlers
  BY SettingsAssumption DEF MainThread
<1>2. ASSUME NEW ok \in BOOLEAN,
             (\E k \in SectionKeys : Hydrate(k, ok)) \/ SeedOnFirstBoot(MainThread, ok) \/ RouterAsks(ok) \/ ReadSettings(ok)
      PROVE  ConfigInvariant'
  BY <1>1, <1>2, HydrateKeepsConfig, SeedingKeepsConfig, ReadingKeepsConfig
<1>3. CASE Hydrated
  BY <1>3, ReadingKeepsConfig
<1>4. ASSUME NEW h \in Handlers, Serialise(h) \/ Commit(h) \/ CommitFails(h) \/ Publish(h)
      PROVE  ConfigInvariant'
  BY <1>4, SerialisingKeepsConfig, CommittingKeepsConfig, EndingKeepsConfig
<1>5. ASSUME NEW h \in Handlers,
             \/ \E k \in SettingKeys, v \in SValues \cup {Absent} : ChangeSetting(h, k, v)
             \/ \E v \in SValues : ToggleRouting(h, v)
             \/ \E k \in SectionKeys, v \in SValues : EditConfig(h, k, v)
      PROVE  ConfigInvariant'
  BY <1>5, EditingKeepsConfig
<1>6. CASE ProcessRestarts
  BY <1>6, RestartingKeepsConfig
<1>7. CASE UNCHANGED settingsVars
  BY <1>7 DEF settingsVars, ConfigInvariant, OneKind, SectionsAreSaved, SectionIsSaved, OnItsWay, Queued, Writing,
     Excused, FromRow, BootReads, HandlersIdle
<1> QED BY <1>2, <1>3, <1>4, <1>5, <1>6, <1>7 DEF SettingsNext

(* Memory and the table agree about every section once the API is at rest,   *)
(* and no boot changes a section that it could read (SettingsStore).         *)
LEMMA ConfigIsKept ==
  ASSUME StoresInvariant, ConfigInvariant PROVE STypeOK /\ RestartKeepsConfig /\ BootKeepsSections
<1>1. STypeOK
  BY DEF StoresInvariant, TypesOfStores, ConfigInvariant, BootReads, STypeOK, Writes, NoWrite
<1>2. RestartKeepsConfig
  <2> SUFFICES ASSUME Ready, HandlersIdle, NEW k \in SectionKeys \ Excused PROVE data[k] = FromRow(table[k])
    BY DEF RestartKeepsConfig, Excused
  <2>1. SectionIsSaved(k)
    BY DEF ConfigInvariant, SectionsAreSaved, BootReads, Ready
  <2> QED BY <2>1, QuietHasNothing DEF SectionIsSaved, OnItsWay
<1>3. BootKeepsSections
  BY DEF ConfigInvariant, BootReads, BootKeepsSections, Ready, StoresInvariant, TypesOfStores
<1> QED BY <1>1, <1>2, <1>3

(* The next process starts with the configuration this one serves, and no    *)
(* boot changes a section that is already stored (Config.save, main).        *)
THEOREM ConfigurationIsKept == SettingsSpec => [](STypeOK /\ RestartKeepsConfig /\ BootKeepsSections)
<1>1. SettingsInit => StoresInvariant /\ ConfigInvariant
  BY StoresStart, ConfigStarts
<1>2. StoresInvariant /\ ConfigInvariant /\ [SettingsNext]_settingsVars
        => StoresInvariant' /\ ConfigInvariant'
  BY StepsArePromised, ConfigStays DEF Promised
<1>3. StoresInvariant /\ ConfigInvariant => STypeOK /\ RestartKeepsConfig /\ BootKeepsSections
  BY ConfigIsKept
<1> QED BY <1>1, <1>2, <1>3, PTL DEF SettingsSpec

-----------------------------------------------------------------------------
(* Sequences without repetitions.                                            *)

NoRepeats(s) == \A i, j \in DOMAIN s : s[i] = s[j] => i = j

(* A sequence without repetitions stays one when it grows by something new   *)
(* (order.append and register).                                              *)
LEMMA SequenceGrows ==
  ASSUME NEW S, NEW s \in Seq(S), NEW x \in S
  PROVE  /\ Append(s, x) \in Seq(S)
         /\ ToSet(Append(s, x)) = ToSet(s) \cup {x}
         /\ NoRepeats(s) /\ x \notin ToSet(s) => NoRepeats(Append(s, x))
<1> DEFINE r == Append(s, x)
<1>1. /\ Len(s) \in Nat /\ DOMAIN s = 1..Len(s)
      /\ r \in Seq(S) /\ DOMAIN r = 1..(Len(s) + 1)
      /\ \A i \in 1..Len(s) : r[i] = s[i]
      /\ r[Len(s) + 1] = x
  OBVIOUS
<1> HIDE DEF r
<1>2. ToSet(r) = ToSet(s) \cup {x}
  BY <1>1 DEF ToSet
<1>3. ASSUME NoRepeats(s), x \notin ToSet(s)
      PROVE  NoRepeats(r)
  <2> SUFFICES ASSUME NEW i \in DOMAIN r, NEW j \in DOMAIN r, r[i] = r[j]
               PROVE  i = j
    BY DEF NoRepeats
  <2>1. CASE i \in 1..Len(s) /\ j \in 1..Len(s)
    BY <1>1, <1>3, <2>1 DEF NoRepeats
  <2>2. CASE i = Len(s) + 1 \/ j = Len(s) + 1
    <3>1. \A k \in 1..Len(s) : r[k] # x
      BY <1>1, <1>3 DEF ToSet
    <3> QED BY <1>1, <2>2, <3>1
  <2> QED BY <1>1, <2>1, <2>2
<1> QED BY <1>1, <1>2, <1>3 DEF r

(* What is left of a sequence without its first element.                     *)
LEMMA FirstIsTaken ==
  ASSUME NEW S, NEW s \in Seq(S), s # <<>>
  PROVE  /\ Head(s) \in S /\ Head(s) = s[1] /\ 1 \in DOMAIN s
         /\ Tail(s) \in Seq(S)
         /\ \A i \in DOMAIN Tail(s) : i + 1 \in DOMAIN s /\ Tail(s)[i] = s[i + 1]
         /\ \A i \in DOMAIN s : i = 1 \/ (i - 1 \in DOMAIN Tail(s) /\ s[i] = Tail(s)[i - 1])
         /\ NoRepeats(s) => NoRepeats(Tail(s)) /\ \A i \in DOMAIN Tail(s) : Tail(s)[i] # Head(s)
<1> DEFINE r == Tail(s)
<1>1. /\ Len(s) \in Nat /\ Len(s) >= 1 /\ DOMAIN s = 1..Len(s)
      /\ r \in Seq(S) /\ DOMAIN r = 1..(Len(s) - 1)
      /\ \A i \in 1..(Len(s) - 1) : r[i] = s[i + 1]
      /\ Head(s) = s[1] /\ \A i \in 1..Len(s) : s[i] \in S
  OBVIOUS
<1> HIDE DEF r
<1>2. ASSUME NoRepeats(s)
      PROVE  NoRepeats(r) /\ \A i \in DOMAIN r : r[i] # Head(s)
  <2>1. \A i, j \in 1..Len(s) : s[i] = s[j] => i = j
    BY <1>1, <1>2 DEF NoRepeats
  <2> QED BY <1>1, <2>1 DEF NoRepeats
<1> QED BY <1>1, <1>2 DEF r

(* What is left of a sequence without its last element (shutdown).           *)
LEMMA LastIsTaken ==
  ASSUME NEW S, NEW s \in Seq(S), s # <<>>
  PROVE  /\ Len(s) \in DOMAIN s /\ Last(s) = s[Len(s)] /\ Last(s) \in S
         /\ Front(s) \in Seq(S) /\ DOMAIN Front(s) = 1..(Len(s) - 1)
         /\ \A i \in DOMAIN Front(s) : i \in DOMAIN s /\ Front(s)[i] = s[i]
         /\ NoRepeats(s) => NoRepeats(Front(s)) /\ ToSet(Front(s)) = ToSet(s) \ {Last(s)}
<1> DEFINE r == Front(s)
<1>1. /\ Len(s) \in Nat /\ Len(s) >= 1 /\ DOMAIN s = 1..Len(s)
      /\ Last(s) = s[Len(s)] /\ \A i \in 1..Len(s) : s[i] \in S
  BY DEF Last
<1>2. r = SubSeq(s, 1, Len(s) - 1)
  BY DEF Front
<1>3. /\ r \in Seq(S) /\ DOMAIN r = 1..(Len(s) - 1)
      /\ \A i \in 1..(Len(s) - 1) : r[i] = s[i]
  BY <1>1, <1>2
<1> HIDE DEF r
<1>4. ASSUME NoRepeats(s)
      PROVE  NoRepeats(r) /\ ToSet(r) = ToSet(s) \ {Last(s)}
  <2>1. \A i, j \in 1..Len(s) : s[i] = s[j] => i = j
    BY <1>1, <1>4 DEF NoRepeats
  <2>2. NoRepeats(r)
    BY <1>1, <1>3, <2>1 DEF NoRepeats
  <2>3. \A y : y \in ToSet(r) <=> \E i \in 1..(Len(s) - 1) : s[i] = y
    BY <1>3 DEF ToSet
  <2>4. \A y : y \in ToSet(s) <=> \E i \in 1..Len(s) : s[i] = y
    BY <1>1 DEF ToSet
  <2>5. \A n \in Nat : \A i \in 1..n : (i = n) <=> i \notin 1..(n - 1)
    OBVIOUS
  <2>6. \A i \in 1..Len(s) : (i = Len(s)) <=> i \notin 1..(Len(s) - 1)
    BY <1>1, <2>5
  <2>7. \A i \in 1..Len(s) : (s[i] = Last(s)) <=> i \notin 1..(Len(s) - 1)
    <3>1. Len(s) \in 1..Len(s)
      BY <1>1
    <3>2. \A i \in 1..Len(s) : (s[i] = s[Len(s)]) <=> i = Len(s)
      BY <2>1, <3>1
    <3> QED BY <1>1, <2>6, <3>2
  <2>8. \A n \in Nat : \A i \in 1..(n - 1) : i \in 1..n
    OBVIOUS
  <2>9. \A i \in 1..(Len(s) - 1) : i \in 1..Len(s)
    BY <1>1, <2>8
  <2>10. ToSet(r) = ToSet(s) \ {Last(s)}
    BY <2>3, <2>4, <2>7, <2>9
  <2> QED BY <2>2, <2>10
<1> QED BY <1>1, <1>3, <1>4 DEF r

-----------------------------------------------------------------------------
(* The component runtime.                                                    *)

RuntimeShape ==
  /\ RuntimeTypeOK
  /\ registered \in Seq(Components) /\ NoRepeats(registered)
  /\ order \in Seq(Components) /\ NoRepeats(order) /\ (rtPhase = "stopped" => order = <<>>)
  /\ passLeft \in Seq(Components) /\ NoRepeats(passLeft) /\ (rtPhase # "starting" => passLeft = <<>>)
  /\ \A i \in DOMAIN passLeft : passLeft[i] \in Pending

\* A component is set up after all that it requires.
RequiredFirst ==
  \A i \in DOMAIN order : \A c \in requires[order[i]] : \E j \in DOMAIN order : j < i /\ order[j] = c

\* A pass that has set up nothing has only met components that miss something.
PassIsFair ==
  rtPhase = "starting" /\ ~progressed =>
    \A c \in Pending : (\E i \in DOMAIN passLeft : passLeft[i] = c) \/ ~(requires[c] \subseteq ReadyKeys)

\* Every effect that can be undone will be, unless its disposer raised.
EffectsAreTracked ==
  /\ undo = active \cap Undoers
  /\ held \cap Undoers \subseteq undo \cup leaked

RuntimeInvariant == RuntimeShape /\ RequiredFirst /\ PassIsFair /\ LeftOutHasMissing /\ EffectsAreTracked

LEMMA RuntimeStarts ==
  ASSUME RuntimeInit
  PROVE  RuntimeInvariant
<1>1. /\ requires \in [Components -> SUBSET Components]
      /\ registered = <<>> /\ rtPhase = "stopped" /\ passLeft = <<>> /\ order = <<>>
      /\ active = {} /\ undo = {} /\ held = {} /\ leaked = {}
  BY RuntimeAssumption DEF RuntimeInit
<1>2. /\ <<>> \in Seq(Components) /\ NoRepeats(<<>>) /\ ToSet(<<>>) = {}
      /\ DOMAIN <<>> = {}
  BY DEF NoRepeats, ToSet
<1>3. Registered = {} /\ ReadyKeys = {}
  BY <1>1, <1>2 DEF Registered, ReadyKeys
<1>4. RuntimeTypeOK
  BY <1>1, <1>3 DEF RuntimeTypeOK
<1>5. RuntimeShape
  BY <1>1, <1>2, <1>4 DEF RuntimeShape
<1>6. RequiredFirst
  BY <1>1, <1>2 DEF RequiredFirst
<1>7. PassIsFair /\ LeftOutHasMissing /\ EffectsAreTracked
  BY <1>1 DEF PassIsFair, LeftOutHasMissing, EffectsAreTracked
<1> QED BY <1>5, <1>6, <1>7 DEF RuntimeInvariant

(* Registering happens before any start, while nothing has been set up.      *)
LEMMA RegisterKeeps ==
  ASSUME RuntimeInvariant, NEW c \in Components, Register(c)
  PROVE  RuntimeInvariant'
<1>1. /\ rtPhase = "stopped" /\ c \notin ToSet(registered) /\ registered' = Append(registered, c)
      /\ requires' = requires /\ rtPhase' = rtPhase /\ passLeft' = passLeft /\ progressed' = progressed
      /\ order' = order /\ active' = active /\ undo' = undo /\ held' = held /\ leaked' = leaked
  BY DEF Register, Registered
<1>2. RuntimeShape /\ RequiredFirst /\ EffectsAreTracked
  BY DEF RuntimeInvariant
<1>3. passLeft = <<>> /\ order = <<>>
  BY <1>1, <1>2 DEF RuntimeShape
<1>4. /\ registered' \in Seq(Components) /\ NoRepeats(registered)'
      /\ ToSet(registered') = ToSet(registered) \cup {c}
  BY <1>1, <1>2, SequenceGrows DEF RuntimeShape, NoRepeats
<1>5. RuntimeTypeOK'
  BY <1>1, <1>2, <1>4 DEF RuntimeShape, RuntimeTypeOK, Registered, ReadyKeys
<1>6. RuntimeShape'
  BY <1>1, <1>2, <1>3, <1>4, <1>5 DEF RuntimeShape, NoRepeats
<1>7. RequiredFirst' /\ EffectsAreTracked'
  BY <1>1, <1>2 DEF RequiredFirst, EffectsAreTracked
<1>8. PassIsFair' /\ LeftOutHasMissing'
  BY <1>1 DEF PassIsFair, LeftOutHasMissing
<1> QED BY <1>6, <1>7, <1>8 DEF RuntimeInvariant

(* A pass starts with everything that was registered.                        *)
LEMMA StartKeeps ==
  ASSUME RuntimeInvariant, Start
  PROVE  RuntimeInvariant'
<1>1. /\ rtPhase = "stopped" /\ rtPhase' = "starting" /\ passLeft' = registered
      /\ registered' = registered /\ requires' = requires
      /\ order' = order /\ active' = active /\ undo' = undo /\ held' = held /\ leaked' = leaked
  BY DEF Start
<1>2. RuntimeShape /\ RequiredFirst /\ EffectsAreTracked
  BY DEF RuntimeInvariant
<1>3. order = <<>> /\ ToSet(order) = {}
  BY <1>1, <1>2 DEF RuntimeShape, ToSet
<1>4. Registered' = Registered /\ ReadyKeys' = {} /\ ReadyKeys = {} /\ Pending' = Registered
  BY <1>1, <1>3 DEF Registered, ReadyKeys, Pending
<1>5. \A i \in DOMAIN registered : registered[i] \in Registered
  BY DEF Registered, ToSet
<1>6. RuntimeShape'
  BY <1>1, <1>2, <1>3, <1>4, <1>5 DEF RuntimeShape, RuntimeTypeOK, NoRepeats
<1>7. PassIsFair'
  BY <1>1, <1>4 DEF PassIsFair, Registered, ToSet
<1>8. RequiredFirst' /\ EffectsAreTracked'
  BY <1>1, <1>2 DEF RequiredFirst, EffectsAreTracked
<1>9. LeftOutHasMissing'
  BY <1>1 DEF LeftOutHasMissing
<1> QED BY <1>6, <1>7, <1>8, <1>9 DEF RuntimeInvariant

(* A component is set up behind everything that it requires; the rest of the *)
(* pass is still pending, because nothing is registered twice.               *)
LEMMA VisitKeeps ==
  ASSUME RuntimeInvariant, NEW ok \in BOOLEAN, Visit(ok)
  PROVE  RuntimeInvariant'
<1> DEFINE c == Head(passLeft)
<1>1. /\ rtPhase = "starting" /\ passLeft # <<>> /\ requires[c] \subseteq ReadyKeys
      /\ active' = IF ok THEN active \cup {c} ELSE active \ {c}
      /\ undo' = IF ok /\ c \in Undoers THEN undo \cup {c} ELSE undo \ {c}
      /\ held' = IF ok THEN held \cup {c} ELSE held
      /\ order' = Append(order, c) /\ passLeft' = Tail(passLeft) /\ progressed' = TRUE
      /\ requires' = requires /\ registered' = registered /\ rtPhase' = rtPhase /\ leaked' = leaked
  BY DEF Visit, SetupOne
<1>2. RuntimeShape /\ RequiredFirst /\ EffectsAreTracked
  BY DEF RuntimeInvariant
<1>3. RuntimeTypeOK /\ order \in Seq(Components) /\ NoRepeats(order)
      /\ passLeft \in Seq(Components) /\ NoRepeats(passLeft)
      /\ \A i \in DOMAIN passLeft : passLeft[i] \in Pending
  BY <1>2 DEF RuntimeShape
<1>4. /\ c \in Components /\ c = passLeft[1] /\ 1 \in DOMAIN passLeft
      /\ passLeft' \in Seq(Components) /\ NoRepeats(passLeft')
      /\ \A i \in DOMAIN passLeft' : i + 1 \in DOMAIN passLeft /\ passLeft'[i] = passLeft[i + 1] /\ passLeft'[i] # c
  BY <1>1, <1>3, FirstIsTaken
<1>5. c \in Pending
  BY <1>3, <1>4
<1> HIDE DEF c
<1>6. c \notin ToSet(order) /\ c \in Registered
  BY <1>5 DEF Pending, ReadyKeys
<1>7. order' \in Seq(Components) /\ NoRepeats(order') /\ ReadyKeys' = ReadyKeys \cup {c}
  BY <1>1, <1>3, <1>4, <1>6, SequenceGrows DEF ReadyKeys
<1>8. Registered' = Registered /\ Pending' = Pending \ {c}
  BY <1>1, <1>7 DEF Registered, Pending
<1>9. \A i \in DOMAIN passLeft' : passLeft'[i] \in Pending'
  BY <1>3, <1>4, <1>8
<1>10. c \notin active
  BY <1>3, <1>6 DEF RuntimeTypeOK, ReadyKeys
<1>11. RuntimeTypeOK'
  BY <1>1, <1>3, <1>6, <1>7, <1>8, <1>10 DEF RuntimeTypeOK
<1>12. RuntimeShape'
  BY <1>1, <1>2, <1>4, <1>7, <1>9, <1>11 DEF RuntimeShape, NoRepeats
<1>13. RequiredFirst'
  <2>1. /\ Len(order) \in Nat /\ DOMAIN order = 1..Len(order) /\ DOMAIN order' = 1..(Len(order) + 1)
        /\ \A i \in 1..Len(order) : order'[i] = order[i]
        /\ order'[Len(order) + 1] = c
    BY <1>1, <1>3, <1>4
  <2> SUFFICES ASSUME NEW i \in DOMAIN order', NEW d \in requires[order'[i]]
               PROVE  \E j \in DOMAIN order' : j < i /\ order'[j] = d
    BY <1>1 DEF RequiredFirst
  <2>2. CASE i \in 1..Len(order)
    <3>1. PICK j \in DOMAIN order : j < i /\ order[j] = d
      BY <1>2, <2>1, <2>2 DEF RequiredFirst
    <3> QED BY <2>1, <3>1
  <2>3. CASE i = Len(order) + 1
    <3>1. PICK j \in DOMAIN order : order[j] = d
      BY <1>1, <2>1, <2>3 DEF ReadyKeys, ToSet
    <3>2. j \in DOMAIN order' /\ j < i /\ order'[j] = d
      BY <2>1, <2>3, <3>1
    <3> QED BY <3>2
  <2> QED BY <2>1, <2>2, <2>3
<1>14. EffectsAreTracked'
  <2>1. undo = active \cap Undoers /\ held \cap Undoers \subseteq undo \cup leaked
    BY <1>2 DEF EffectsAreTracked
  <2>2. CASE ok
    BY <1>1, <2>1, <2>2 DEF EffectsAreTracked
  <2>3. CASE ~ok
    BY <1>1, <1>10, <2>1, <2>3 DEF EffectsAreTracked
  <2> QED BY <2>2, <2>3
<1>15. PassIsFair' /\ LeftOutHasMissing'
  BY <1>1 DEF PassIsFair, LeftOutHasMissing
<1> QED BY <1>12, <1>13, <1>14, <1>15 DEF RuntimeInvariant

(* A component that is skipped misses something now.                         *)
LEMMA SkipKeeps ==
  ASSUME RuntimeInvariant, Skip
  PROVE  RuntimeInvariant'
<1>1. /\ rtPhase = "starting" /\ passLeft # <<>> /\ ~(requires[Head(passLeft)] \subseteq ReadyKeys)
      /\ passLeft' = Tail(passLeft) /\ progressed' = progressed
      /\ requires' = requires /\ registered' = registered /\ rtPhase' = rtPhase /\ order' = order
      /\ active' = active /\ undo' = undo /\ held' = held /\ leaked' = leaked
  BY DEF Skip
<1>2. RuntimeShape /\ RequiredFirst /\ EffectsAreTracked /\ PassIsFair
  BY DEF RuntimeInvariant
<1>3. /\ RuntimeTypeOK /\ passLeft \in Seq(Components) /\ NoRepeats(passLeft)
      /\ \A i \in DOMAIN passLeft : passLeft[i] \in Pending
  BY <1>2 DEF RuntimeShape
<1>4. /\ Head(passLeft) = passLeft[1]
      /\ passLeft' \in Seq(Components) /\ NoRepeats(passLeft')
      /\ \A i \in DOMAIN passLeft' : i + 1 \in DOMAIN passLeft /\ passLeft'[i] = passLeft[i + 1]
      /\ \A i \in DOMAIN passLeft : i = 1 \/ (i - 1 \in DOMAIN passLeft' /\ passLeft[i] = passLeft'[i - 1])
  BY <1>1, <1>3, FirstIsTaken
<1>5. Registered' = Registered /\ ReadyKeys' = ReadyKeys /\ Pending' = Pending
  BY <1>1 DEF Registered, ReadyKeys, Pending
<1>6. \A i \in DOMAIN passLeft' : passLeft'[i] \in Pending'
  BY <1>3, <1>4, <1>5
<1>7. RuntimeTypeOK'
  BY <1>1, <1>3, <1>5 DEF RuntimeTypeOK
<1>8. RuntimeShape'
  BY <1>1, <1>2, <1>4, <1>6, <1>7 DEF RuntimeShape, NoRepeats
<1>9. PassIsFair'
  <2> SUFFICES ASSUME ~progressed, NEW c \in Pending, requires[c] \subseteq ReadyKeys
               PROVE  \E i \in DOMAIN passLeft' : passLeft'[i] = c
    BY <1>1, <1>5 DEF PassIsFair
  <2>1. PICK i \in DOMAIN passLeft : passLeft[i] = c
    BY <1>1, <1>2 DEF PassIsFair
  <2>2. i # 1
    BY <1>1, <1>4, <2>1
  <2> QED BY <1>4, <2>1, <2>2
<1>10. RequiredFirst' /\ EffectsAreTracked' /\ LeftOutHasMissing'
  BY <1>1, <1>2 DEF RequiredFirst, EffectsAreTracked, LeftOutHasMissing
<1> QED BY <1>8, <1>9, <1>10 DEF RuntimeInvariant

(* A pass that set up something is followed by one over all that is pending; *)
(* after one that did not, what is pending misses something.                 *)
LEMMA PassEndsKeeps ==
  ASSUME RuntimeInvariant, PassEnds
  PROVE  RuntimeInvariant'
<1> DEFINE again == progressed /\ Pending # {}
<1>1. /\ rtPhase = "starting" /\ passLeft = <<>>
      /\ rtPhase' = IF again THEN "starting" ELSE "up"
      /\ passLeft' = IF again THEN StillPending ELSE <<>>
      /\ requires' = requires /\ registered' = registered /\ order' = order
      /\ active' = active /\ undo' = undo /\ held' = held /\ leaked' = leaked
  BY DEF PassEnds
<1>2. RuntimeShape /\ RequiredFirst /\ EffectsAreTracked /\ PassIsFair
  BY DEF RuntimeInvariant
<1>3. RuntimeTypeOK /\ registered \in Seq(Components) /\ NoRepeats(registered)
  BY <1>2 DEF RuntimeShape
<1>4. Registered' = Registered /\ ReadyKeys' = ReadyKeys /\ Pending' = Pending
  BY <1>1 DEF Registered, ReadyKeys, Pending
<1>5. RuntimeTypeOK'
  BY <1>1, <1>3, <1>4 DEF RuntimeTypeOK
<1>6. /\ StillPending \in Seq(Components) /\ NoRepeats(StillPending)
      /\ \A n \in DOMAIN StillPending : StillPending[n] \in Pending
      /\ \A c \in Pending : \E n \in DOMAIN StillPending : StillPending[n] = c
  <2> DEFINE P == {i \in DOMAIN registered : registered[i] \in Pending}
  <2>1. P \subseteq DOMAIN registered
    OBVIOUS
  <2>2. \A i, j \in DOMAIN registered : registered[i] = registered[j] => i = j
    BY <1>3 DEF NoRepeats
  <2>3. StillPending = Selected(registered, P)
    BY DEF StillPending
  <2>4. \A i \in P : registered[i] \in Pending
    OBVIOUS
  <2>5. \A c \in Pending : \E i \in P : registered[i] = c
    BY DEF Pending, Registered, ToSet
  <2> HIDE DEF P
  <2>6. StillPending \in Seq(Components)
    BY <1>3, <2>1, <2>3, SelectedType
  <2>7. /\ \A n \in DOMAIN StillPending : \E i \in P : StillPending[n] = registered[i]
        /\ \A i \in P : \E n \in DOMAIN StillPending : StillPending[n] = registered[i]
        /\ \A a, b \in DOMAIN StillPending : StillPending[a] = StillPending[b] => a = b
    BY <1>3, <2>1, <2>2, <2>3, SelectedElements
  <2> QED BY <2>4, <2>5, <2>6, <2>7 DEF NoRepeats
<1>7. RuntimeShape'
  <2>1. CASE again
    BY <1>1, <1>2, <1>4, <1>5, <1>6, <2>1 DEF RuntimeShape, NoRepeats
  <2>2. CASE ~again
    <3>1. passLeft' = <<>> /\ DOMAIN passLeft' = {} /\ passLeft' \in Seq(Components) /\ rtPhase' = "up"
      BY <1>1, <2>2
    <3> QED BY <1>1, <1>2, <1>5, <3>1 DEF RuntimeShape, NoRepeats
  <2> QED BY <2>1, <2>2
<1>8. PassIsFair'
  <2>1. CASE again
    BY <1>1, <1>4, <1>6, <2>1 DEF PassIsFair
  <2>2. CASE ~again
    BY <1>1, <2>2 DEF PassIsFair
  <2> QED BY <2>1, <2>2
<1>9. LeftOutHasMissing'
  <2>1. CASE again
    BY <1>1, <2>1 DEF LeftOutHasMissing
  <2>2. CASE ~again
    <3>1. DOMAIN passLeft = {}
      BY <1>1
    <3>2. \A c \in Pending : ~(requires[c] \subseteq ReadyKeys)
      BY <1>1, <1>2, <2>2, <3>1 DEF PassIsFair
    <3> QED BY <1>1, <1>4, <3>2 DEF LeftOutHasMissing, Pending
  <2> QED BY <2>1, <2>2
<1>10. RequiredFirst' /\ EffectsAreTracked'
  BY <1>1, <1>2 DEF RequiredFirst, EffectsAreTracked
<1> QED BY <1>7, <1>8, <1>9, <1>10 DEF RuntimeInvariant

(* A reload leaves the component its place in the order.                     *)
LEMMA ReloadKeeps ==
  ASSUME RuntimeInvariant, NEW c \in Components, NEW ok \in BOOLEAN, Reload(c, ok)
  PROVE  RuntimeInvariant'
<1>1. /\ rtPhase = "up" /\ c \in active
      /\ active' = IF ok THEN active ELSE active \ {c}
      /\ undo' = IF ok /\ c \in Undoers THEN undo ELSE undo \ {c}
      /\ held' = IF ok THEN held ELSE IF c \in undo THEN held \ {c} ELSE held
      /\ requires' = requires /\ registered' = registered /\ rtPhase' = rtPhase /\ passLeft' = passLeft
      /\ progressed' = progressed /\ order' = order /\ leaked' = leaked
  BY DEF Reload, HeldAfterDispose
<1>2. RuntimeShape /\ RequiredFirst /\ EffectsAreTracked /\ LeftOutHasMissing
  BY DEF RuntimeInvariant
<1>3. Registered' = Registered /\ ReadyKeys' = ReadyKeys /\ Pending' = Pending
  BY <1>1 DEF Registered, ReadyKeys, Pending
<1>4. undo = active \cap Undoers /\ held \cap Undoers \subseteq undo \cup leaked
  BY <1>2 DEF EffectsAreTracked
<1>5. /\ undo' = active' \cap Undoers /\ held' \cap Undoers \subseteq undo' \cup leaked
      /\ active' \subseteq active
  <2>1. CASE ok
    BY <1>1, <1>4, <2>1
  <2>2. CASE ~ok
    BY <1>1, <1>4, <2>2
  <2> QED BY <2>1, <2>2
<1>6. RuntimeTypeOK'
  BY <1>1, <1>2, <1>3, <1>5 DEF RuntimeShape, RuntimeTypeOK
<1>7. RuntimeShape'
  BY <1>1, <1>2, <1>3, <1>6 DEF RuntimeShape, NoRepeats
<1>8. EffectsAreTracked'
  BY <1>1, <1>5 DEF EffectsAreTracked
<1>9. RequiredFirst' /\ PassIsFair' /\ LeftOutHasMissing'
  BY <1>1, <1>2, <1>3 DEF RequiredFirst, PassIsFair, LeftOutHasMissing
<1> QED BY <1>7, <1>8, <1>9 DEF RuntimeInvariant

LEMMA ShutdownKeeps ==
  ASSUME RuntimeInvariant, Shutdown
  PROVE  RuntimeInvariant'
<1>1. /\ rtPhase = "up" /\ rtPhase' = "stopping"
      /\ requires' = requires /\ registered' = registered /\ passLeft' = passLeft /\ order' = order
      /\ active' = active /\ undo' = undo /\ held' = held /\ leaked' = leaked
  BY DEF Shutdown
<1>2. RuntimeShape /\ RequiredFirst /\ EffectsAreTracked
  BY DEF RuntimeInvariant
<1>3. Registered' = Registered /\ ReadyKeys' = ReadyKeys /\ Pending' = Pending
  BY <1>1 DEF Registered, ReadyKeys, Pending
<1>4. passLeft = <<>> /\ DOMAIN passLeft = {}
  BY <1>1, <1>2 DEF RuntimeShape
<1>5. RuntimeTypeOK'
  BY <1>1, <1>2, <1>3 DEF RuntimeShape, RuntimeTypeOK
<1>6. RuntimeShape'
  BY <1>1, <1>2, <1>4, <1>5 DEF RuntimeShape, NoRepeats
<1>7. RequiredFirst' /\ EffectsAreTracked' /\ PassIsFair' /\ LeftOutHasMissing'
  BY <1>1, <1>2 DEF RequiredFirst, EffectsAreTracked, PassIsFair, LeftOutHasMissing
<1> QED BY <1>6, <1>7 DEF RuntimeInvariant

(* The last component set up is disposed of, and leaves the order.           *)
LEMMA DisposeKeeps ==
  ASSUME RuntimeInvariant, NEW ok \in BOOLEAN, DisposeNext(ok)
  PROVE  RuntimeInvariant'
<1> DEFINE c == Last(order)
<1>1. /\ rtPhase = "stopping" /\ order # <<>> /\ (ok \/ c \in undo)
      /\ held' = IF c \in undo /\ ok THEN held \ {c} ELSE held
      /\ leaked' = IF ok THEN leaked ELSE leaked \cup {c}
      /\ undo' = undo \ {c} /\ active' = active \ {c}
      /\ order' = Front(order)
      /\ requires' = requires /\ registered' = registered /\ rtPhase' = rtPhase
      /\ passLeft' = passLeft /\ progressed' = progressed
  BY DEF DisposeNext, HeldAfterDispose
<1>2. RuntimeShape /\ RequiredFirst /\ EffectsAreTracked
  BY DEF RuntimeInvariant
<1>3. RuntimeTypeOK /\ order \in Seq(Components) /\ NoRepeats(order) /\ passLeft = <<>> /\ DOMAIN passLeft = {}
  BY <1>1, <1>2 DEF RuntimeShape
<1>4. /\ Len(order) \in DOMAIN order /\ c = order[Len(order)] /\ c \in Components
      /\ order' \in Seq(Components) /\ DOMAIN order' = 1..(Len(order) - 1)
      /\ \A i \in DOMAIN order' : i \in DOMAIN order /\ order'[i] = order[i]
      /\ NoRepeats(order') /\ ToSet(order') = ToSet(order) \ {c}
  BY <1>1, <1>3, LastIsTaken
<1> HIDE DEF c
<1>5. Registered' = Registered /\ ReadyKeys' = ReadyKeys \ {c}
  BY <1>1, <1>4 DEF Registered, ReadyKeys
<1>6. undo = active \cap Undoers /\ held \cap Undoers \subseteq undo \cup leaked
  BY <1>2 DEF EffectsAreTracked
<1>7. EffectsAreTracked'
  <2>1. CASE ok
    BY <1>1, <1>6, <2>1 DEF EffectsAreTracked
  <2>2. CASE ~ok
    BY <1>1, <1>6, <2>2 DEF EffectsAreTracked
  <2> QED BY <2>1, <2>2
<1>8. RuntimeTypeOK'
  <2>1. leaked' \subseteq Undoers
    BY <1>1, <1>3, <1>6 DEF RuntimeTypeOK
  <2> QED BY <1>1, <1>3, <1>5, <2>1 DEF RuntimeTypeOK
<1>9. RuntimeShape'
  BY <1>1, <1>2, <1>3, <1>4, <1>8 DEF RuntimeShape, NoRepeats
<1>10. RequiredFirst'
  <2> SUFFICES ASSUME NEW i \in DOMAIN order', NEW d \in requires[order'[i]]
               PROVE  \E j \in DOMAIN order' : j < i /\ order'[j] = d
    BY <1>1 DEF RequiredFirst
  <2>1. i \in DOMAIN order /\ order'[i] = order[i]
    BY <1>4
  <2>2. PICK j \in DOMAIN order : j < i /\ order[j] = d
    BY <1>2, <2>1 DEF RequiredFirst
  <2>3. Len(order) \in Nat /\ i \in 1..(Len(order) - 1) /\ j \in 1..Len(order)
    BY <1>3, <1>4
  <2>4. j \in 1..(Len(order) - 1)
    BY <2>2, <2>3
  <2> QED BY <1>4, <2>2, <2>4
<1>11. PassIsFair' /\ LeftOutHasMissing'
  BY <1>1 DEF PassIsFair, LeftOutHasMissing
<1> QED BY <1>7, <1>9, <1>10, <1>11 DEF RuntimeInvariant

LEMMA ShutdownEndsKeeps ==
  ASSUME RuntimeInvariant, ShutdownEnds
  PROVE  RuntimeInvariant' /\ active = {}
<1>1. /\ rtPhase = "stopping" /\ order = <<>> /\ rtPhase' = "stopped" /\ undo' = {} /\ active' = {}
      /\ requires' = requires /\ registered' = registered /\ passLeft' = passLeft
      /\ progressed' = progressed /\ order' = order /\ held' = held /\ leaked' = leaked
  BY DEF ShutdownEnds
<1>2. RuntimeShape /\ RequiredFirst /\ EffectsAreTracked
  BY DEF RuntimeInvariant
<1>3. Registered' = Registered /\ ReadyKeys = {} /\ ReadyKeys' = {}
  BY <1>1 DEF Registered, ReadyKeys, ToSet
<1>4. passLeft = <<>> /\ DOMAIN passLeft = {}
  BY <1>1, <1>2 DEF RuntimeShape
<1>5. active = {} /\ undo = {}
  BY <1>2, <1>3 DEF RuntimeShape, RuntimeTypeOK
<1>6. RuntimeTypeOK'
  BY <1>1, <1>2, <1>3 DEF RuntimeShape, RuntimeTypeOK
<1>7. RuntimeShape'
  BY <1>1, <1>2, <1>4, <1>6 DEF RuntimeShape, NoRepeats
<1>8. EffectsAreTracked'
  BY <1>1, <1>2, <1>5 DEF EffectsAreTracked
<1>9. RequiredFirst' /\ PassIsFair' /\ LeftOutHasMissing'
  BY <1>1, <1>2 DEF RequiredFirst, PassIsFair, LeftOutHasMissing
<1> QED BY <1>5, <1>7, <1>8, <1>9 DEF RuntimeInvariant

LEMMA RuntimeStays ==
  ASSUME RuntimeInvariant, [RuntimeNext]_runtimeVars
  PROVE  RuntimeInvariant'
<1>1. CASE UNCHANGED runtimeVars
  <2>1. /\ requires' = requires /\ registered' = registered /\ rtPhase' = rtPhase /\ passLeft' = passLeft
        /\ progressed' = progressed /\ order' = order /\ active' = active /\ undo' = undo
        /\ held' = held /\ leaked' = leaked
    BY <1>1 DEF runtimeVars
  <2>2. RuntimeShape'
    BY <2>1 DEF RuntimeInvariant, RuntimeShape, RuntimeTypeOK, NoRepeats, Pending, Registered, ReadyKeys
  <2>3. RequiredFirst' /\ EffectsAreTracked'
    BY <2>1 DEF RuntimeInvariant, RequiredFirst, EffectsAreTracked
  <2>4. PassIsFair' /\ LeftOutHasMissing'
    BY <2>1 DEF RuntimeInvariant, PassIsFair, LeftOutHasMissing, Pending, Registered, ReadyKeys
  <2> QED BY <2>2, <2>3, <2>4 DEF RuntimeInvariant
<1>2. CASE RuntimeNext
  <2>1. \/ Start \/ Skip \/ PassEnds \/ ShutdownEnds \/ Shutdown
        \/ \E ok \in BOOLEAN : Visit(ok) \/ DisposeNext(ok)
        \/ \E c \in Components : Register(c) \/ \E ok \in BOOLEAN : Reload(c, ok)
    BY <1>2 DEF RuntimeNext, RuntimeStep
  <2> QED BY <2>1, StartKeeps, SkipKeeps, PassEndsKeeps, ShutdownEndsKeeps, ShutdownKeeps, VisitKeeps,
             DisposeKeeps, RegisterKeeps, ReloadKeeps
<1> QED BY <1>1, <1>2

(* What was set up last is torn down first, so nothing that requires it is   *)
(* still active.                                                             *)
LEMMA TeardownIsOrdered ==
  ASSUME RuntimeInvariant, [RuntimeNext]_runtimeVars
  PROVE  DependentsStopFirst
<1> SUFFICES ASSUME NEW c \in active \ active', rtPhase = "stopping",
                    NEW d \in active \ {c}, c \in requires[d]
             PROVE  FALSE
  BY DEF DependentsStopFirst
<1>1. RuntimeShape /\ RequiredFirst
  BY DEF RuntimeInvariant
<1>2. (\E ok \in BOOLEAN : DisposeNext(ok)) \/ ShutdownEnds
  <2>1. ~UNCHANGED runtimeVars
    BY DEF runtimeVars
  <2>2. \/ Start \/ Skip \/ PassEnds \/ ShutdownEnds \/ Shutdown
        \/ \E ok \in BOOLEAN : Visit(ok) \/ DisposeNext(ok)
        \/ \E x \in Components : Register(x) \/ \E ok \in BOOLEAN : Reload(x, ok)
    BY <2>1 DEF RuntimeNext, RuntimeStep
  <2>3. /\ ~Start /\ ~Skip /\ ~PassEnds /\ ~Shutdown
        /\ \A ok \in BOOLEAN : ~Visit(ok)
        /\ \A x \in Components : ~Register(x) /\ \A ok \in BOOLEAN : ~Reload(x, ok)
    BY DEF Start, Skip, PassEnds, Shutdown, Visit, Register, Reload
  <2> QED BY <2>2, <2>3
<1>3. ~ShutdownEnds
  BY ShutdownEndsKeeps
<1>4. order # <<>> /\ c = Last(order)
  BY <1>2, <1>3 DEF DisposeNext
<1>5. Len(order) \in Nat /\ DOMAIN order = 1..Len(order) /\ c = order[Len(order)] /\ Len(order) \in DOMAIN order
  <2>1. order \in Seq(Components)
    BY <1>1 DEF RuntimeShape
  <2>2. Len(order) \in DOMAIN order /\ Last(order) = order[Len(order)]
    BY <1>4, <2>1, LastIsTaken
  <2> QED BY <1>4, <2>1, <2>2
<1>6. PICK i \in DOMAIN order : order[i] = d
  BY <1>1 DEF RuntimeShape, RuntimeTypeOK, ReadyKeys, ToSet
<1>7. PICK j \in DOMAIN order : j < i /\ order[j] = c
  BY <1>1, <1>6 DEF RequiredFirst
<1>8. j = Len(order)
  BY <1>1, <1>5, <1>7 DEF RuntimeShape, NoRepeats
<1> QED BY <1>5, <1>6, <1>7, <1>8

(* What the invariant says of a runtime that is up, and of one that stopped. *)
LEMMA RuntimeIsSound ==
  ASSUME RuntimeInvariant
  PROVE  RuntimeTypeOK /\ LeftOutHasMissing /\ NothingLeftBehind
<1>1. RuntimeTypeOK /\ LeftOutHasMissing
  BY DEF RuntimeInvariant, RuntimeShape
<1>2. NothingLeftBehind
  <2> SUFFICES ASSUME rtPhase = "stopped"
               PROVE  held \cap Undoers \subseteq leaked
    BY DEF NothingLeftBehind
  <2>1. order = <<>> /\ active \subseteq ReadyKeys
    BY DEF RuntimeInvariant, RuntimeShape, RuntimeTypeOK
  <2>2. ReadyKeys = {}
    BY <2>1 DEF ReadyKeys, ToSet
  <2> QED BY <2>1, <2>2 DEF RuntimeInvariant, EffectsAreTracked
<1> QED BY <1>1, <1>2

(* Whatever the graph of requirements, with cycles and missing providers,    *)
(* and however often setups and disposers raise: only what misses something  *)
(* is left out, teardown goes from the dependents to the providers, and no   *)
(* disposer is lost (Runtime.start, reload, shutdown).                       *)
THEOREM ComponentsAreKept ==
  RuntimeSpec => /\ [](RuntimeTypeOK /\ LeftOutHasMissing /\ NothingLeftBehind)
                 /\ [][DependentsStopFirst]_runtimeVars
<1>1. RuntimeInit => RuntimeInvariant
  BY RuntimeStarts
<1>2. RuntimeInvariant /\ [RuntimeNext]_runtimeVars => RuntimeInvariant'
  BY RuntimeStays
<1>3. RuntimeInvariant => RuntimeTypeOK /\ LeftOutHasMissing /\ NothingLeftBehind
  BY RuntimeIsSound
<1>4. RuntimeInvariant /\ [RuntimeNext]_runtimeVars => [DependentsStopFirst]_runtimeVars
  BY TeardownIsOrdered
<1> QED BY <1>1, <1>2, <1>3, <1>4, PTL DEF RuntimeSpec

-----------------------------------------------------------------------------
(* The module installers.                                                    *)

InstallStatuses == {NoInstall, "running", "done", "failed"}
InstallThreads == [module : Modules, at : {"pip", "probe", "warm", "move"}, result : InstallStatuses, alone : BOOLEAN]

InstallShape ==
  /\ image \subseteq Packages
  /\ site \in [Modules -> SUBSET Packages] /\ \A m \in Modules : site[m] \subseteq Needs[m]
  /\ flight \in [Modules -> InstallStatuses] /\ last \in [Modules -> InstallStatuses]
  /\ marker \in [Modules -> {"none", "done", "removed"}]
  /\ remover \in [Modules -> {"idle", "image", "record", "refused"}]
  /\ outcome \in [Modules -> InstallStatuses]
  /\ installers \in [Installs -> {Unstarted, Over} \cup InstallThreads]

\* The threads are numbered as they start.
StartedInOrder ==
  \A i, j \in Installs : i < j /\ installers[j].at # "unstarted" => installers[i].at # "unstarted"

\* While no start came between the halves of an end, a module has one thread,
\* the status is that thread's, and without one the last result is kept.
OneThread ==
  \A m \in Modules \ overtaken :
    /\ \A i, j \in Alive(m) : i = j
    /\ \A i \in Alive(m) :
         IF installers[i].at = "move" THEN flight[m] = installers[i].result /\ installers[i].result # NoInstall
         ELSE flight[m] = "running"
    /\ Alive(m) = {} => last[m] = outcome[m]

\* An install that met no other and no removal has all its packages once pip ended.
AloneIsWhole ==
  \A m \in Modules : \A i \in AtWork(m) : installers[i].alone =>
    remover[m] = "idle" /\ (installers[i].at # "pip" => Needs[m] \subseteq site[m])

DoneIsWhole ==
  \A m \in Modules : marker[m] = "done" /\ m \notin doubt => Needs[m] \subseteq site[m]

InstallInvariant == InstallShape /\ StartedInOrder /\ OneThread /\ AloneIsWhole /\ DoneIsWhole

(* The modules and their packages.                                           *)
LEMMA ModuleFacts ==
  /\ \A m \in Modules : Needs[m] \subseteq Packages /\ Sibling[m] \in Modules /\ Sibling[m] # m
  /\ \A m, n \in Modules : n = m \/ n = Sibling[m]
<1>1. \A m \in Modules : m = "memory" \/ m = "router"
  BY DEF Modules
<1>2. /\ Needs["memory"] = {"lancedb", "transformers"} /\ Needs["router"] = {"transformers"}
      /\ Sibling["memory"] = "router" /\ Sibling["router"] = "memory"
  BY DEF Needs, Sibling
<1> QED BY <1>1, <1>2 DEF Modules, Packages

(* A set of positions without gaps ends where its size says.                 *)
LEMMA NoGaps ==
  ASSUME NEW m \in Nat, NEW S, S \subseteq 1..m,
         \A j \in S : \A i \in 1..m : i < j => i \in S
  PROVE  Cardinality(S) \in Nat /\ \A i \in 1..m : i \in S <=> i <= Cardinality(S)
<1>1. IsFiniteSet(S) /\ Cardinality(S) \in Nat
  BY IntervalCardinality, FS_Subset, FS_CardinalityType
<1>2. ASSUME NEW i \in 1..m, i \in S
      PROVE  i <= Cardinality(S)
  <2>1. 1..i \subseteq S
    BY <1>2
  <2>2. IsFiniteSet(1..i) /\ Cardinality(1..i) = i
    BY IntervalCardinality
  <2>3. Cardinality(1..i) <= Cardinality(S)
    BY <1>1, <2>1, FS_Subset
  <2> QED BY <2>2, <2>3
<1>3. ASSUME NEW i \in 1..m, i \notin S
      PROVE  i > Cardinality(S)
  <2>1. S \subseteq 1..(i - 1)
    BY <1>3
  <2>2. i - 1 \in Nat /\ IsFiniteSet(1..(i - 1)) /\ Cardinality(1..(i - 1)) = i - 1
    BY IntervalCardinality
  <2>3. Cardinality(S) <= Cardinality(1..(i - 1))
    BY <2>1, <2>2, FS_Subset
  <2> QED BY <1>1, <2>2, <2>3
<1> QED BY <1>1, <1>2, <1>3

LEMMA SetupStarts ==
  ASSUME SetupInit
  PROVE  InstallInvariant
<1>1. /\ bakedIn \subseteq Modules /\ image = UNION {Needs[m] : m \in bakedIn}
      /\ site = [m \in Modules |-> {}]
      /\ flight = [m \in Modules |-> NoInstall] /\ last = [m \in Modules |-> NoInstall]
      /\ marker = [m \in Modules |-> "none"] /\ remover = [m \in Modules |-> "idle"]
      /\ installers = [i \in Installs |-> Unstarted] /\ outcome = [m \in Modules |-> NoInstall]
  BY DEF SetupInit
<1>2. image \subseteq Packages
  BY <1>1, ModuleFacts
<1>3. InstallShape
  BY <1>1, <1>2 DEF InstallShape, InstallStatuses
<1>4. \A i \in Installs : installers[i].at = "unstarted"
  BY <1>1 DEF Unstarted
<1>5. \A m \in Modules : Alive(m) = {} /\ AtWork(m) = {}
  BY <1>4 DEF Alive, AtWork
<1>6. StartedInOrder
  BY <1>4 DEF StartedInOrder
<1>7. OneThread
  BY <1>1, <1>5 DEF OneThread
<1>8. AloneIsWhole
  BY <1>5 DEF AloneIsWhole
<1>9. DoneIsWhole
  BY <1>1 DEF DoneIsWhole
<1> QED BY <1>3, <1>6, <1>7, <1>8, <1>9 DEF InstallInvariant

(* A thread goes on with its install, or is through with its first half: its *)
(* status is the one that is told of its module.                             *)
LEMMA ThreadGoesOn ==
  ASSUME InstallShape, StartedInOrder, OneThread, NEW i \in Installs,
         installers[i].at \in {"pip", "probe", "warm"},
         \/ Proceed(i, "probe") \/ Proceed(i, "warm") \/ Finish(i, "done") \/ Finish(i, "failed"),
         overtaken' = overtaken, last' = last, outcome' = outcome
  PROVE  /\ installers[i].module \in Modules
         /\ flight' \in [Modules -> InstallStatuses]
         /\ installers' \in [Installs -> {Unstarted, Over} \cup InstallThreads]
         /\ StartedInOrder' /\ OneThread'
         /\ installers'[i].module = installers[i].module /\ installers'[i].alone = installers[i].alone
         /\ \A j \in Installs \ {i} : installers'[j] = installers[j]
         /\ \A m \in Modules : AtWork(m)' \subseteq AtWork(m)
         /\ i \in AtWork(installers[i].module)
<1> DEFINE m == installers[i].module
<1>1. installers \in [Installs -> {Unstarted, Over} \cup InstallThreads] /\ flight \in [Modules -> InstallStatuses]
  BY DEF InstallShape
<1>2. installers[i] \in InstallThreads /\ m \in Modules
  BY <1>1 DEF Unstarted, Over, InstallThreads
<1>3. PICK at2 \in {"probe", "warm", "move"}, result2 \in InstallStatuses :
        /\ installers' = [installers EXCEPT ![i] = [installers[i] EXCEPT !.at = at2, !.result = result2]]
        /\ IF at2 = "move" THEN Update(m, result2) /\ result2 # NoInstall ELSE flight' = flight
  <2>1. CASE Proceed(i, "probe") \/ Proceed(i, "warm")
    <3>1. PICK at2 \in {"probe", "warm"} : installers' = [installers EXCEPT ![i].at = at2] /\ flight' = flight
      BY <2>1 DEF Proceed
    <3>2. [installers[i] EXCEPT !.at = at2] = [installers[i] EXCEPT !.at = at2, !.result = installers[i].result]
      BY <1>2 DEF InstallThreads
    <3>3. installers[i].result \in InstallStatuses
      BY <1>2 DEF InstallThreads
    <3> QED BY <3>1, <3>2, <3>3
  <2>2. CASE Finish(i, "done") \/ Finish(i, "failed")
    BY <2>2 DEF Finish, InstallStatuses, NoInstall
  <2> QED BY <2>1, <2>2
<1> HIDE DEF m
<1>4. /\ installers'[i].module = m /\ installers'[i].alone = installers[i].alone
      /\ installers'[i].at = at2 /\ installers'[i].result = result2
      /\ installers'[i] \in InstallThreads
      /\ \A j \in Installs \ {i} : installers'[j] = installers[j]
      /\ installers' \in [Installs -> {Unstarted, Over} \cup InstallThreads]
  BY <1>1, <1>2, <1>3 DEF InstallThreads, m
<1>5. flight' \in [Modules -> InstallStatuses] /\ \A n \in Modules \ {m} : flight'[n] = flight[n]
  BY <1>1, <1>3 DEF Update
<1>6. /\ \A n \in Modules : AtWork(n)' \subseteq AtWork(n) /\ Alive(n)' = Alive(n)
      /\ i \in AtWork(m) /\ i \in Alive(m)
      /\ \A n \in Modules : i \in Alive(n) => n = m
  BY <1>2, <1>3, <1>4 DEF AtWork, Alive, m
<1>7. StartedInOrder'
  <2>1. \A j \in Installs : (installers'[j].at = "unstarted") <=> (installers[j].at = "unstarted")
    BY <1>3, <1>4
  <2> QED BY <2>1 DEF StartedInOrder
<1>8. OneThread'
  <2> SUFFICES ASSUME NEW n \in Modules, n \notin overtaken
               PROVE  /\ \A j, k \in Alive(n)' : j = k
                      /\ \A j \in Alive(n)' :
                           IF installers'[j].at = "move" THEN flight'[n] = installers'[j].result /\ installers'[j].result # NoInstall
                           ELSE flight'[n] = "running"
                      /\ Alive(n)' = {} => last'[n] = outcome'[n]
    BY DEF OneThread
  <2>1. /\ \A j, k \in Alive(n) : j = k
        /\ \A j \in Alive(n) :
             IF installers[j].at = "move" THEN flight[n] = installers[j].result /\ installers[j].result # NoInstall
             ELSE flight[n] = "running"
        /\ Alive(n) = {} => last[n] = outcome[n]
    BY DEF OneThread
  <2>2. CASE n # m
    <3>1. \A j \in Alive(n) : j \in Installs \ {i}
      BY <1>6, <2>2 DEF Alive
    <3> QED BY <1>4, <1>5, <1>6, <2>1, <2>2, <3>1
  <2>3. CASE n = m
    <3>1. \A j \in Alive(n) : j = i
      BY <1>6, <2>1, <2>3
    <3>2. flight[m] = "running"
      BY <1>6, <2>1, <2>3
    <3>3. IF at2 = "move" THEN flight'[m] = result2 ELSE flight'[m] = "running"
      BY <1>1, <1>2, <1>3, <3>2 DEF Update, NoInstall, m
    <3> QED BY <1>3, <1>4, <1>6, <2>1, <2>3, <3>1, <3>3
  <2> QED BY <2>2, <2>3
<1> QED BY <1>2, <1>4, <1>5, <1>6, <1>7, <1>8 DEF m

(* pip ends: an install that met nothing has brought everything.             *)
LEMMA EndPipKeeps ==
  ASSUME InstallInvariant, NEW i \in Installs, NEW got \in SUBSET Packages, NEW ok \in BOOLEAN, EndPip(i, got, ok)
  PROVE  InstallInvariant'
<1> DEFINE m == installers[i].module
<1>1. /\ installers[i].at = "pip" /\ got \subseteq Needs[m] /\ (ok /\ installers[i].alone => got = Needs[m])
      /\ site' = [site EXCEPT ![m] = @ \cup got]
      /\ IF ok THEN Proceed(i, "probe") ELSE Finish(i, "failed")
      /\ image' = image /\ last' = last /\ marker' = marker /\ remover' = remover
      /\ outcome' = outcome /\ overtaken' = overtaken /\ doubt' = doubt
  BY DEF EndPip
<1>2. InstallShape /\ StartedInOrder /\ OneThread /\ AloneIsWhole /\ DoneIsWhole
  BY DEF InstallInvariant
<1>3. Proceed(i, "probe") \/ Finish(i, "failed")
  BY <1>1
<1>4. /\ m \in Modules
      /\ flight' \in [Modules -> InstallStatuses]
      /\ installers' \in [Installs -> {Unstarted, Over} \cup InstallThreads]
      /\ StartedInOrder' /\ OneThread'
      /\ installers'[i].module = m /\ installers'[i].alone = installers[i].alone
      /\ \A j \in Installs \ {i} : installers'[j] = installers[j]
      /\ \A n \in Modules : AtWork(n)' \subseteq AtWork(n)
      /\ i \in AtWork(m)
  BY <1>1, <1>2, <1>3, ThreadGoesOn
<1> HIDE DEF m
<1>5. /\ site' \in [Modules -> SUBSET Packages] /\ site'[m] = site[m] \cup got
      /\ \A n \in Modules : site'[n] \subseteq Needs[n] /\ site[n] \subseteq site'[n]
  BY <1>1, <1>2, <1>4 DEF InstallShape
<1>6. InstallShape'
  BY <1>1, <1>2, <1>4, <1>5 DEF InstallShape
<1>7. AloneIsWhole'
  <2> SUFFICES ASSUME NEW n \in Modules, NEW j \in AtWork(n)', installers'[j].alone
               PROVE  remover[n] = "idle" /\ (installers'[j].at # "pip" => Needs[n] \subseteq site'[n])
    BY <1>1 DEF AloneIsWhole
  <2>1. j \in AtWork(n) /\ j \in Installs
    BY <1>4 DEF AtWork, Alive
  <2>2. CASE j # i
    BY <1>2, <1>4, <1>5, <2>1, <2>2 DEF AloneIsWhole
  <2>3. CASE j = i
    <3>1. n = m /\ installers[i].alone
      BY <1>4, <2>1, <2>3 DEF AtWork, Alive, m
    <3>2. remover[n] = "idle"
      BY <1>2, <1>4, <3>1 DEF AloneIsWhole
    <3>3. ok
      <4>1. installers'[i].at # "move"
        BY <2>3 DEF AtWork
      <4>2. installers \in [Installs -> {Unstarted, Over} \cup InstallThreads] /\ installers[i] \in InstallThreads
        BY <1>1, <1>2 DEF InstallShape, Unstarted, Over
      <4>3. ~Finish(i, "failed")
        BY <4>1, <4>2 DEF Finish, InstallThreads
      <4> QED BY <1>1, <4>3
    <3> QED BY <1>1, <1>5, <3>1, <3>2, <3>3
  <2> QED BY <2>2, <2>3
<1>8. DoneIsWhole'
  BY <1>1, <1>2, <1>5 DEF DoneIsWhole
<1> QED BY <1>4, <1>6, <1>7, <1>8 DEF InstallInvariant

LEMMA ProbeKeeps ==
  ASSUME InstallInvariant, NEW i \in Installs, Probe(i)
  PROVE  InstallInvariant'
<1> DEFINE m == installers[i].module
<1>1. /\ installers[i].at = "probe" /\ (Proceed(i, "warm") \/ Finish(i, "failed"))
      /\ image' = image /\ site' = site /\ last' = last /\ marker' = marker /\ remover' = remover
      /\ outcome' = outcome /\ overtaken' = overtaken /\ doubt' = doubt
  BY DEF Probe
<1>2. InstallShape /\ StartedInOrder /\ OneThread /\ AloneIsWhole /\ DoneIsWhole
  BY DEF InstallInvariant
<1>3. /\ m \in Modules
      /\ flight' \in [Modules -> InstallStatuses]
      /\ installers' \in [Installs -> {Unstarted, Over} \cup InstallThreads]
      /\ StartedInOrder' /\ OneThread'
      /\ installers'[i].module = m /\ installers'[i].alone = installers[i].alone
      /\ \A j \in Installs \ {i} : installers'[j] = installers[j]
      /\ \A n \in Modules : AtWork(n)' \subseteq AtWork(n)
      /\ i \in AtWork(m)
  BY <1>1, <1>2, ThreadGoesOn
<1> HIDE DEF m
<1>4. InstallShape'
  BY <1>1, <1>2, <1>3 DEF InstallShape
<1>5. AloneIsWhole'
  <2> SUFFICES ASSUME NEW n \in Modules, NEW j \in AtWork(n)', installers'[j].alone
               PROVE  remover[n] = "idle" /\ (installers'[j].at # "pip" => Needs[n] \subseteq site[n])
    BY <1>1 DEF AloneIsWhole
  <2>1. j \in AtWork(n) /\ j \in Installs
    BY <1>3 DEF AtWork, Alive
  <2>2. installers[j].alone /\ (j = i \/ installers'[j] = installers[j])
    BY <1>3, <2>1
  <2> QED BY <1>1, <1>2, <2>1, <2>2 DEF AloneIsWhole
<1>6. DoneIsWhole'
  BY <1>1, <1>2 DEF DoneIsWhole
<1> QED BY <1>3, <1>4, <1>5, <1>6 DEF InstallInvariant

(* The record that an install writes is true when it met nothing, and is in  *)
(* doubt otherwise.                                                          *)
LEMMA RecordDoneKeeps ==
  ASSUME InstallInvariant, NEW i \in Installs, NEW ok \in BOOLEAN, RecordDone(i, ok)
  PROVE  InstallInvariant'
<1> DEFINE m == installers[i].module
<1>1. /\ installers[i].at = "warm"
      /\ marker' = IF ok THEN [marker EXCEPT ![m] = "done"] ELSE marker
      /\ doubt' = IF ~ok THEN doubt ELSE IF installers[i].alone THEN doubt \ {m} ELSE doubt \cup {m}
      /\ Finish(i, IF ok THEN "done" ELSE "failed")
      /\ image' = image /\ site' = site /\ last' = last /\ remover' = remover
      /\ outcome' = outcome /\ overtaken' = overtaken
  BY DEF RecordDone
<1>2. InstallShape /\ StartedInOrder /\ OneThread /\ AloneIsWhole /\ DoneIsWhole
  BY DEF InstallInvariant
<1>3. Finish(i, "done") \/ Finish(i, "failed")
  BY <1>1
<1>4. /\ m \in Modules
      /\ flight' \in [Modules -> InstallStatuses]
      /\ installers' \in [Installs -> {Unstarted, Over} \cup InstallThreads]
      /\ StartedInOrder' /\ OneThread'
      /\ installers'[i].module = m /\ installers'[i].alone = installers[i].alone
      /\ \A j \in Installs \ {i} : installers'[j] = installers[j]
      /\ \A n \in Modules : AtWork(n)' \subseteq AtWork(n)
      /\ i \in AtWork(m)
  BY <1>1, <1>2, <1>3, ThreadGoesOn
<1>5. installers[i].alone => Needs[m] \subseteq site[m]
  BY <1>1, <1>2, <1>4 DEF AloneIsWhole
<1> HIDE DEF m
<1>6. InstallShape'
  BY <1>1, <1>2, <1>4 DEF InstallShape
<1>7. AloneIsWhole'
  <2> SUFFICES ASSUME NEW n \in Modules, NEW j \in AtWork(n)', installers'[j].alone
               PROVE  remover[n] = "idle" /\ (installers'[j].at # "pip" => Needs[n] \subseteq site[n])
    BY <1>1 DEF AloneIsWhole
  <2>1. j \in AtWork(n) /\ j \in Installs
    BY <1>4 DEF AtWork, Alive
  <2>2. installers[j].alone /\ (j = i \/ installers'[j] = installers[j])
    BY <1>4, <2>1
  <2> QED BY <1>1, <1>2, <2>1, <2>2 DEF AloneIsWhole
<1>8. DoneIsWhole'
  <2> SUFFICES ASSUME NEW n \in Modules, marker'[n] = "done", n \notin doubt'
               PROVE  Needs[n] \subseteq site[n]
    BY <1>1 DEF DoneIsWhole
  <2>1. CASE ~ok \/ n # m
    <3>1. marker[n] = "done" /\ n \notin doubt
      BY <1>1, <1>2, <2>1 DEF InstallShape
    <3> QED BY <1>2, <3>1 DEF DoneIsWhole
  <2>2. CASE ok /\ n = m
    BY <1>1, <1>5, <2>2
  <2> QED BY <2>1, <2>2
<1> QED BY <1>4, <1>6, <1>7, <1>8 DEF InstallInvariant

(* The second half of an end: the status becomes the last result.            *)
LEMMA FinishMoveKeeps ==
  ASSUME InstallInvariant, NEW i \in Installs, FinishMove(i)
  PROVE  InstallInvariant'
<1> DEFINE m == installers[i].module
<1>1. /\ installers[i].at = "move"
      /\ last' = IF flight[m] = NoInstall THEN last ELSE [last EXCEPT ![m] = flight[m]]
      /\ flight' = [flight EXCEPT ![m] = NoInstall]
      /\ installers' = [installers EXCEPT ![i] = Over]
      /\ outcome' = [outcome EXCEPT ![m] = installers[i].result]
      /\ image' = image /\ site' = site /\ marker' = marker /\ remover' = remover
      /\ overtaken' = overtaken /\ doubt' = doubt
  BY DEF FinishMove, Ended
<1>2. InstallShape /\ StartedInOrder /\ OneThread /\ AloneIsWhole /\ DoneIsWhole
  BY DEF InstallInvariant
<1>3. installers \in [Installs -> {Unstarted, Over} \cup InstallThreads] /\ installers[i] \in InstallThreads
  BY <1>1, <1>2 DEF InstallShape, Unstarted, Over
<1>4. m \in Modules /\ installers[i].result \in InstallStatuses
  BY <1>3 DEF InstallThreads
<1>5. i \in Alive(m) /\ \A n \in Modules : i \in Alive(n) => n = m
  BY <1>1, <1>3 DEF Alive
<1> HIDE DEF m
<1>6. /\ installers' \in [Installs -> {Unstarted, Over} \cup InstallThreads]
      /\ installers'[i].at = "over"
      /\ \A j \in Installs \ {i} : installers'[j] = installers[j]
  BY <1>1, <1>3 DEF Over
<1>7. /\ \A n \in Modules : Alive(n)' = Alive(n) \ {i}
      /\ \A n \in Modules : \A j \in AtWork(n)' : j \in AtWork(n) /\ installers'[j] = installers[j]
  BY <1>6 DEF Alive, AtWork
<1>8. InstallShape'
  BY <1>1, <1>2, <1>4, <1>6 DEF InstallShape, InstallStatuses
<1>9. StartedInOrder'
  BY <1>1, <1>2, <1>6 DEF StartedInOrder
<1>10. OneThread'
  <2> SUFFICES ASSUME NEW n \in Modules, n \notin overtaken
               PROVE  /\ \A j, k \in Alive(n)' : j = k
                      /\ \A j \in Alive(n)' :
                           IF installers'[j].at = "move" THEN flight'[n] = installers'[j].result /\ installers'[j].result # NoInstall
                           ELSE flight'[n] = "running"
                      /\ Alive(n)' = {} => last'[n] = outcome'[n]
    BY <1>1 DEF OneThread
  <2>1. /\ \A j, k \in Alive(n) : j = k
        /\ \A j \in Alive(n) :
             IF installers[j].at = "move" THEN flight[n] = installers[j].result /\ installers[j].result # NoInstall
             ELSE flight[n] = "running"
        /\ Alive(n) = {} => last[n] = outcome[n]
    BY <1>2 DEF OneThread
  <2>2. CASE n # m
    <3>1. /\ Alive(n)' = Alive(n) /\ \A j \in Alive(n) : j \in Installs \ {i}
          /\ flight'[n] = flight[n] /\ last'[n] = last[n] /\ outcome'[n] = outcome[n]
      BY <1>1, <1>2, <1>5, <1>7, <2>2 DEF InstallShape, Alive
    <3> QED BY <1>6, <2>1, <3>1
  <2>3. CASE n = m
    <3>1. Alive(n)' = {}
      BY <1>5, <1>7, <2>1, <2>3
    <3>2. flight[m] = installers[i].result /\ flight[m] # NoInstall
      BY <1>1, <1>5, <2>1, <2>3
    <3>3. last'[m] = outcome'[m]
      BY <1>1, <1>2, <1>4, <3>2 DEF InstallShape
    <3> QED BY <2>3, <3>1, <3>3
  <2> QED BY <2>2, <2>3
<1>11. AloneIsWhole'
  BY <1>1, <1>2, <1>7 DEF AloneIsWhole
<1>12. DoneIsWhole'
  BY <1>1, <1>2 DEF DoneIsWhole
<1> QED BY <1>8, <1>9, <1>10, <1>11, <1>12 DEF InstallInvariant

(* A thread is started: alone, unless it meets another one or a removal, and *)
(* the only one, unless the last one is between the halves of its end.       *)
LEMMA StartInstallKeeps ==
  ASSUME InstallInvariant, NEW m \in Modules, StartInstall(m)
  PROVE  InstallInvariant'
<1> DEFINE n == Cardinality({i \in Installs : installers[i].at # "unstarted"}) + 1
           new == [module |-> m, at |-> "pip", result |-> NoInstall, alone |-> AtWork(m) = {} /\ remover[m] = "idle"]
<1>1. /\ flight[m] # "running" /\ n \in Installs
      /\ installers' = [i \in Installs |->
           CASE i = n -> new
             [] i \in AtWork(m) -> [installers[i] EXCEPT !.alone = FALSE]
             [] OTHER -> installers[i]]
      /\ flight' = [flight EXCEPT ![m] = "running"] /\ last' = [last EXCEPT ![m] = NoInstall]
      /\ overtaken' = IF \E i \in Alive(m) : installers[i].at = "move" THEN overtaken \cup {m} ELSE overtaken
      /\ image' = image /\ site' = site /\ marker' = marker /\ remover' = remover
      /\ doubt' = doubt /\ outcome' = outcome
  BY DEF StartInstall, Spawn
<1>2. InstallShape /\ StartedInOrder /\ OneThread /\ AloneIsWhole /\ DoneIsWhole
  BY DEF InstallInvariant
<1>3. installers \in [Installs -> {Unstarted, Over} \cup InstallThreads]
  BY <1>2 DEF InstallShape
<1>4. \A i \in Installs : installers[i].at # "unstarted" <=> i < n
  <2> DEFINE S == {i \in Installs : installers[i].at # "unstarted"}
  <2>1. S \subseteq 1..MaxInstalls /\ MaxInstalls \in Nat
    BY SetupAssumption DEF Installs
  <2>2. \A j \in S : \A i \in 1..MaxInstalls : i < j => i \in S
    BY <1>2 DEF StartedInOrder, Installs
  <2> HIDE DEF S
  <2>3. Cardinality(S) \in Nat /\ \A i \in 1..MaxInstalls : i \in S <=> i <= Cardinality(S)
    BY <2>1, <2>2, NoGaps
  <2>4. \A i \in Installs : i \in S <=> i < n
    BY <2>3 DEF Installs, S
  <2> QED BY <2>4 DEF S
<1>5. new \in InstallThreads /\ new.module = m /\ new.at = "pip" /\ (new.alone => remover[m] = "idle")
  BY DEF InstallThreads, InstallStatuses
<1> HIDE DEF n, new
<1>6. n \notin AtWork(m) /\ installers[n].at = "unstarted"
  BY <1>1, <1>4 DEF AtWork, Alive, Installs
<1>7. installers'[n] = new
  BY <1>1, <1>6
<1>8. \A i \in AtWork(m) : i \in Installs /\ i # n /\ installers[i] \in InstallThreads /\ installers'[i] = [installers[i] EXCEPT !.alone = FALSE]
  BY <1>1, <1>3, <1>6 DEF AtWork, Alive, Unstarted, Over
<1>9. \A i \in Installs : i # n /\ i \notin AtWork(m) => installers'[i] = installers[i]
  BY <1>1
<1>10. \A i \in AtWork(m) : /\ installers'[i] \in InstallThreads /\ ~installers'[i].alone
                            /\ installers'[i].module = installers[i].module /\ installers'[i].at = installers[i].at
                            /\ installers'[i].result = installers[i].result
  BY <1>8 DEF InstallThreads
<1>11. installers' \in [Installs -> {Unstarted, Over} \cup InstallThreads]
  <2>1. \A i \in Installs : installers'[i] \in {Unstarted, Over} \cup InstallThreads
    BY <1>3, <1>5, <1>7, <1>9, <1>10
  <2>2. installers' = [i \in Installs |-> installers'[i]]
    BY <1>1
  <2> QED BY <2>1, <2>2
<1>12. InstallShape'
  BY <1>1, <1>2, <1>11 DEF InstallShape, InstallStatuses
<1>13. \A i \in Installs : (installers'[i].at # "unstarted") <=> (i < n \/ i = n)
  <2> TAKE i \in Installs
  <2>1. CASE i = n
    BY <1>5, <1>7, <2>1
  <2>2. CASE i # n /\ i \in AtWork(m)
    BY <1>4, <1>10, <2>2
  <2>3. CASE i # n /\ i \notin AtWork(m)
    BY <1>4, <1>9, <2>3
  <2> QED BY <2>1, <2>2, <2>3
<1>14. StartedInOrder'
  BY <1>1, <1>13 DEF StartedInOrder, Installs
<1>15. \A k \in Modules : Alive(k)' = IF k = m THEN Alive(k) \cup {n} ELSE Alive(k)
  <2>1. \A k \in Modules : \A i \in Installs \ {n} : i \in Alive(k)' <=> i \in Alive(k)
    BY <1>9, <1>10 DEF Alive
  <2>2. \A k \in Modules : (n \in Alive(k)' <=> k = m) /\ n \notin Alive(k)
    BY <1>1, <1>5, <1>6, <1>7 DEF Alive
  <2>3. \A k \in Modules : Alive(k) \subseteq Installs /\ Alive(k)' \subseteq Installs
    BY DEF Alive
  <2>4. ASSUME NEW k \in Modules, k = m
        PROVE  Alive(k)' = Alive(k) \cup {n}
    BY <1>1, <2>1, <2>2, <2>3, <2>4
  <2>5. ASSUME NEW k \in Modules, k # m
        PROVE  Alive(k)' = Alive(k)
    BY <2>1, <2>2, <2>3, <2>5
  <2> QED BY <2>4, <2>5
<1>16. OneThread'
  <2> SUFFICES ASSUME NEW k \in Modules, k \notin overtaken'
               PROVE  /\ \A i, j \in Alive(k)' : i = j
                      /\ \A j \in Alive(k)' :
                           IF installers'[j].at = "move" THEN flight'[k] = installers'[j].result /\ installers'[j].result # NoInstall
                           ELSE flight'[k] = "running"
                      /\ Alive(k)' = {} => last'[k] = outcome'[k]
    BY DEF OneThread
  <2>1. /\ k \notin overtaken
        /\ \A i, j \in Alive(k) : i = j
        /\ \A j \in Alive(k) :
             IF installers[j].at = "move" THEN flight[k] = installers[j].result /\ installers[j].result # NoInstall
             ELSE flight[k] = "running"
        /\ Alive(k) = {} => last[k] = outcome[k]
    BY <1>1, <1>2 DEF OneThread
  <2>2. CASE k = m
    <3>1. \A i \in Alive(m) : installers[i].at # "move"
      BY <1>1, <2>2
    <3>2. Alive(m) = {}
      BY <1>1, <2>1, <2>2, <3>1
    <3>3. Alive(k)' = {n} /\ flight'[k] = "running"
      BY <1>1, <1>2, <1>15, <2>2, <3>2 DEF InstallShape
    <3> QED BY <1>5, <1>7, <3>3
  <2>3. CASE k # m
    <3>1. /\ Alive(k)' = Alive(k) /\ flight'[k] = flight[k] /\ last'[k] = last[k] /\ outcome'[k] = outcome[k]
      BY <1>1, <1>2, <1>15, <2>3 DEF InstallShape
    <3>2. \A i \in Alive(k) : i \in Installs /\ i # n /\ i \notin AtWork(m)
      BY <1>6, <2>3 DEF Alive, AtWork
    <3> QED BY <1>9, <2>1, <3>1, <3>2
  <2> QED BY <2>2, <2>3
<1>17. AloneIsWhole'
  <2> SUFFICES ASSUME NEW k \in Modules, NEW j \in AtWork(k)', installers'[j].alone
               PROVE  remover[k] = "idle" /\ (installers'[j].at # "pip" => Needs[k] \subseteq site[k])
    BY <1>1 DEF AloneIsWhole
  <2>1. j \in Installs /\ j \in Alive(k)' /\ installers'[j].at # "move"
    BY DEF AtWork, Alive
  <2>2. CASE j = n
    BY <1>5, <1>7, <2>1, <2>2 DEF Alive
  <2>3. CASE j # n
    <3>1. j \notin AtWork(m) /\ installers'[j] = installers[j]
      BY <1>9, <1>10, <2>1, <2>3
    <3>2. j \in AtWork(k)
      BY <1>15, <2>1, <2>3, <3>1 DEF AtWork
    <3> QED BY <1>2, <3>1, <3>2 DEF AloneIsWhole
  <2> QED BY <2>2, <2>3
<1>18. DoneIsWhole'
  BY <1>1, <1>2 DEF DoneIsWhole
<1> QED BY <1>12, <1>14, <1>16, <1>17, <1>18 DEF InstallInvariant

(* A removal that starts meets every install at work, and puts the record in *)
(* doubt.                                                                    *)
LEMMA RemoveDirsKeeps ==
  ASSUME InstallInvariant, NEW m \in Modules, RemoveDirs(m)
  PROVE  InstallInvariant'
<1>1. /\ remover[m] = "idle" /\ site' = [site EXCEPT ![m] = {}]
      /\ installers' = [i \in Installs |-> IF i \in AtWork(m) THEN [installers[i] EXCEPT !.alone = FALSE] ELSE installers[i]]
      /\ remover' = [remover EXCEPT ![m] = "image"]
      /\ doubt' = doubt \cup {m}
      /\ image' = image /\ flight' = flight /\ last' = last /\ marker' = marker
      /\ outcome' = outcome /\ overtaken' = overtaken
  BY DEF RemoveDirs
<1>2. InstallShape /\ StartedInOrder /\ OneThread /\ AloneIsWhole /\ DoneIsWhole
  BY DEF InstallInvariant
<1>3. installers \in [Installs -> {Unstarted, Over} \cup InstallThreads]
  BY <1>2 DEF InstallShape
<1>4. \A i \in AtWork(m) : i \in Installs /\ installers[i] \in InstallThreads /\ installers'[i] = [installers[i] EXCEPT !.alone = FALSE]
  BY <1>1, <1>3 DEF AtWork, Alive, Unstarted, Over
<1>5. \A i \in Installs : i \notin AtWork(m) => installers'[i] = installers[i]
  BY <1>1
<1>6. \A i \in AtWork(m) : /\ installers'[i] \in InstallThreads /\ ~installers'[i].alone
                           /\ installers'[i].module = installers[i].module /\ installers'[i].at = installers[i].at
                           /\ installers'[i].result = installers[i].result
  BY <1>4 DEF InstallThreads
<1>7. installers' \in [Installs -> {Unstarted, Over} \cup InstallThreads]
  <2>1. \A i \in Installs : installers'[i] \in {Unstarted, Over} \cup InstallThreads
    BY <1>3, <1>5, <1>6
  <2>2. installers' = [i \in Installs |-> installers'[i]]
    BY <1>1
  <2> QED BY <2>1, <2>2
<1>8. \A i \in Installs : /\ installers'[i].at = installers[i].at
                          /\ installers[i].at \notin {"unstarted", "over"} =>
                               installers'[i].module = installers[i].module /\ installers'[i].result = installers[i].result
  BY <1>5, <1>6
<1>9. \A k \in Modules : Alive(k)' = Alive(k) /\ AtWork(k)' = AtWork(k)
  BY <1>8 DEF Alive, AtWork
<1>10. /\ site' \in [Modules -> SUBSET Packages] /\ site'[m] = {} /\ \A k \in Modules \ {m} : site'[k] = site[k]
       /\ remover' \in [Modules -> {"idle", "image", "record", "refused"}]
       /\ \A k \in Modules \ {m} : remover'[k] = remover[k]
  BY <1>1, <1>2 DEF InstallShape
<1>11. InstallShape'
  BY <1>1, <1>2, <1>7, <1>10 DEF InstallShape
<1>12. StartedInOrder'
  BY <1>1, <1>2, <1>8 DEF StartedInOrder
<1>13. OneThread'
  <2>1. \A k \in Modules : \A i \in Alive(k) : installers'[i].at = installers[i].at /\ installers'[i].result = installers[i].result
    BY <1>8 DEF Alive
  <2> QED BY <1>1, <1>2, <1>9, <2>1 DEF OneThread
<1>14. AloneIsWhole'
  <2> SUFFICES ASSUME NEW k \in Modules, NEW j \in AtWork(k), installers'[j].alone
               PROVE  remover'[k] = "idle" /\ (installers'[j].at # "pip" => Needs[k] \subseteq site'[k])
    BY <1>1, <1>9 DEF AloneIsWhole
  <2>1. j \notin AtWork(m) /\ installers'[j] = installers[j]
    BY <1>5, <1>6 DEF AtWork, Alive
  <2>2. k # m
    BY <2>1
  <2> QED BY <1>2, <1>10, <2>1, <2>2 DEF AloneIsWhole
<1>15. DoneIsWhole'
  <2> SUFFICES ASSUME NEW k \in Modules, marker[k] = "done", k \notin doubt, k # m
               PROVE  Needs[k] \subseteq site'[k]
    BY <1>1 DEF DoneIsWhole
  <2> QED BY <1>2, <1>10 DEF DoneIsWhole
<1> QED BY <1>11, <1>12, <1>13, <1>14, <1>15 DEF InstallInvariant

(* The further steps of a removal touch no module's own directory; the       *)
(* record that a removal ends with says "removed".                           *)
LEMMA RemovalKeeps ==
  ASSUME InstallInvariant, NEW m \in Modules, NEW ok \in BOOLEAN,
         Refuse(m) \/ RemoveBaked(m, ok) \/ RemoveRecord(m, ok)
  PROVE  InstallInvariant'
<1>1. /\ remover[m] # "idle"
      /\ \E at \in {"idle", "image", "record", "refused"} : remover' = [remover EXCEPT ![m] = at]
      /\ image' \subseteq image
      /\ site' = site /\ flight' = flight /\ last' = last /\ installers' = installers
      /\ outcome' = outcome /\ overtaken' = overtaken
  BY DEF Refuse, RemoveBaked, RemoveRecord
<1>2. \/ marker' = marker /\ doubt' = doubt
      \/ marker' = [marker EXCEPT ![m] = "removed"] /\ doubt \ {m} \subseteq doubt'
  BY DEF Refuse, RemoveBaked, RemoveRecord
<1>3. InstallShape /\ StartedInOrder /\ OneThread /\ AloneIsWhole /\ DoneIsWhole
  BY DEF InstallInvariant
<1>4. \A k \in Modules : Alive(k)' = Alive(k) /\ AtWork(k)' = AtWork(k)
  BY <1>1 DEF Alive, AtWork
<1>5. /\ remover' \in [Modules -> {"idle", "image", "record", "refused"}]
      /\ \A k \in Modules : remover[k] = "idle" => remover'[k] = "idle"
  BY <1>1, <1>3 DEF InstallShape
<1>6. InstallShape'
  BY <1>1, <1>2, <1>3, <1>5 DEF InstallShape
<1>7. StartedInOrder' /\ OneThread'
  BY <1>1, <1>3, <1>4 DEF StartedInOrder, OneThread
<1>8. AloneIsWhole'
  BY <1>1, <1>3, <1>4, <1>5 DEF AloneIsWhole
<1>9. DoneIsWhole'
  <2>1. \A k \in Modules : marker'[k] = "done" /\ k \notin doubt' => marker[k] = "done" /\ k \notin doubt
    BY <1>2, <1>3 DEF InstallShape
  <2> QED BY <1>1, <1>3, <2>1 DEF DoneIsWhole
<1> QED BY <1>6, <1>7, <1>8, <1>9 DEF InstallInvariant

(* After a restart there is no thread, and no status to tell.                *)
LEMMA SetupCrashKeeps ==
  ASSUME InstallInvariant, NEW got \in SUBSET Packages, SetupCrash(got)
  PROVE  InstallInvariant'
<1>1. /\ site' = [m \in Modules |-> IF \E i \in Alive(m) : installers[i].at = "pip" THEN site[m] \cup (got \cap Needs[m]) ELSE site[m]]
      /\ flight' = [m \in Modules |-> NoInstall] /\ last' = [m \in Modules |-> NoInstall]
      /\ installers' = [i \in Installs |-> IF installers[i] = Unstarted THEN Unstarted ELSE Over]
      /\ outcome' = [m \in Modules |-> NoInstall]
      /\ remover' = [m \in Modules |-> "idle"] /\ overtaken' = {}
      /\ image' = image /\ marker' = marker /\ doubt' = doubt
  BY DEF SetupCrash
<1>2. InstallShape /\ StartedInOrder /\ DoneIsWhole
  BY DEF InstallInvariant
<1>3. /\ site' \in [Modules -> SUBSET Packages]
      /\ \A m \in Modules : site[m] \subseteq site'[m] /\ site'[m] \subseteq Needs[m]
  BY <1>1, <1>2 DEF InstallShape
<1>4. installers' \in [Installs -> {Unstarted, Over} \cup InstallThreads]
  BY <1>1
<1>5. InstallShape'
  BY <1>1, <1>2, <1>3, <1>4 DEF InstallShape, InstallStatuses
<1>6. \A i \in Installs : /\ installers'[i].at \in {"unstarted", "over"}
                          /\ (installers'[i].at = "unstarted") <=> (installers[i].at = "unstarted")
  <2> TAKE i \in Installs
  <2>1. installers[i] \in {Unstarted, Over} \cup InstallThreads
    BY <1>2 DEF InstallShape
  <2> QED BY <1>1, <2>1 DEF Unstarted, Over, InstallThreads
<1>7. StartedInOrder'
  BY <1>1, <1>2, <1>6 DEF StartedInOrder
<1>8. \A m \in Modules : Alive(m)' = {} /\ AtWork(m)' = {}
  BY <1>6 DEF Alive, AtWork
<1>9. OneThread' /\ AloneIsWhole'
  BY <1>1, <1>8 DEF OneThread, AloneIsWhole
<1>10. DoneIsWhole'
  BY <1>1, <1>2, <1>3 DEF DoneIsWhole
<1> QED BY <1>5, <1>7, <1>9, <1>10 DEF InstallInvariant

LEMMA SetupStays ==
  ASSUME InstallInvariant, [SetupNext]_setupVars
  PROVE  InstallInvariant'
<1>1. CASE UNCHANGED setupVars
  <2>1. /\ image' = image /\ site' = site /\ flight' = flight /\ last' = last /\ marker' = marker
        /\ installers' = installers /\ remover' = remover /\ outcome' = outcome
        /\ overtaken' = overtaken /\ doubt' = doubt
    BY <1>1 DEF setupVars
  <2>2. \A k \in Modules : Alive(k)' = Alive(k) /\ AtWork(k)' = AtWork(k)
    BY <2>1 DEF Alive, AtWork
  <2> QED BY <2>1, <2>2 DEF InstallInvariant, InstallShape, StartedInOrder, OneThread, AloneIsWhole, DoneIsWhole
<1>2. CASE SetupNext
  <2>1. CASE \E i \in Installs : InstallStep(i)
    BY <2>1, ProbeKeeps, FinishMoveKeeps, RecordDoneKeeps, EndPipKeeps DEF InstallStep
  <2>2. CASE \E m \in Modules : StartInstall(m) \/ RemoveDirs(m)
    BY <2>2, StartInstallKeeps, RemoveDirsKeeps
  <2>3. CASE \E m \in Modules : Refuse(m) \/ \E ok \in BOOLEAN : RemoveBaked(m, ok) \/ RemoveRecord(m, ok)
    BY <2>3, RemovalKeeps
  <2>4. CASE \E got \in SUBSET Packages : SetupCrash(got)
    BY <2>4, SetupCrashKeeps
  <2> QED BY <1>2, <2>1, <2>2, <2>3, <2>4 DEF SetupNext
<1> QED BY <1>1, <1>2

LEMMA SetupIsSound ==
  ASSUME InstallInvariant
  PROVE  InstallsAreSound
<1>1. InstallShape /\ OneThread /\ DoneIsWhole
  BY DEF InstallInvariant
<1>2. SetupTypeOK
  BY <1>1 DEF InstallShape, InstallStatuses, SetupTypeOK
<1>3. DoneIsAvailable
  BY <1>1 DEF DoneIsWhole, DoneIsAvailable, Available
<1>4. OneInstallAtATime
  <2> SUFFICES ASSUME NEW m \in Modules, m \notin overtaken
               PROVE  Cardinality(AtWork(m)) <= 1
    BY DEF OneInstallAtATime
  <2>1. \A i, j \in AtWork(m) : i = j
    BY <1>1 DEF OneThread, AtWork
  <2>2. CASE AtWork(m) = {}
    BY <2>2, FS_EmptySet
  <2>3. CASE AtWork(m) # {}
    <3>1. PICK i : i \in AtWork(m)
      BY <2>3
    <3>2. AtWork(m) = {i}
      BY <2>1, <3>1
    <3>3. Cardinality({i}) = 1
      BY FS_Singleton
    <3> QED BY <3>2, <3>3
  <2> QED BY <2>2, <2>3
<1>5. ResultIsTold
  BY <1>1 DEF OneThread, ResultIsTold
<1> QED BY <1>2, <1>3, <1>4, <1>5 DEF InstallsAreSound

(* Packages leave the image only when the sibling is not complete there, and *)
(* then a complete sibling is so in its own directory.                       *)
LEMMA RemovalSparesTheSibling ==
  ASSUME InstallInvariant, [SetupNext]_setupVars
  PROVE  SiblingSurvives
<1> SUFFICES ASSUME NEW m \in Modules, remover[m] = "idle", remover'[m] = "idle",
                    Baked(m) \/ Needs[m] \subseteq site[m]
             PROVE  Needs[m] \subseteq image' \cup site'[m]
  BY DEF SiblingSurvives
<1>1. InstallShape
  BY DEF InstallInvariant
<1>2. CASE image' = image /\ site[m] \subseteq site'[m]
  BY <1>2 DEF Baked
<1>3. CASE ~(image' = image /\ site[m] \subseteq site'[m])
  <2>1. ~UNCHANGED setupVars
    BY <1>3 DEF setupVars
  <2>2. ASSUME NEW i \in Installs, InstallStep(i)
        PROVE  FALSE
    <3>1. image' = image /\ (site' = site \/ \E got : site' = [site EXCEPT ![installers[i].module] = @ \cup got])
      BY <2>2 DEF InstallStep, Probe, FinishMove, RecordDone, EndPip
    <3> QED BY <1>1, <1>3, <3>1 DEF InstallShape
  <2>3. ASSUME NEW k \in Modules, StartInstall(k) \/ Refuse(k) \/ \E ok \in BOOLEAN : RemoveRecord(k, ok)
        PROVE  FALSE
    BY <1>3, <2>3 DEF StartInstall, Refuse, RemoveRecord
  <2>4. ASSUME NEW k \in Modules, RemoveDirs(k)
        PROVE  FALSE
    BY <1>1, <1>3, <2>4 DEF RemoveDirs, InstallShape
  <2>5. ASSUME NEW got \in SUBSET Packages, SetupCrash(got)
        PROVE  FALSE
    BY <1>3, <2>5 DEF SetupCrash
  <2>6. PICK k \in Modules, ok \in BOOLEAN : RemoveBaked(k, ok)
    BY <2>1, <2>2, <2>3, <2>4, <2>5 DEF SetupNext
  <2>7. /\ remover[k] = "image" /\ site' = site
        /\ image' = IF Baked(k) /\ ~Baked(Sibling[k]) /\ ok THEN image \ Needs[k] ELSE image
    BY <2>6 DEF RemoveBaked
  <2>8. ~Baked(Sibling[k]) /\ k # m
    BY <1>3, <2>7
  <2>9. m = Sibling[k]
    BY <2>8, ModuleFacts
  <2> QED BY <2>7, <2>8, <2>9
<1> QED BY <1>2, <1>3

(* Whatever of installs, removals, failures and restarts meets: a recorded   *)
(* module is there, one install of a module runs at a time and is told of    *)
(* last, and a removal leaves the other module its packages                  *)
(* (_run_memory_install, _mem_finish, remove_router).                        *)
THEOREM ModulesAreKept ==
  SetupSpec => []InstallsAreSound /\ [][SiblingSurvives]_setupVars
<1>1. SetupInit => InstallInvariant
  BY SetupStarts
<1>2. InstallInvariant /\ [SetupNext]_setupVars => InstallInvariant'
  BY SetupStays
<1>3. InstallInvariant => InstallsAreSound
  BY SetupIsSound
<1>4. InstallInvariant /\ [SetupNext]_setupVars => [SiblingSurvives]_setupVars
  BY RemovalSparesTheSibling
<1> QED BY <1>1, <1>2, <1>3, <1>4, PTL DEF SetupSpec

-----------------------------------------------------------------------------
(* The console session.                                                      *)

Blobs == [session : 0..MaxLogins, refreshGen : Nat, until : Nat, expires : Nat, org : BOOLEAN]
FetcherStates ==
  {Free} \cup [at : {"token"}, until : Nat, when : Nat, timed : BOOLEAN, ok : BOOLEAN]
         \cup [at : {"refresh", "org"}, loaded : Blobs]
         \cup [at : {"save"}, loaded : Blobs, merged : Blobs, when : Nat]
CliStates ==
  {CliFree} \cup [at : {"poll"}, elapsed : Nat, wait : Nat] \cup [at : {"pkce"}] \cup [at : {"store"}, new : Blobs]

\* The blob of an opened session holds a refresh token that it was granted.
Backed(b, granted) ==
  /\ b.expires > 0 => b.until = b.expires
  /\ IF b.session = NoSession THEN b.refreshGen = 0 ELSE b.refreshGen <= granted[b.session] /\ b.refreshGen > 0

ConsoleShape ==
  /\ grants \in [Sessions -> Nat] /\ blob \in Blobs
  /\ fetchers \in [Fetchers -> FetcherStates] /\ cli \in CliStates
  /\ consoleTime \in Nat /\ fetchesLeft \in Nat
  /\ crossed \in BOOLEAN /\ lost \in BOOLEAN
  /\ orgOf \in 0..MaxLogins /\ (orgOf # NoSession => grants[orgOf] > 0)
  /\ cli.at = "poll" => cli.elapsed <= PollDeadline + cli.wait

BlobsAreBacked ==
  /\ Backed(blob, grants)
  /\ \A f \in Fetchers :
       /\ fetchers[f].at \in {"refresh", "save", "org"} => Backed(fetchers[f].loaded, grants)
       /\ fetchers[f].at \in {"refresh", "save"} => fetchers[f].loaded.session # NoSession

\* What will be saved was made from what was loaded.
MergedFromLoaded ==
  \A f \in Fetchers : fetchers[f].at = "save" =>
    /\ Backed(fetchers[f].merged, grants)
    /\ fetchers[f].merged.session = fetchers[f].loaded.session
    /\ fetchers[f].merged.org = fetchers[f].loaded.org
    /\ fetchers[f].merged.refreshGen >= fetchers[f].loaded.refreshGen
    /\ fetchers[f].merged.until = fetchers[f].when + Lifetime

\* Nobody has seen the session of a login that is still to be stored.
LoginIsNew ==
  /\ cli.at = "pkce" => LoginOpened # Sessions
  /\ cli.at = "store" =>
       /\ cli.new.session # NoSession /\ Backed(cli.new, grants)
       /\ cli.new.refreshGen = 1 /\ grants[cli.new.session] = 1
       /\ cli.new.session # orgOf /\ cli.new.session # blob.session
       /\ \A f \in Fetchers : fetchers[f].at \in {"refresh", "save", "org"} => fetchers[f].loaded.session # cli.new.session

\* A fetch rotates a refresh token once.
Refreshing == {f \in Fetchers : fetchers[f].at = "refresh"}
RotationsBounded ==
  /\ fetchesLeft + Cardinality(Refreshing) <= MaxFetches
  /\ \A s \in Sessions : grants[s] + fetchesLeft + Cardinality(Refreshing) <= MaxFetches + 1

\* The refresh token the provider takes is stored, or about to be.
NewestIsAtHand ==
  ~crossed /\ ~lost /\ blob.session # NoSession =>
    \/ blob.refreshGen = grants[blob.session]
    \/ \E f \in Fetchers : /\ fetchers[f].at = "save" /\ fetchers[f].merged.session = blob.session
                           /\ fetchers[f].merged.refreshGen = grants[blob.session]

ConsoleInvariant ==
  /\ ConsoleShape /\ BlobsAreBacked /\ MergedFromLoaded /\ LoginIsNew /\ RotationsBounded /\ NewestIsAtHand
  /\ TokenOutlivesItsUse /\ OrgStaysKnown

(* What a fetcher and the command line hold, by where they are.              *)
LEMMA StatesByPlace ==
  /\ \A x \in FetcherStates :
       /\ x.at \in {"idle", "token", "refresh", "save", "org"} /\ (x = Free <=> x.at = "idle")
       /\ x.at = "token" => x.until \in Nat /\ x.when \in Nat /\ x.timed \in BOOLEAN /\ x.ok \in BOOLEAN
       /\ x.at \in {"refresh", "save", "org"} => x.loaded \in Blobs
       /\ x.at = "save" => x.merged \in Blobs /\ x.when \in Nat
  /\ \A x \in CliStates :
       /\ x.at \in {"idle", "poll", "pkce", "store"} /\ (x = CliFree <=> x.at = "idle")
       /\ x.at = "poll" => x.elapsed \in Nat /\ x.wait \in Nat /\ x = [at |-> "poll", elapsed |-> x.elapsed, wait |-> x.wait]
       /\ x.at = "store" => x.new \in Blobs
BY DEF FetcherStates, CliStates, Free, CliFree

LEMMA BlobFields ==
  ASSUME NEW b \in Blobs
  PROVE  /\ b.session \in Nat /\ (b.session # NoSession => b.session \in Sessions)
         /\ b.refreshGen \in Nat /\ b.until \in Nat /\ b.expires \in Nat /\ b.org \in BOOLEAN
BY ConsoleAssumption DEF Blobs, NoSession, Sessions

(* What is backed stays so while the provider's grants grow.                 *)
LEMMA BackedStays ==
  ASSUME NEW g \in [Sessions -> Nat], NEW h \in [Sessions -> Nat], \A s \in Sessions : g[s] <= h[s],
         NEW b \in Blobs, Backed(b, g)
  PROVE  Backed(b, h)
BY BlobFields DEF Backed

(* The session of a new login is one that was never opened.                  *)
LEMMA NewSessionIsNew ==
  ASSUME LoginOpened # Sessions
  PROVE  NewSession \in Sessions \ LoginOpened
<1> DEFINE T == Sessions \ LoginOpened
           p == Position(T, 1)
<1>1. T \subseteq 1..MaxLogins /\ MaxLogins \in Nat /\ T # {}
  BY ConsoleAssumption DEF Sessions, LoginOpened
<1>2. IsFiniteSet(T) /\ Cardinality(T) \in Nat /\ Cardinality(T) # 0
  BY <1>1, IntervalCardinality, FS_Subset, FS_CardinalityType, FS_EmptySet
<1> HIDE DEF T
<1>3. 1 \in 1..Cardinality(T)
  BY <1>2
<1>4. p \in T /\ Cardinality({i \in T : i <= p}) = 1
  BY <1>1, <1>3, RanksAreReached
<1> HIDE DEF p
<1>5. p \in Nat /\ \A i \in T : i \in Nat
  BY <1>1, <1>4
<1>6. \A i \in T : p <= i
  <2> DEFINE X == {i \in T : i <= p}
  <2>1. IsFiniteSet(X) /\ {p} \subseteq X
    BY <1>2, <1>4, <1>5, FS_Subset
  <2>2. Cardinality({p}) = 1
    BY FS_Singleton
  <2>3. Cardinality(X) = 1
    BY <1>4
  <2> HIDE DEF X
  <2>4. {p} = X
    BY <2>1, <2>2, <2>3, FS_Subset
  <2> QED BY <1>5, <2>4 DEF X
<1>7. \E s \in T : \A t \in T : s <= t
  BY <1>4, <1>6
<1> QED BY <1>7 DEF NewSession, T

LEMMA ConsoleStarts ==
  ASSUME ConsoleInit
  PROVE  ConsoleInvariant
<1> USE ConsoleAssumption
<1>1. /\ grants = [s \in Sessions |-> 0] /\ blob = NoBlob
      /\ fetchers = [f \in Fetchers |-> Free] /\ cli = CliFree
      /\ consoleTime = 0 /\ crossed = FALSE /\ lost = FALSE /\ orgOf = NoSession /\ fetchesLeft = MaxFetches
  BY DEF ConsoleInit
<1>2. blob \in Blobs /\ blob.session = NoSession /\ blob.refreshGen = 0 /\ blob.expires = 0
  BY <1>1 DEF Blobs, NoBlob, NoSession
<1>3. cli.at = "idle" /\ \A f \in Fetchers : fetchers[f].at = "idle"
  BY <1>1 DEF Free, CliFree
<1>4. ConsoleShape
  <2>1. Free \in FetcherStates /\ CliFree \in CliStates
    BY DEF FetcherStates, CliStates
  <2>2. NoSession = 0 /\ 0 \in 0..MaxLogins
    BY DEF NoSession
  <2>3. fetchers \in [Fetchers -> FetcherStates] /\ cli \in CliStates /\ grants \in [Sessions -> Nat]
    BY <1>1, <2>1
  <2> QED BY <1>1, <1>2, <1>3, <2>2, <2>3 DEF ConsoleShape
<1>5. BlobsAreBacked /\ MergedFromLoaded /\ LoginIsNew
  BY <1>2, <1>3 DEF BlobsAreBacked, MergedFromLoaded, LoginIsNew, Backed
<1>6. Refreshing = {} /\ Cardinality(Refreshing) = 0
  BY <1>3, FS_EmptySet DEF Refreshing
<1>7. RotationsBounded
  BY <1>1, <1>6 DEF RotationsBounded
<1>8. NewestIsAtHand /\ TokenOutlivesItsUse /\ OrgStaysKnown
  BY <1>2, <1>3 DEF NewestIsAtHand, TokenOutlivesItsUse, OrgStaysKnown
<1> QED BY <1>4, <1>5, <1>7, <1>8 DEF ConsoleInvariant

(* The fetchers that are refreshing, when one of them moves.                 *)
LEMMA RefreshingMoves ==
  ASSUME ConsoleShape, NEW f \in Fetchers, \A g \in Fetchers \ {f} : fetchers'[g] = fetchers[g]
  PROVE  /\ Cardinality(Refreshing) \in Nat
         /\ fetchers[f].at = "refresh" /\ fetchers'[f].at # "refresh" => Cardinality(Refreshing') = Cardinality(Refreshing) - 1
         /\ fetchers[f].at # "refresh" /\ fetchers'[f].at = "refresh" => Cardinality(Refreshing') = Cardinality(Refreshing) + 1
         /\ fetchers[f].at # "refresh" /\ fetchers'[f].at # "refresh" => Refreshing' = Refreshing
<1>1. IsFiniteSet(Refreshing) /\ Cardinality(Refreshing) \in Nat
  <2>1. Refreshing \subseteq Fetchers
    BY DEF Refreshing
  <2> QED BY <2>1, ConsoleAssumption, FS_Subset, FS_CardinalityType
<1>2. ASSUME fetchers[f].at = "refresh", fetchers'[f].at # "refresh"
      PROVE  Cardinality(Refreshing') = Cardinality(Refreshing) - 1
  <2>1. Refreshing' = Refreshing \ {f} /\ f \in Refreshing
    BY <1>2 DEF Refreshing
  <2> QED BY <1>1, <2>1, FS_RemoveElement
<1>3. ASSUME fetchers[f].at # "refresh", fetchers'[f].at = "refresh"
      PROVE  Cardinality(Refreshing') = Cardinality(Refreshing) + 1
  <2>1. Refreshing' = Refreshing \cup {f} /\ f \notin Refreshing
    BY <1>3 DEF Refreshing
  <2> QED BY <1>1, <2>1, FS_AddElement
<1>4. ASSUME fetchers[f].at # "refresh", fetchers'[f].at # "refresh"
      PROVE  Refreshing' = Refreshing
  BY <1>4 DEF Refreshing
<1> QED BY <1>1, <1>2, <1>3, <1>4

(* A fetcher that only looks: at the stored blob, which it keeps, or not.    *)
LEMMA FetcherLooks ==
  ASSUME ConsoleInvariant, NEW f \in Fetchers, NEW x \in FetcherStates,
         fetchers[f].at \in {"idle", "token"}, fetchers' = [fetchers EXCEPT ![f] = x],
         grants' = grants, blob' = blob, cli' = cli, consoleTime' = consoleTime,
         crossed' = crossed, lost' = lost, orgOf' = orgOf,
         x.at \in {"idle", "token", "refresh", "org"},
         x.at \in {"refresh", "org"} => x.loaded = blob,
         x.at = "refresh" => blob.session # NoSession /\ fetchesLeft' = fetchesLeft - 1,
         x.at = "token" /\ x.ok /\ x.timed => x.until > x.when + Skew,
         fetchesLeft' \in Nat, fetchesLeft' <= fetchesLeft
  PROVE  ConsoleInvariant'
<1>1. /\ ConsoleShape /\ BlobsAreBacked /\ MergedFromLoaded /\ LoginIsNew /\ RotationsBounded /\ NewestIsAtHand
      /\ TokenOutlivesItsUse /\ OrgStaysKnown
  BY DEF ConsoleInvariant
<1>2. /\ fetchers' \in [Fetchers -> FetcherStates] /\ fetchers'[f] = x
      /\ \A g \in Fetchers \ {f} : fetchers'[g] = fetchers[g]
  BY <1>1 DEF ConsoleShape
<1>3. ConsoleShape'
  BY <1>1, <1>2 DEF ConsoleShape
<1>4. BlobsAreBacked'
  BY <1>1, <1>2 DEF BlobsAreBacked
<1>5. MergedFromLoaded' /\ TokenOutlivesItsUse'
  BY <1>1, <1>2 DEF MergedFromLoaded, TokenOutlivesItsUse
<1>6. LoginOpened' = LoginOpened
  BY DEF LoginOpened
<1>7. LoginIsNew'
  BY <1>1, <1>2, <1>6 DEF LoginIsNew
<1>8. RotationsBounded'
  <2>1. /\ Cardinality(Refreshing) \in Nat
        /\ fetchesLeft' + Cardinality(Refreshing') <= fetchesLeft + Cardinality(Refreshing)
        /\ Cardinality(Refreshing') \in Nat
    <3>1. CASE x.at = "refresh"
      BY <1>1, <1>2, <3>1, RefreshingMoves DEF ConsoleShape
    <3>2. CASE x.at # "refresh"
      BY <1>1, <1>2, <3>2, RefreshingMoves DEF ConsoleShape
    <3> QED BY <3>1, <3>2
  <2>2. fetchesLeft \in Nat /\ MaxFetches \in Nat /\ \A s \in Sessions : grants[s] \in Nat
    BY <1>1, ConsoleAssumption DEF ConsoleShape
  <2> QED BY <1>1, <2>1, <2>2 DEF RotationsBounded
<1>9. NewestIsAtHand' /\ OrgStaysKnown'
  BY <1>1, <1>2 DEF NewestIsAtHand, OrgStaysKnown
<1> QED BY <1>3, <1>4, <1>5, <1>7, <1>8, <1>9 DEF ConsoleInvariant

(* A refresh ends.  When the provider took the refresh token, its answer is  *)
(* about to be saved, or lost.                                               *)
LEMMA RefreshEnds ==
  ASSUME ConsoleInvariant, NEW f \in Fetchers, NEW x \in FetcherStates, fetchers[f].at = "refresh",
         NEW s, s = fetchers[f].loaded.session, NEW gen \in {grants[s], grants[s] + 1},
         grants' = [grants EXCEPT ![s] = gen], fetchers' = [fetchers EXCEPT ![f] = x],
         blob' = blob, cli' = cli, consoleTime' = consoleTime, crossed' = crossed, orgOf' = orgOf,
         fetchesLeft' = fetchesLeft, lost' \in BOOLEAN, lost => lost',
         \/ x.at = "token" /\ ~x.ok /\ (lost' \/ gen = grants[s])
         \/ /\ x.at = "save" /\ x.loaded = fetchers[f].loaded
            /\ x.merged.session = s /\ x.merged.org = x.loaded.org
            /\ x.merged.refreshGen = gen /\ x.loaded.refreshGen <= gen
            /\ x.merged.until = x.when + Lifetime
            /\ x.merged.expires > 0 => x.merged.until = x.merged.expires
  PROVE  ConsoleInvariant'
<1>1. /\ ConsoleShape /\ BlobsAreBacked /\ MergedFromLoaded /\ LoginIsNew /\ RotationsBounded /\ NewestIsAtHand
      /\ TokenOutlivesItsUse /\ OrgStaysKnown
  BY DEF ConsoleInvariant
<1>2. /\ fetchers' \in [Fetchers -> FetcherStates] /\ fetchers'[f] = x
      /\ \A g \in Fetchers \ {f} : fetchers'[g] = fetchers[g]
  BY <1>1 DEF ConsoleShape
<1>3. /\ fetchers[f].loaded \in Blobs /\ Backed(fetchers[f].loaded, grants) /\ s # NoSession
      /\ x.at = "save" => x.merged \in Blobs
  BY <1>1, StatesByPlace DEF ConsoleShape, BlobsAreBacked
<1>4. s \in Sessions /\ grants \in [Sessions -> Nat] /\ grants[s] \in Nat /\ grants[s] > 0
  <2>1. fetchers[f].loaded.refreshGen \in Nat /\ s \in Sessions
    BY <1>3, BlobFields
  <2> QED BY <1>1, <1>3, <2>1 DEF ConsoleShape, Backed
<1>5. /\ gen \in Nat /\ gen > 0 /\ grants' \in [Sessions -> Nat] /\ grants'[s] = gen
      /\ \A t \in Sessions : grants[t] <= grants'[t] /\ (t # s => grants'[t] = grants[t])
  BY <1>4
<1>6. ConsoleShape'
  <2>1. orgOf # NoSession => grants'[orgOf] > 0
    <3>1. orgOf # NoSession => orgOf \in Sessions
      BY <1>1, ConsoleAssumption DEF ConsoleShape, Sessions, NoSession
    <3> QED BY <1>1, <1>4, <1>5, <3>1 DEF ConsoleShape
  <2> QED BY <1>1, <1>2, <1>5, <2>1 DEF ConsoleShape
<1>7. \A b \in Blobs : Backed(b, grants) => Backed(b, grants')
  BY <1>4, <1>5, BackedStays
<1>8. /\ blob \in Blobs /\ \A g \in Fetchers : fetchers[g].at \in {"refresh", "save", "org"} => fetchers[g].loaded \in Blobs
      /\ \A g \in Fetchers : fetchers[g].at = "save" => fetchers[g].merged \in Blobs
  BY <1>1, StatesByPlace DEF ConsoleShape
<1>9. BlobsAreBacked'
  <2>1. Backed(blob, grants')
    BY <1>1, <1>7, <1>8 DEF BlobsAreBacked
  <2>2. ASSUME NEW g \in Fetchers
        PROVE  /\ fetchers'[g].at \in {"refresh", "save", "org"} => Backed(fetchers'[g].loaded, grants')
               /\ fetchers'[g].at \in {"refresh", "save"} => fetchers'[g].loaded.session # NoSession
    <3>1. CASE g = f
      BY <1>2, <1>3, <1>7, <3>1
    <3>2. CASE g # f
      BY <1>1, <1>2, <1>7, <1>8, <3>2 DEF BlobsAreBacked
    <3> QED BY <3>1, <3>2
  <2> QED BY <2>1, <2>2 DEF BlobsAreBacked
<1>10. MergedFromLoaded'
  <2> SUFFICES ASSUME NEW g \in Fetchers, fetchers'[g].at = "save"
               PROVE  /\ Backed(fetchers'[g].merged, grants')
                      /\ fetchers'[g].merged.session = fetchers'[g].loaded.session
                      /\ fetchers'[g].merged.org = fetchers'[g].loaded.org
                      /\ fetchers'[g].merged.refreshGen >= fetchers'[g].loaded.refreshGen
                      /\ fetchers'[g].merged.until = fetchers'[g].when + Lifetime
    BY DEF MergedFromLoaded
  <2>1. CASE g = f
    <3>1. x.at = "save" /\ x.merged.session = s /\ s # NoSession /\ x.merged.refreshGen = gen
      BY <1>2, <1>3, <2>1
    <3>2. Backed(x.merged, grants')
      BY <1>5, <3>1 DEF Backed
    <3>3. x.loaded.refreshGen \in Nat
      BY <1>3, <3>1, BlobFields
    <3> QED BY <1>2, <1>5, <2>1, <3>1, <3>2, <3>3
  <2>2. CASE g # f
    BY <1>1, <1>2, <1>7, <1>8, <2>2 DEF MergedFromLoaded
  <2> QED BY <2>1, <2>2
<1>11. LoginOpened' = LoginOpened
  BY <1>4, <1>5 DEF LoginOpened
<1>12. LoginIsNew'
  <2>1. cli.at = "store" => cli.new \in Blobs /\ cli.new.session # s
    BY <1>1, StatesByPlace DEF LoginIsNew, ConsoleShape
  <2>2. cli.at = "store" => cli.new.session \in Sessions /\ Backed(cli.new, grants')
    BY <1>1, <1>7, <2>1, BlobFields DEF LoginIsNew
  <2>3. \A g \in Fetchers : fetchers'[g].at \in {"refresh", "save", "org"} =>
          fetchers[g].at \in {"refresh", "save", "org"} /\ fetchers'[g].loaded = fetchers[g].loaded
    BY <1>2
  <2> QED BY <1>1, <1>5, <1>11, <2>1, <2>2, <2>3 DEF LoginIsNew
<1>13. RotationsBounded'
  <2>1. Cardinality(Refreshing) \in Nat /\ Cardinality(Refreshing') = Cardinality(Refreshing) - 1
    BY <1>1, <1>2, RefreshingMoves
  <2>2. fetchesLeft \in Nat /\ MaxFetches \in Nat
    BY <1>1, ConsoleAssumption DEF ConsoleShape
  <2>3. \A t \in Sessions : grants'[t] <= grants[t] + 1 /\ grants[t] \in Nat /\ grants'[t] \in Nat
    BY <1>4, <1>5
  <2> QED BY <1>1, <2>1, <2>2, <2>3 DEF RotationsBounded
<1>14. NewestIsAtHand'
  <2> SUFFICES ASSUME ~crossed, ~lost', blob.session # NoSession
               PROVE  \/ blob.refreshGen = grants'[blob.session]
                      \/ \E g \in Fetchers : /\ fetchers'[g].at = "save" /\ fetchers'[g].merged.session = blob.session
                                             /\ fetchers'[g].merged.refreshGen = grants'[blob.session]
    BY DEF NewestIsAtHand
  <2>1. CASE x.at = "save" /\ blob.session = s
    BY <1>2, <1>5, <2>1
  <2>2. CASE ~(x.at = "save" /\ blob.session = s)
    <3>1. grants'[blob.session] = grants[blob.session]
      BY <1>4, <1>5, <1>8, <2>2, BlobFields
    <3> QED BY <1>1, <1>2, <3>1 DEF NewestIsAtHand
  <2> QED BY <2>1, <2>2
<1>15. TokenOutlivesItsUse' /\ OrgStaysKnown'
  BY <1>1, <1>2 DEF TokenOutlivesItsUse, OrgStaysKnown
<1> QED BY <1>6, <1>9, <1>10, <1>12, <1>13, <1>14, <1>15 DEF ConsoleInvariant

LEMMA LooksKeep ==
  ASSUME ConsoleInvariant, NEW f \in Fetchers, LoadTokens(f) \/ LoadForOrg(f) \/ UseToken(f)
  PROVE  ConsoleInvariant'
<1>1. ConsoleShape /\ BlobsAreBacked /\ blob \in Blobs /\ consoleTime \in Nat /\ fetchesLeft \in Nat
  BY DEF ConsoleInvariant, ConsoleShape
<1>2. ASSUME LoadTokens(f), TokenIsFresh(blob)
      PROVE  ConsoleInvariant'
  <2> DEFINE x == Returned(blob, consoleTime, TRUE)
  <2>1. /\ x \in FetcherStates /\ x.at = "token" /\ x.until = blob.until /\ x.when = consoleTime
        /\ x.timed = (blob.expires > 0)
    BY <1>1, BlobFields DEF Returned, FetcherStates
  <2>2. x.timed => x.until > x.when + Skew
    <3>1. Backed(blob, grants) /\ blob.expires \in Nat
      BY <1>1, BlobFields DEF BlobsAreBacked
    <3>2. blob.expires > 0 => blob.until = blob.expires /\ blob.expires # 0
      BY <3>1 DEF Backed
    <3>3. blob.expires # 0 => blob.expires > consoleTime + Skew
      BY <1>2 DEF TokenIsFresh
    <3> QED BY <2>1, <3>2, <3>3
  <2>3. /\ fetchers[f].at = "idle" /\ fetchers' = [fetchers EXCEPT ![f] = x]
        /\ grants' = grants /\ blob' = blob /\ cli' = cli /\ consoleTime' = consoleTime
        /\ crossed' = crossed /\ lost' = lost /\ orgOf' = orgOf
        /\ fetchesLeft' = fetchesLeft - 1 /\ fetchesLeft > 0
    BY <1>2 DEF LoadTokens, Free
  <2>4. fetchesLeft' \in Nat /\ fetchesLeft' <= fetchesLeft
    BY <1>1, <2>3
  <2> HIDE DEF x
  <2> QED BY <2>1, <2>2, <2>3, <2>4, FetcherLooks
<1>3. ASSUME LoadTokens(f), ~TokenIsFresh(blob)
      PROVE  ConsoleInvariant'
  <2> DEFINE x == [at |-> "refresh", loaded |-> blob]
  <2>1. x \in FetcherStates /\ x.at = "refresh" /\ x.loaded = blob
    BY <1>1 DEF FetcherStates
  <2>2. /\ fetchers[f].at = "idle" /\ fetchers' = [fetchers EXCEPT ![f] = x]
        /\ grants' = grants /\ blob' = blob /\ cli' = cli /\ consoleTime' = consoleTime
        /\ crossed' = crossed /\ lost' = lost /\ orgOf' = orgOf
        /\ fetchesLeft' = fetchesLeft - 1 /\ fetchesLeft > 0 /\ blob.session # NoSession
    BY <1>3 DEF LoadTokens, Free
  <2>3. fetchesLeft' \in Nat /\ fetchesLeft' <= fetchesLeft
    BY <1>1, <2>2
  <2> HIDE DEF x
  <2> QED BY <2>1, <2>2, <2>3, FetcherLooks
<1>4. ASSUME LoadForOrg(f)
      PROVE  ConsoleInvariant'
  <2> DEFINE x == [at |-> "org", loaded |-> blob]
  <2>1. x \in FetcherStates /\ x.at = "org" /\ x.loaded = blob
    BY <1>1 DEF FetcherStates
  <2>2. /\ fetchers[f].at = "token" /\ fetchers' = [fetchers EXCEPT ![f] = x]
        /\ grants' = grants /\ blob' = blob /\ cli' = cli /\ consoleTime' = consoleTime
        /\ crossed' = crossed /\ lost' = lost /\ orgOf' = orgOf /\ fetchesLeft' = fetchesLeft
    BY <1>4 DEF LoadForOrg
  <2>3. fetchesLeft' \in Nat /\ fetchesLeft' <= fetchesLeft
    BY <1>1, <2>2
  <2> HIDE DEF x
  <2> QED BY <2>1, <2>2, <2>3, FetcherLooks
<1>5. ASSUME UseToken(f)
      PROVE  ConsoleInvariant'
  <2>1. Free \in FetcherStates /\ Free.at = "idle"
    BY DEF FetcherStates, Free
  <2>2. /\ fetchers[f].at = "token" /\ fetchers' = [fetchers EXCEPT ![f] = Free]
        /\ grants' = grants /\ blob' = blob /\ cli' = cli /\ consoleTime' = consoleTime
        /\ crossed' = crossed /\ lost' = lost /\ orgOf' = orgOf /\ fetchesLeft' = fetchesLeft
    BY <1>5 DEF UseToken
  <2>3. fetchesLeft' \in Nat /\ fetchesLeft' <= fetchesLeft
    BY <1>1, <2>2
  <2> QED BY <2>1, <2>2, <2>3, FetcherLooks
<1> QED BY <1>2, <1>3, <1>4, <1>5

(* merge_tokens keeps the session and the org id, and takes the answer's     *)
(* refresh token and expiry.                                                 *)
LEMMA MergeFields ==
  ASSUME NEW b \in Blobs, NEW gen \in Nat, NEW timed \in BOOLEAN, consoleTime \in Nat
  PROVE  /\ Merge(b, gen, timed) \in Blobs
         /\ Merge(b, gen, timed).session = b.session /\ Merge(b, gen, timed).org = b.org
         /\ Merge(b, gen, timed).refreshGen = gen
         /\ Merge(b, gen, timed).until = consoleTime + Lifetime
         /\ Merge(b, gen, timed).expires > 0 => Merge(b, gen, timed).until = Merge(b, gen, timed).expires
<1>1. consoleTime + Lifetime \in Nat /\ 0 \in Nat
  BY ConsoleAssumption
<1>2. Merge(b, gen, timed) = [b EXCEPT !.refreshGen = gen, !.until = consoleTime + Lifetime,
                                       !.expires = IF timed THEN consoleTime + Lifetime ELSE 0]
  BY DEF Merge
<1>3. PICK e \in Nat : e = (IF timed THEN consoleTime + Lifetime ELSE 0)
  BY <1>1
<1> DEFINE r == [b EXCEPT !.refreshGen = gen, !.until = consoleTime + Lifetime, !.expires = e]
<1>4. /\ r \in Blobs /\ r.session = b.session /\ r.org = b.org /\ r.refreshGen = gen
      /\ r.until = consoleTime + Lifetime /\ r.expires = e
  BY <1>1 DEF Blobs
<1>5. Merge(b, gen, timed) = r
  BY <1>2, <1>3
<1>6. e > 0 => consoleTime + Lifetime = e
  BY <1>3
<1> HIDE DEF r
<1> QED BY <1>4, <1>5, <1>6

LEMMA RefreshKeeps ==
  ASSUME ConsoleInvariant, NEW f \in Fetchers, NEW rotate \in BOOLEAN,
         RefreshFails(f, rotate) \/ \E timed \in BOOLEAN : RefreshAnswered(f, rotate, timed)
  PROVE  ConsoleInvariant'
<1> DEFINE b == fetchers[f].loaded
<1>1. ConsoleShape /\ BlobsAreBacked
  BY DEF ConsoleInvariant
<1>2. /\ fetchers[f].at = "refresh" /\ b \in Blobs /\ b.session \in Sessions /\ b.refreshGen \in Nat
      /\ consoleTime \in Nat /\ grants[b.session] \in Nat /\ grants \in [Sessions -> Nat] /\ lost \in BOOLEAN
  <2>1. fetchers[f].at = "refresh"
    BY DEF RefreshFails, RefreshAnswered
  <2>2. b \in Blobs /\ b.session # NoSession
    BY <1>1, <2>1, StatesByPlace DEF ConsoleShape, BlobsAreBacked
  <2> QED BY <1>1, <2>1, <2>2, BlobFields DEF ConsoleShape
<1>3. /\ blob' = blob /\ cli' = cli /\ consoleTime' = consoleTime /\ crossed' = crossed /\ orgOf' = orgOf
      /\ fetchesLeft' = fetchesLeft
  BY DEF RefreshFails, RefreshAnswered
<1> HIDE DEF b
<1>4. ASSUME RefreshFails(f, rotate)
      PROVE  ConsoleInvariant'
  <2> DEFINE x == Returned(b, consoleTime, FALSE)
             gen == IF grants[b.session] = b.refreshGen /\ rotate THEN grants[b.session] + 1 ELSE grants[b.session]
  <2>1. x \in FetcherStates /\ x.at = "token" /\ ~x.ok
    BY <1>2, BlobFields DEF Returned, FetcherStates
  <2>2. fetchers' = [fetchers EXCEPT ![f] = x]
    BY <1>4 DEF RefreshFails, b
  <2>3. /\ grants' = [grants EXCEPT ![b.session] = gen] /\ lost' \in BOOLEAN /\ (lost => lost')
        /\ lost' \/ gen = grants[b.session]
    <3>1. CASE grants[b.session] # b.refreshGen
      BY <1>2, <1>4, <3>1 DEF RefreshFails, b
    <3>2. CASE grants[b.session] = b.refreshGen /\ rotate
      BY <1>2, <1>4, <3>2 DEF RefreshFails, b
    <3>3. CASE grants[b.session] = b.refreshGen /\ ~rotate
      BY <1>2, <1>4, <3>3 DEF RefreshFails, b
    <3> QED BY <3>1, <3>2, <3>3
  <2>4. gen \in {grants[b.session], grants[b.session] + 1}
    OBVIOUS
  <2> HIDE DEF x, gen
  <2>5. b.session = fetchers[f].loaded.session
    BY DEF b
  <2> QED BY <1>2, <1>3, <2>1, <2>2, <2>3, <2>4, <2>5, RefreshEnds
<1>5. ASSUME NEW timed \in BOOLEAN, RefreshAnswered(f, rotate, timed)
      PROVE  ConsoleInvariant'
  <2> DEFINE gen == IF rotate THEN b.refreshGen + 1 ELSE b.refreshGen
             x == [at |-> "save", loaded |-> b, merged |-> Merge(b, gen, timed), when |-> consoleTime]
  <2>1. /\ gen \in {grants[b.session], grants[b.session] + 1} /\ gen \in Nat /\ b.refreshGen <= gen
        /\ grants' = [grants EXCEPT ![b.session] = gen] /\ fetchers' = [fetchers EXCEPT ![f] = x] /\ lost' = lost
    BY <1>2, <1>5 DEF RefreshAnswered, b
  <2> HIDE DEF gen
  <2>2. /\ Merge(b, gen, timed) \in Blobs
        /\ Merge(b, gen, timed).session = b.session /\ Merge(b, gen, timed).org = b.org
        /\ Merge(b, gen, timed).refreshGen = gen
        /\ Merge(b, gen, timed).until = consoleTime + Lifetime
        /\ Merge(b, gen, timed).expires > 0 => Merge(b, gen, timed).until = Merge(b, gen, timed).expires
    BY <1>2, <2>1, MergeFields
  <2>3. x \in FetcherStates
    BY <1>2, <2>2 DEF FetcherStates
  <2>4. /\ x.at = "save" /\ x.loaded = fetchers[f].loaded /\ x.loaded = b
        /\ x.merged = Merge(b, gen, timed) /\ x.when = consoleTime
    BY DEF b
  <2> HIDE DEF x
  <2>5. /\ x.merged.session = b.session /\ x.merged.org = x.loaded.org
        /\ x.merged.refreshGen = gen /\ x.loaded.refreshGen <= gen
        /\ x.merged.until = x.when + Lifetime
        /\ x.merged.expires > 0 => x.merged.until = x.merged.expires
    BY <2>1, <2>2, <2>4
  <2>6. b.session = fetchers[f].loaded.session
    BY DEF b
  <2> QED BY <1>2, <1>3, <2>1, <2>3, <2>4, <2>5, <2>6, RefreshEnds
<1> QED BY <1>4, <1>5

(* A fetcher replaces the stored blob by what it made of the one it loaded.  *)
(* A save that does not meet that one marks the store as crossed; so one     *)
(* that brings back an older refresh token does.                             *)
LEMMA SaveEnds ==
  ASSUME ConsoleInvariant, NEW f \in Fetchers, NEW x \in FetcherStates, NEW b \in Blobs,
         fetchers[f].at \in {"save", "org"}, fetchers' = [fetchers EXCEPT ![f] = x],
         x.at \in {"idle", "token"}, x.at = "token" /\ x.ok /\ x.timed => x.until > x.when + Skew,
         blob' = b, Backed(b, grants), b.session = fetchers[f].loaded.session,
         b.refreshGen >= fetchers[f].loaded.refreshGen,
         IF fetchers[f].at = "save" THEN b = fetchers[f].merged ELSE b.refreshGen = fetchers[f].loaded.refreshGen,
         b.org \/ (b.org = fetchers[f].loaded.org /\ orgOf' = orgOf),
         orgOf' \in {orgOf, b.session}, crossed' = (crossed \/ blob # fetchers[f].loaded),
         grants' = grants, cli' = cli, consoleTime' = consoleTime, lost' = lost, fetchesLeft' = fetchesLeft
  PROVE  ConsoleInvariant'
<1>1. /\ ConsoleShape /\ BlobsAreBacked /\ MergedFromLoaded /\ LoginIsNew /\ RotationsBounded /\ NewestIsAtHand
      /\ TokenOutlivesItsUse /\ OrgStaysKnown
  BY DEF ConsoleInvariant
<1>2. /\ fetchers' \in [Fetchers -> FetcherStates] /\ fetchers'[f] = x
      /\ \A g \in Fetchers \ {f} : fetchers'[g] = fetchers[g]
  BY <1>1 DEF ConsoleShape
<1>3. fetchers[f].loaded \in Blobs /\ blob \in Blobs
  BY <1>1, StatesByPlace DEF ConsoleShape
<1>4. /\ b.session \in 0..MaxLogins /\ b.refreshGen \in Nat
      /\ b.session # NoSession => b.session \in Sessions /\ grants[b.session] \in Nat /\ grants[b.session] > 0
  <2>1. b.session \in 0..MaxLogins
    BY DEF Blobs
  <2>2. b.session # NoSession => b.session \in Sessions /\ grants[b.session] \in Nat
    BY <1>1, BlobFields DEF ConsoleShape
  <2>3. b.refreshGen \in Nat
    BY BlobFields
  <2> QED BY <2>1, <2>2, <2>3 DEF Backed
<1>5. ConsoleShape'
  <2>1. orgOf' \in 0..MaxLogins /\ (orgOf' # NoSession => grants'[orgOf'] > 0)
    BY <1>1, <1>4 DEF ConsoleShape
  <2>2. crossed' \in BOOLEAN
    BY <1>1 DEF ConsoleShape
  <2> QED BY <1>1, <1>2, <2>1, <2>2 DEF ConsoleShape
<1>6. BlobsAreBacked' /\ MergedFromLoaded' /\ TokenOutlivesItsUse'
  <2>1. BlobsAreBacked'
    BY <1>1, <1>2 DEF BlobsAreBacked
  <2>2. MergedFromLoaded' /\ TokenOutlivesItsUse'
    BY <1>1, <1>2 DEF MergedFromLoaded, TokenOutlivesItsUse
  <2> QED BY <2>1, <2>2
<1>7. LoginOpened' = LoginOpened
  BY DEF LoginOpened
<1>8. LoginIsNew'
  BY <1>1, <1>2, <1>7 DEF LoginIsNew
<1>9. RotationsBounded'
  <2>1. Refreshing' = Refreshing
    BY <1>1, <1>2, RefreshingMoves
  <2> QED BY <1>1, <2>1 DEF RotationsBounded
<1>10. NewestIsAtHand'
  <2> SUFFICES ASSUME ~crossed, blob = fetchers[f].loaded, ~lost, b.session # NoSession
               PROVE  \/ b.refreshGen = grants[b.session]
                      \/ \E g \in Fetchers : /\ fetchers'[g].at = "save" /\ fetchers'[g].merged.session = b.session
                                             /\ fetchers'[g].merged.refreshGen = grants[b.session]
    BY DEF NewestIsAtHand
  <2>1. blob.session = b.session /\ blob.refreshGen \in Nat /\ blob.refreshGen <= b.refreshGen
    BY <1>3, BlobFields
  <2>2. CASE blob.refreshGen = grants[blob.session]
    <3>1. b.refreshGen <= grants[b.session]
      BY DEF Backed
    <3> QED BY <1>4, <2>1, <2>2, <3>1
  <2>3. CASE blob.refreshGen # grants[blob.session]
    <3>1. PICK g \in Fetchers : /\ fetchers[g].at = "save" /\ fetchers[g].merged.session = blob.session
                                /\ fetchers[g].merged.refreshGen = grants[blob.session]
      BY <1>1, <2>1, <2>3 DEF NewestIsAtHand
    <3>2. CASE g = f
      BY <2>1, <3>1, <3>2
    <3>3. CASE g # f
      BY <1>2, <2>1, <3>1, <3>3
    <3> QED BY <3>2, <3>3
  <2> QED BY <2>2, <2>3
<1>11. OrgStaysKnown'
  <2> SUFFICES ASSUME b.session # NoSession, b.session = orgOf', ~crossed, blob = fetchers[f].loaded
               PROVE  b.org
    BY DEF OrgStaysKnown
  <2> QED BY <1>1 DEF OrgStaysKnown
<1> QED BY <1>5, <1>6, <1>8, <1>9, <1>10, <1>11 DEF ConsoleInvariant

(* A save that fails loses the answer; the new token is used all the same.   *)
LEMMA SaveLost ==
  ASSUME ConsoleInvariant, NEW f \in Fetchers, NEW x \in FetcherStates,
         fetchers[f].at = "save", fetchers' = [fetchers EXCEPT ![f] = x],
         x.at = "token", x.until > x.when + Skew, lost' = TRUE,
         blob' = blob, orgOf' = orgOf, crossed' = crossed,
         grants' = grants, cli' = cli, consoleTime' = consoleTime, fetchesLeft' = fetchesLeft
  PROVE  ConsoleInvariant'
<1>1. /\ ConsoleShape /\ BlobsAreBacked /\ MergedFromLoaded /\ LoginIsNew /\ RotationsBounded /\ NewestIsAtHand
      /\ TokenOutlivesItsUse /\ OrgStaysKnown
  BY DEF ConsoleInvariant
<1>2. /\ fetchers' \in [Fetchers -> FetcherStates] /\ fetchers'[f] = x
      /\ \A g \in Fetchers \ {f} : fetchers'[g] = fetchers[g]
  BY <1>1 DEF ConsoleShape
<1>3. ConsoleShape'
  BY <1>1, <1>2 DEF ConsoleShape
<1>4. BlobsAreBacked' /\ MergedFromLoaded' /\ TokenOutlivesItsUse'
  BY <1>1, <1>2 DEF BlobsAreBacked, MergedFromLoaded, TokenOutlivesItsUse
<1>5. LoginOpened' = LoginOpened
  BY DEF LoginOpened
<1>6. LoginIsNew'
  BY <1>1, <1>2, <1>5 DEF LoginIsNew
<1>7. RotationsBounded'
  <2>1. Refreshing' = Refreshing
    BY <1>1, <1>2, RefreshingMoves
  <2> QED BY <1>1, <2>1 DEF RotationsBounded
<1>8. NewestIsAtHand' /\ OrgStaysKnown'
  BY <1>1 DEF NewestIsAtHand, OrgStaysKnown
<1> QED BY <1>3, <1>4, <1>6, <1>7, <1>8 DEF ConsoleInvariant

LEMMA SavesKeep ==
  ASSUME ConsoleInvariant, NEW f \in Fetchers, SaveOrg(f) \/ \E ok \in BOOLEAN : SaveTokens(f, ok)
  PROVE  ConsoleInvariant'
<1>1. ConsoleShape /\ BlobsAreBacked /\ MergedFromLoaded
  BY DEF ConsoleInvariant
<1>2. ASSUME SaveOrg(f)
      PROVE  ConsoleInvariant'
  <2> DEFINE l == fetchers[f].loaded
             b == [l EXCEPT !.org = TRUE]
  <2>1. fetchers[f].at = "org" /\ l \in Blobs /\ Backed(l, grants)
    BY <1>1, <1>2, StatesByPlace DEF SaveOrg, ConsoleShape, BlobsAreBacked
  <2>2. /\ blob' = b /\ crossed' = (crossed \/ blob # l) /\ orgOf' = l.session /\ fetchers' = [fetchers EXCEPT ![f] = Free]
        /\ grants' = grants /\ cli' = cli /\ consoleTime' = consoleTime /\ lost' = lost /\ fetchesLeft' = fetchesLeft
    BY <1>2 DEF SaveOrg, Saving
  <2> HIDE DEF l
  <2>3. /\ b \in Blobs /\ b.session = l.session /\ b.refreshGen = l.refreshGen /\ b.org
        /\ b.until = l.until /\ b.expires = l.expires
    BY <2>1 DEF Blobs
  <2>4. Backed(b, grants) /\ b.refreshGen >= l.refreshGen
    <3>1. l.refreshGen \in Nat
      BY <2>1, BlobFields
    <3> HIDE DEF b
    <3> QED BY <2>1, <2>3, <3>1 DEF Backed
  <2>5. Free \in FetcherStates /\ Free.at = "idle"
    BY DEF FetcherStates, Free
  <2> HIDE DEF b
  <2>6. l = fetchers[f].loaded
    BY DEF l
  <2> QED BY <2>1, <2>2, <2>3, <2>4, <2>5, <2>6, SaveEnds
<1>3. ASSUME NEW ok \in BOOLEAN, SaveTokens(f, ok)
      PROVE  ConsoleInvariant'
  <2> DEFINE w == fetchers[f]
             x == Returned(w.merged, w.when, TRUE)
  <2>1. w.at = "save" /\ w.merged \in Blobs /\ w.loaded \in Blobs /\ w.when \in Nat
    BY <1>1, <1>3, StatesByPlace DEF SaveTokens, ConsoleShape
  <2>2. /\ Backed(w.merged, grants) /\ w.merged.session = w.loaded.session /\ w.merged.org = w.loaded.org
        /\ w.merged.refreshGen >= w.loaded.refreshGen /\ w.merged.until = w.when + Lifetime
    BY <1>1, <2>1 DEF MergedFromLoaded
  <2>3. /\ x \in FetcherStates /\ x.at = "token" /\ x.until = w.merged.until /\ x.when = w.when
    BY <2>1, BlobFields DEF Returned, FetcherStates
  <2>4. x.until > x.when + Skew
    <3>1. x.until = x.when + Lifetime /\ x.when \in Nat
      BY <2>1, <2>2, <2>3
    <3>2. \A t \in Nat : t + Lifetime > t + Skew
      BY ConsoleAssumption
    <3> HIDE DEF x
    <3> QED BY <3>1, <3>2
  <2>5. /\ fetchers' = [fetchers EXCEPT ![f] = x]
        /\ orgOf' = orgOf /\ grants' = grants /\ cli' = cli /\ consoleTime' = consoleTime /\ fetchesLeft' = fetchesLeft
    BY <1>3 DEF SaveTokens
  <2>6. CASE ok
    <3>1. blob' = w.merged /\ crossed' = (crossed \/ blob # w.loaded) /\ lost' = lost
      BY <1>3, <2>6 DEF SaveTokens, Saving
    <3> HIDE DEF x
    <3> QED BY <2>1, <2>2, <2>3, <2>4, <2>5, <3>1, SaveEnds
  <2>7. CASE ~ok
    <3>1. blob' = blob /\ crossed' = crossed /\ lost' = TRUE
      BY <1>3, <2>7 DEF SaveTokens
    <3> HIDE DEF x
    <3> QED BY <2>1, <2>3, <2>4, <2>5, <3>1, SaveLost
  <2> QED BY <2>6, <2>7
<1> QED BY <1>2, <1>3

(* The command line waits, gives up, or is given a callback to wait for.     *)
LEMMA CommandWaits ==
  ASSUME ConsoleInvariant, NEW x \in CliStates, cli' = x, x.at # "store",
         x.at = "pkce" => LoginOpened # Sessions,
         x.at = "poll" => x.elapsed <= PollDeadline + x.wait,
         grants' = grants, blob' = blob, fetchers' = fetchers, consoleTime' \in Nat,
         crossed' = crossed, lost' = lost, orgOf' = orgOf, fetchesLeft' = fetchesLeft
  PROVE  ConsoleInvariant'
<1>1. /\ ConsoleShape /\ BlobsAreBacked /\ MergedFromLoaded /\ LoginIsNew /\ RotationsBounded /\ NewestIsAtHand
      /\ TokenOutlivesItsUse /\ OrgStaysKnown
  BY DEF ConsoleInvariant
<1>2. ConsoleShape'
  BY <1>1 DEF ConsoleShape
<1>3. BlobsAreBacked' /\ MergedFromLoaded' /\ TokenOutlivesItsUse' /\ OrgStaysKnown' /\ NewestIsAtHand'
  BY <1>1 DEF BlobsAreBacked, MergedFromLoaded, TokenOutlivesItsUse, OrgStaysKnown, NewestIsAtHand
<1>4. LoginOpened' = LoginOpened /\ Refreshing' = Refreshing
  BY DEF LoginOpened, Refreshing
<1>5. LoginIsNew' /\ RotationsBounded'
  BY <1>1, <1>4 DEF LoginIsNew, RotationsBounded
<1> QED BY <1>2, <1>3, <1>5 DEF ConsoleInvariant

LEMMA CommandKeeps ==
  ASSUME ConsoleInvariant, StartDevice \/ PollStep \/ LoginFails \/ StartPkce
  PROVE  ConsoleInvariant'
<1>1. ConsoleShape /\ cli \in CliStates /\ consoleTime \in Nat
  BY DEF ConsoleInvariant, ConsoleShape
<1>2. /\ grants' = grants /\ blob' = blob /\ fetchers' = fetchers /\ consoleTime' = consoleTime
      /\ crossed' = crossed /\ lost' = lost /\ orgOf' = orgOf /\ fetchesLeft' = fetchesLeft
  BY DEF StartDevice, PollStep, PollExpires, PollAgain, LoginFails, StartPkce
<1>3. ASSUME PollExpires \/ LoginFails
      PROVE  ConsoleInvariant'
  <2>1. CliFree \in CliStates /\ CliFree.at = "idle" /\ cli' = CliFree
    BY <1>3 DEF PollExpires, LoginFails, CliStates, CliFree
  <2> QED BY <1>1, <1>2, <2>1, CommandWaits
<1>4. ASSUME StartPkce
      PROVE  ConsoleInvariant'
  <2> DEFINE x == [at |-> "pkce"]
  <2>1. x \in CliStates /\ x.at = "pkce" /\ cli' = x /\ LoginOpened # Sessions
    BY <1>4 DEF StartPkce, CliStates
  <2> HIDE DEF x
  <2> QED BY <1>1, <1>2, <2>1, CommandWaits
<1>5. ASSUME StartDevice
      PROVE  ConsoleInvariant'
  <2> DEFINE x == [at |-> "poll", elapsed |-> 0, wait |-> PollInterval]
  <2>1. x \in CliStates /\ x.at = "poll" /\ x.elapsed <= PollDeadline + x.wait
    BY ConsoleAssumption DEF CliStates
  <2>2. cli' = x
    BY <1>5 DEF StartDevice
  <2> HIDE DEF x
  <2> QED BY <1>1, <1>2, <2>1, <2>2, CommandWaits
<1>6. ASSUME NEW slow \in BOOLEAN, PollAgain(slow)
      PROVE  ConsoleInvariant'
  <2>1. /\ cli.at = "poll" /\ cli.elapsed < PollDeadline /\ cli.elapsed \in Nat /\ cli.wait \in Nat
        /\ cli = [at |-> "poll", elapsed |-> cli.elapsed, wait |-> cli.wait]
    BY <1>1, <1>6, StatesByPlace DEF PollAgain
  <2>2. PICK e \in Nat, w \in Nat : e = cli.elapsed + cli.wait /\ w = (IF slow THEN cli.wait + SlowDown ELSE cli.wait)
    BY <2>1, ConsoleAssumption
  <2> DEFINE x == [at |-> "poll", elapsed |-> e, wait |-> w]
  <2>3. x \in CliStates /\ x.at = "poll" /\ x.elapsed = e /\ x.wait = w
    BY DEF CliStates
  <2>4. cli' = x
    <3>1. cli' = [cli EXCEPT !.elapsed = e, !.wait = w]
      BY <1>6, <2>2 DEF PollAgain
    <3> QED BY <2>1, <3>1
  <2>5. e <= PollDeadline + w
    BY <2>1, <2>2, ConsoleAssumption
  <2> HIDE DEF x
  <2> QED BY <1>1, <1>2, <2>3, <2>4, <2>5, CommandWaits
<1> QED BY <1>3, <1>4, <1>5, <1>6 DEF PollStep

(* A login opens a session that nobody knows of yet.                         *)
LEMMA LoginKeeps ==
  ASSUME ConsoleInvariant, NEW timed \in BOOLEAN, Approved(timed) \/ CompletePkce(timed)
  PROVE  ConsoleInvariant'
<1> DEFINE s == NewSession
           x == [at |-> "store", new |-> Granted(timed)]
<1>1. /\ ConsoleShape /\ BlobsAreBacked /\ MergedFromLoaded /\ LoginIsNew /\ RotationsBounded /\ NewestIsAtHand
      /\ TokenOutlivesItsUse /\ OrgStaysKnown
  BY DEF ConsoleInvariant
<1>2. /\ LoginOpened # Sessions /\ grants' = [grants EXCEPT ![s] = 1] /\ cli' = x
      /\ blob' = blob /\ fetchers' = fetchers /\ consoleTime' = consoleTime
      /\ crossed' = crossed /\ lost' = lost /\ orgOf' = orgOf /\ fetchesLeft' = fetchesLeft
  BY <1>1 DEF Approved, CompletePkce, LoginIsNew
<1>3. s \in Sessions /\ grants[s] = 0 /\ grants \in [Sessions -> Nat]
  <2>1. s \in Sessions \ LoginOpened
    BY <1>2, NewSessionIsNew
  <2> QED BY <1>1, <2>1 DEF ConsoleShape, LoginOpened
<1> HIDE DEF s
<1>4. /\ grants' \in [Sessions -> Nat] /\ grants'[s] = 1
      /\ \A t \in Sessions : grants[t] <= grants'[t] /\ (t # s => grants'[t] = grants[t])
  BY <1>2, <1>3
<1>5. s # NoSession
  BY <1>3, ConsoleAssumption DEF Sessions, NoSession
<1>6. \A b \in Blobs : Backed(b, grants) => b.session # s /\ Backed(b, grants')
  <2>1. \A b \in Blobs : Backed(b, grants) => Backed(b, grants')
    BY <1>3, <1>4, BackedStays
  <2>2. ASSUME NEW b \in Blobs, Backed(b, grants), b.session = s
        PROVE  FALSE
    <3>1. b.refreshGen > 0 /\ b.refreshGen <= grants[s] /\ b.refreshGen \in Nat
      BY <1>5, <2>2, BlobFields DEF Backed
    <3> QED BY <1>3, <3>1
  <2> QED BY <2>1, <2>2
<1>7. /\ blob \in Blobs /\ \A g \in Fetchers : fetchers[g].at \in {"refresh", "save", "org"} => fetchers[g].loaded \in Blobs
      /\ \A g \in Fetchers : fetchers[g].at = "save" => fetchers[g].merged \in Blobs
  BY <1>1, StatesByPlace DEF ConsoleShape
<1>8. /\ x.new \in Blobs /\ x.new.session = s /\ x.new.refreshGen = 1
      /\ x.new.expires > 0 => x.new.until = x.new.expires
  <2> DEFINE n == [NoBlob EXCEPT !.session = s]
  <2>1. n \in Blobs /\ n.session = s
    <3>1. NoBlob \in Blobs
      BY ConsoleAssumption DEF NoBlob, Blobs, NoSession
    <3>2. s \in 0..MaxLogins
      BY <1>3, ConsoleAssumption DEF Sessions
    <3> QED BY <3>1, <3>2 DEF Blobs
  <2>2. x.new = Merge(n, 1, timed)
    BY DEF Granted, s
  <2>3. consoleTime \in Nat /\ 1 \in Nat
    BY <1>1 DEF ConsoleShape
  <2> HIDE DEF n, x
  <2> QED BY <2>1, <2>2, <2>3, MergeFields
<1>9. x \in CliStates /\ x.at = "store"
  BY <1>8 DEF CliStates
<1> HIDE DEF x
<1>10. orgOf # s /\ (orgOf # NoSession => orgOf \in Sessions)
  <2>1. orgOf # NoSession => orgOf \in Sessions
    BY <1>1, ConsoleAssumption DEF ConsoleShape, Sessions, NoSession
  <2> QED BY <1>1, <1>3, <1>5, <2>1 DEF ConsoleShape
<1>11. ConsoleShape'
  <2>1. orgOf # NoSession => grants'[orgOf] > 0
    BY <1>1, <1>4, <1>10 DEF ConsoleShape
  <2> QED BY <1>1, <1>2, <1>4, <1>9, <2>1 DEF ConsoleShape
<1>12. BlobsAreBacked' /\ MergedFromLoaded'
  <2>1. BlobsAreBacked'
    BY <1>1, <1>2, <1>6, <1>7 DEF BlobsAreBacked
  <2>2. MergedFromLoaded'
    BY <1>1, <1>2, <1>6, <1>7 DEF MergedFromLoaded
  <2> QED BY <2>1, <2>2
<1>13. LoginIsNew'
  <2>1. Backed(x.new, grants')
    BY <1>4, <1>5, <1>8 DEF Backed
  <2>2. blob.session # s
    BY <1>1, <1>6, <1>7 DEF BlobsAreBacked
  <2>3. \A g \in Fetchers : fetchers[g].at \in {"refresh", "save", "org"} => fetchers[g].loaded.session # s
    BY <1>1, <1>6, <1>7 DEF BlobsAreBacked
  <2> QED BY <1>2, <1>4, <1>5, <1>8, <1>9, <1>10, <2>1, <2>2, <2>3 DEF LoginIsNew
<1>14. RotationsBounded'
  <2>1. Refreshing' = Refreshing
    BY <1>2 DEF Refreshing
  <2>2. Cardinality(Refreshing) \in Nat
    <3>1. Refreshing \subseteq Fetchers
      BY DEF Refreshing
    <3> QED BY <3>1, ConsoleAssumption, FS_Subset, FS_CardinalityType
  <2>3. fetchesLeft \in Nat /\ MaxFetches \in Nat
    BY <1>1, ConsoleAssumption DEF ConsoleShape
  <2>4. 1 + fetchesLeft + Cardinality(Refreshing) <= MaxFetches + 1
    BY <1>1, <2>2, <2>3 DEF RotationsBounded
  <2> QED BY <1>1, <1>2, <1>4, <2>1, <2>4 DEF RotationsBounded
<1>15. NewestIsAtHand'
  <2>1. blob.session # NoSession => grants'[blob.session] = grants[blob.session]
    <3>1. blob.session # s /\ (blob.session # NoSession => blob.session \in Sessions)
      BY <1>1, <1>6, <1>7, BlobFields DEF BlobsAreBacked
    <3> QED BY <1>4, <3>1
  <2> QED BY <1>1, <1>2, <2>1 DEF NewestIsAtHand
<1>16. TokenOutlivesItsUse' /\ OrgStaysKnown'
  BY <1>1, <1>2 DEF TokenOutlivesItsUse, OrgStaysKnown
<1> QED BY <1>11, <1>12, <1>13, <1>14, <1>15, <1>16 DEF ConsoleInvariant

(* The new session is stored: the refresh token is the one it was granted.   *)
LEMMA StoreSessionKeeps ==
  ASSUME ConsoleInvariant, StoreSession
  PROVE  ConsoleInvariant'
<1>1. /\ ConsoleShape /\ BlobsAreBacked /\ MergedFromLoaded /\ LoginIsNew /\ RotationsBounded /\ NewestIsAtHand
      /\ TokenOutlivesItsUse /\ OrgStaysKnown
  BY DEF ConsoleInvariant
<1>2. /\ cli.at = "store" /\ blob' = cli.new /\ lost' = FALSE
      /\ crossed' = (\E f \in Fetchers : fetchers[f].at \in {"refresh", "save", "org"})
      /\ cli' = CliFree
      /\ grants' = grants /\ fetchers' = fetchers /\ consoleTime' = consoleTime
      /\ orgOf' = orgOf /\ fetchesLeft' = fetchesLeft
  BY DEF StoreSession
<1>3. /\ cli.new \in Blobs /\ cli.new.session # NoSession /\ Backed(cli.new, grants)
      /\ cli.new.refreshGen = 1 /\ grants[cli.new.session] = 1 /\ cli.new.session # orgOf
  BY <1>1, <1>2, StatesByPlace DEF ConsoleShape, LoginIsNew
<1>4. CliFree \in CliStates /\ CliFree.at = "idle"
  BY DEF CliStates, CliFree
<1>5. crossed' \in BOOLEAN
  BY <1>2
<1>6. ConsoleShape'
  BY <1>1, <1>2, <1>3, <1>4, <1>5 DEF ConsoleShape
<1>7. BlobsAreBacked' /\ MergedFromLoaded' /\ TokenOutlivesItsUse'
  BY <1>1, <1>2, <1>3 DEF BlobsAreBacked, MergedFromLoaded, TokenOutlivesItsUse
<1>8. LoginIsNew'
  BY <1>2, <1>4 DEF LoginIsNew
<1>9. RotationsBounded'
  BY <1>1, <1>2 DEF RotationsBounded, Refreshing
<1>10. NewestIsAtHand' /\ OrgStaysKnown'
  BY <1>2, <1>3 DEF NewestIsAtHand, OrgStaysKnown
<1> QED BY <1>6, <1>7, <1>8, <1>9, <1>10 DEF ConsoleInvariant

LEMMA ClearSessionKeeps ==
  ASSUME ConsoleInvariant, ClearSession
  PROVE  ConsoleInvariant'
<1>1. /\ ConsoleShape /\ BlobsAreBacked /\ MergedFromLoaded /\ LoginIsNew /\ RotationsBounded /\ NewestIsAtHand
      /\ TokenOutlivesItsUse /\ OrgStaysKnown
  BY DEF ConsoleInvariant
<1>2. /\ blob' = NoBlob
      /\ grants' = grants /\ fetchers' = fetchers /\ cli' = cli /\ consoleTime' = consoleTime
      /\ crossed' = crossed /\ lost' = lost /\ orgOf' = orgOf /\ fetchesLeft' = fetchesLeft
  BY DEF ClearSession
<1>3. NoBlob \in Blobs /\ NoBlob.session = NoSession /\ NoBlob.refreshGen = 0 /\ NoBlob.expires = 0
  BY ConsoleAssumption DEF NoBlob, Blobs, NoSession
<1>4. ConsoleShape'
  BY <1>1, <1>2, <1>3 DEF ConsoleShape
<1>5. BlobsAreBacked'
  BY <1>1, <1>2, <1>3 DEF BlobsAreBacked, Backed
<1>6. MergedFromLoaded' /\ TokenOutlivesItsUse'
  BY <1>1, <1>2 DEF MergedFromLoaded, TokenOutlivesItsUse
<1>7. LoginOpened' = LoginOpened /\ Refreshing' = Refreshing
  BY <1>2 DEF LoginOpened, Refreshing
<1>8. LoginIsNew' /\ RotationsBounded'
  BY <1>1, <1>2, <1>3, <1>7 DEF LoginIsNew, RotationsBounded
<1>9. NewestIsAtHand' /\ OrgStaysKnown'
  BY <1>2, <1>3 DEF NewestIsAtHand, OrgStaysKnown
<1> QED BY <1>4, <1>5, <1>6, <1>8, <1>9 DEF ConsoleInvariant

(* A process that ends takes the answers with it that were not saved.        *)
LEMMA ConsoleCrashKeeps ==
  ASSUME ConsoleInvariant, ConsoleCrash
  PROVE  ConsoleInvariant'
<1>1. /\ ConsoleShape /\ BlobsAreBacked /\ MergedFromLoaded /\ LoginIsNew /\ RotationsBounded /\ NewestIsAtHand
      /\ TokenOutlivesItsUse /\ OrgStaysKnown
  BY DEF ConsoleInvariant
<1>2. /\ lost' = (lost \/ \E f \in Fetchers : fetchers[f].at = "save")
      /\ fetchers' = [f \in Fetchers |-> Free]
      /\ grants' = grants /\ blob' = blob /\ cli' = cli /\ consoleTime' = consoleTime
      /\ crossed' = crossed /\ orgOf' = orgOf /\ fetchesLeft' = fetchesLeft
  BY DEF ConsoleCrash
<1>3. fetchers' \in [Fetchers -> FetcherStates] /\ \A f \in Fetchers : fetchers'[f].at = "idle"
  BY <1>2 DEF FetcherStates, Free
<1>4. lost' \in BOOLEAN
  BY <1>1, <1>2 DEF ConsoleShape
<1>5. ConsoleShape'
  BY <1>1, <1>2, <1>3, <1>4 DEF ConsoleShape
<1>6. BlobsAreBacked' /\ MergedFromLoaded' /\ TokenOutlivesItsUse'
  BY <1>1, <1>2, <1>3 DEF BlobsAreBacked, MergedFromLoaded, TokenOutlivesItsUse
<1>7. LoginOpened' = LoginOpened
  BY <1>2 DEF LoginOpened
<1>8. LoginIsNew'
  BY <1>1, <1>2, <1>3, <1>7 DEF LoginIsNew
<1>9. RotationsBounded'
  <2>1. Refreshing' = {} /\ Cardinality(Refreshing') = 0
    BY <1>3, FS_EmptySet DEF Refreshing
  <2>2. Cardinality(Refreshing) \in Nat
    <3>1. Refreshing \subseteq Fetchers
      BY DEF Refreshing
    <3> QED BY <3>1, ConsoleAssumption, FS_Subset, FS_CardinalityType
  <2>3. fetchesLeft \in Nat /\ MaxFetches \in Nat /\ \A s \in Sessions : grants[s] \in Nat
    BY <1>1, ConsoleAssumption DEF ConsoleShape
  <2> QED BY <1>1, <1>2, <2>1, <2>2, <2>3 DEF RotationsBounded
<1>10. NewestIsAtHand' /\ OrgStaysKnown'
  BY <1>1, <1>2 DEF NewestIsAtHand, OrgStaysKnown
<1> QED BY <1>5, <1>6, <1>8, <1>9, <1>10 DEF ConsoleInvariant

LEMMA ConsoleStays ==
  ASSUME ConsoleInvariant, [ConsoleNext]_consoleVars
  PROVE  ConsoleInvariant'
<1>1. ASSUME UNCHANGED consoleVars \/ ConsoleTick
      PROVE  ConsoleInvariant'
  <2>1. /\ grants' = grants /\ blob' = blob /\ fetchers' = fetchers /\ cli' = cli
        /\ crossed' = crossed /\ lost' = lost /\ orgOf' = orgOf /\ fetchesLeft' = fetchesLeft
        /\ (consoleTime' = consoleTime \/ consoleTime' = consoleTime + 1)
    BY <1>1 DEF consoleVars, ConsoleTick
  <2>2. /\ ConsoleShape /\ BlobsAreBacked /\ MergedFromLoaded /\ LoginIsNew /\ RotationsBounded /\ NewestIsAtHand
        /\ TokenOutlivesItsUse /\ OrgStaysKnown
    BY DEF ConsoleInvariant
  <2>3. ConsoleShape'
    BY <2>1, <2>2 DEF ConsoleShape
  <2>4. BlobsAreBacked' /\ MergedFromLoaded' /\ TokenOutlivesItsUse' /\ OrgStaysKnown' /\ NewestIsAtHand'
    BY <2>1, <2>2 DEF BlobsAreBacked, MergedFromLoaded, TokenOutlivesItsUse, OrgStaysKnown, NewestIsAtHand
  <2>5. LoginOpened' = LoginOpened /\ Refreshing' = Refreshing
    BY <2>1 DEF LoginOpened, Refreshing
  <2>6. LoginIsNew' /\ RotationsBounded'
    BY <2>1, <2>2, <2>5 DEF LoginIsNew, RotationsBounded
  <2> QED BY <2>3, <2>4, <2>6 DEF ConsoleInvariant
<1>2. CASE ConsoleNext
  <2>1. ASSUME NEW f \in Fetchers,
               \/ LoadTokens(f) \/ LoadForOrg(f) \/ SaveOrg(f) \/ UseToken(f)
               \/ \E b \in BOOLEAN : SaveTokens(f, b) \/ RefreshFails(f, b) \/ \E t \in BOOLEAN : RefreshAnswered(f, b, t)
        PROVE  ConsoleInvariant'
    BY <2>1, LooksKeep, SavesKeep, RefreshKeeps
  <2>2. CASE StartDevice \/ PollStep \/ LoginFails \/ StartPkce
    BY <2>2, CommandKeeps
  <2>3. CASE \E timed \in BOOLEAN : Approved(timed) \/ CompletePkce(timed)
    BY <2>3, LoginKeeps
  <2>4. CASE StoreSession \/ ClearSession \/ ConsoleCrash
    BY <2>4, StoreSessionKeeps, ClearSessionKeeps, ConsoleCrashKeeps
  <2> QED BY <1>1, <1>2, <2>1, <2>2, <2>3, <2>4 DEF ConsoleNext
<1> QED BY <1>1, <1>2

LEMMA ConsoleIsSound ==
  ASSUME ConsoleInvariant
  PROVE  SessionIsKept
<1>1. /\ ConsoleShape /\ BlobsAreBacked /\ RotationsBounded /\ NewestIsAtHand /\ TokenOutlivesItsUse /\ OrgStaysKnown
  BY DEF ConsoleInvariant
<1>2. blob \in Blobs /\ Backed(blob, grants) /\ cli \in CliStates
  BY <1>1 DEF ConsoleShape, BlobsAreBacked
<1>3. blob.refreshGen \in 0..(MaxFetches + 1)
  <2>1. CASE blob.session = NoSession
    BY <1>2, <2>1, ConsoleAssumption DEF Backed
  <2>2. CASE blob.session # NoSession
    <3>1. /\ blob.session \in Sessions /\ blob.refreshGen \in Nat /\ blob.refreshGen <= grants[blob.session]
          /\ grants[blob.session] \in Nat /\ fetchesLeft \in Nat
      BY <1>1, <1>2, <2>2, BlobFields DEF Backed, ConsoleShape
    <3>2. Cardinality(Refreshing) \in Nat
      <4>1. Refreshing \subseteq Fetchers
        BY DEF Refreshing
      <4> QED BY <4>1, ConsoleAssumption, FS_Subset, FS_CardinalityType
    <3>3. grants[blob.session] + fetchesLeft + Cardinality(Refreshing) <= MaxFetches + 1
      BY <1>1, <3>1 DEF RotationsBounded
    <3> QED BY <3>1, <3>2, <3>3, ConsoleAssumption
  <2> QED BY <2>1, <2>2
<1>4. blob.session \in 0..MaxLogins /\ blob.org \in BOOLEAN
  BY <1>2 DEF Blobs
<1>5. cli.at \in {"idle", "poll", "pkce", "store"}
  BY <1>2, StatesByPlace
<1>6. ConsoleTypeOK
  BY <1>1, <1>3, <1>4, <1>5 DEF ConsoleTypeOK, ConsoleShape
<1>7. SessionSurvives
  BY <1>1 DEF NewestIsAtHand, SessionSurvives
<1> QED BY <1>1, <1>6, <1>7 DEF SessionIsKept

(* However many threads load, refresh and save the one stored credential,    *)
(* with rotations, lost answers, logins and restarts in between: the stored  *)
(* refresh token is the one that the provider takes, unless a save crossed   *)
(* another one or an answer was lost (current_access_token, merge_tokens,    *)
(* save_tokens).                                                             *)
THEOREM SessionsAreKept == ConsoleSpec => []SessionIsKept
<1>1. ConsoleInit => ConsoleInvariant
  BY ConsoleStarts
<1>2. ConsoleInvariant /\ [ConsoleNext]_consoleVars => ConsoleInvariant'
  BY ConsoleStays
<1>3. ConsoleInvariant => SessionIsKept
  BY ConsoleIsSound
<1> QED BY <1>1, <1>2, <1>3, PTL DEF ConsoleSpec

-----------------------------------------------------------------------------
(* The parts side by side, as the runs check them (MCLifecycles).            *)

LifecyclesInvariant ==
  StoresInvariant /\ ConfigInvariant /\ RuntimeInvariant /\ InstallInvariant /\ ConsoleInvariant

\* One part takes a step of its own while the others rest.
LEMMA PartsRest ==
  ASSUME [LifecyclesNext]_lifecycleVars
  PROVE  /\ [SettingsNext]_settingsVars /\ [RuntimeNext]_runtimeVars
         /\ [SetupNext]_setupVars /\ [ConsoleNext]_consoleVars
<1>1. CASE UNCHANGED lifecycleVars
  BY <1>1 DEF lifecycleVars
<1>2. CASE LifecyclesNext
  BY <1>2 DEF LifecyclesNext
<1> QED BY <1>1, <1>2

LEMMA LifecyclesStart ==
  ASSUME LifecyclesInit
  PROVE  LifecyclesInvariant
<1>1. SettingsInit /\ RuntimeInit /\ SetupInit /\ ConsoleInit
  BY DEF LifecyclesInit
<1> QED BY <1>1, StoresStart, ConfigStarts, RuntimeStarts, SetupStarts, ConsoleStarts DEF LifecyclesInvariant

LEMMA LifecyclesStay ==
  ASSUME LifecyclesInvariant, [LifecyclesNext]_lifecycleVars
  PROVE  LifecyclesInvariant' /\ DependentsStopFirst /\ SiblingSurvives
<1>1. /\ [SettingsNext]_settingsVars /\ [RuntimeNext]_runtimeVars
      /\ [SetupNext]_setupVars /\ [ConsoleNext]_consoleVars
  BY PartsRest
<1>2. StoresInvariant' /\ ConfigInvariant'
  BY <1>1, StepsArePromised, ConfigStays DEF LifecyclesInvariant, Promised
<1>3. RuntimeInvariant' /\ DependentsStopFirst
  BY <1>1, RuntimeStays, TeardownIsOrdered DEF LifecyclesInvariant
<1>4. InstallInvariant' /\ SiblingSurvives
  BY <1>1, SetupStays, RemovalSparesTheSibling DEF LifecyclesInvariant
<1>5. ConsoleInvariant'
  BY <1>1, ConsoleStays DEF LifecyclesInvariant
<1> QED BY <1>2, <1>3, <1>4, <1>5 DEF LifecyclesInvariant

LEMMA LifecyclesAreSound ==
  ASSUME LifecyclesInvariant
  PROVE  ProcessesAreSound /\ InstallsAreSound /\ SessionIsKept
<1>1. STypeOK /\ RestartKeepsConfig /\ BootKeepsSections
  BY ConfigIsKept DEF LifecyclesInvariant
<1>2. RuntimeTypeOK /\ LeftOutHasMissing /\ NothingLeftBehind
  BY RuntimeIsSound DEF LifecyclesInvariant
<1>3. InstallsAreSound /\ SessionIsKept
  BY SetupIsSound, ConsoleIsSound DEF LifecyclesInvariant
<1> QED BY <1>1, <1>2, <1>3 DEF ProcessesAreSound

(* A process that is up is what it was told to be, whatever is registered,   *)
(* edited, failed and restarted (Config.save, main, Runtime).                *)
THEOREM ProcessesStaySound == LifecyclesSpec => []ProcessesAreSound
<1>1. LifecyclesInit => LifecyclesInvariant
  BY LifecyclesStart
<1>2. LifecyclesInvariant /\ [LifecyclesNext]_lifecycleVars => LifecyclesInvariant'
  BY LifecyclesStay
<1>3. LifecyclesInvariant => ProcessesAreSound
  BY LifecyclesAreSound
<1> QED BY <1>1, <1>2, <1>3, PTL DEF LifecyclesSpec

(* A module reported as installed is there, one install of a module runs at  *)
(* a time, and what it came to is told last (_run_memory_install).           *)
THEOREM InstallsStaySound == LifecyclesSpec => []InstallsAreSound
<1>1. LifecyclesInit => LifecyclesInvariant
  BY LifecyclesStart
<1>2. LifecyclesInvariant /\ [LifecyclesNext]_lifecycleVars => LifecyclesInvariant'
  BY LifecyclesStay
<1>3. LifecyclesInvariant => InstallsAreSound
  BY LifecyclesAreSound
<1> QED BY <1>1, <1>2, <1>3, PTL DEF LifecyclesSpec

(* The stored console session is one that the provider takes, through        *)
(* whatever meets it (console_oauth).                                        *)
THEOREM SessionStaysKept == LifecyclesSpec => []SessionIsKept
<1>1. LifecyclesInit => LifecyclesInvariant
  BY LifecyclesStart
<1>2. LifecyclesInvariant /\ [LifecyclesNext]_lifecycleVars => LifecyclesInvariant'
  BY LifecyclesStay
<1>3. LifecyclesInvariant => SessionIsKept
  BY LifecyclesAreSound
<1> QED BY <1>1, <1>2, <1>3, PTL DEF LifecyclesSpec

(* No teardown and no removal takes away what something running stands on    *)
(* (Runtime.shutdown, remove_router).                                        *)
THEOREM NothingIsEverPulledAway == LifecyclesSpec => NothingIsPulledAway
<1>1. LifecyclesInit => LifecyclesInvariant
  BY LifecyclesStart
<1>2. LifecyclesInvariant /\ [LifecyclesNext]_lifecycleVars
        => LifecyclesInvariant' /\ [DependentsStopFirst /\ SiblingSurvives]_lifecycleVars
  BY LifecyclesStay
<1> QED BY <1>1, <1>2, PTL DEF LifecyclesSpec, NothingIsPulledAway

=============================================================================

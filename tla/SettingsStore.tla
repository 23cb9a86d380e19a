---------------------------- MODULE SettingsStore ----------------------------
(* The settings table, the two SettingsStore objects that cache it and the   *)
(* Config that keeps the gateway_config sections in memory.  main() gives    *)
(* Config a store of its own ("boot"); the settings component builds another *)
(* one ("live") for the endpoints and the router.  A set commits the row and *)
(* then updates the cache of the store it was called on.                     *)
EXTENDS Naturals, Sequences, FiniteSets, SequencesExt

CONSTANTS
  SectionKeys,    \* gateway_config:<section> rows
  SettingKeys,    \* the other rows: TTLs and routing overrides
  RoutingSection, \* gateway_config:dynamic_routing, written through both stores
  RoutingToggle,  \* the routing_enabled row
  SValues, Seed,  \* contents of a row; what SEED_CONFIG has for a section
  Handlers,       \* threads of the admin API
  MaxAdminOps, MaxProcesses,
  MaxStoreFaults  \* failed writes, and outages during which reads may fail

Absent == "absent"
Current == "current"
SKeys == SectionKeys \cup SettingKeys
Stores == {"boot", "live"}
SContents == SValues \cup {Seed, Absent}

ASSUME SettingsAssumption ==
  /\ RoutingSection \in SectionKeys /\ RoutingToggle \in SettingKeys
  /\ SectionKeys \cap SettingKeys = {} /\ IsFiniteSet(SectionKeys)
  /\ SValues # {} /\ Absent \notin SValues /\ Current \notin SValues
  /\ Handlers # {}

VARIABLES
  table,      \* the settings rows
  cache,      \* _cache of each store
  loaded,     \* _loaded of each store
  blind,      \* stores that answer without having read the table: a read failed
  data,       \* Config._data
  boot,       \* "hydrate", "seed", "router", "up"
  todo,       \* the writes each handler still has to make
  mid,        \* the write a handler is in the middle of
  bootTable,  \* the rows as this process found them
  overlapped, \* keys that two handlers wrote at the same time
  unsaved,    \* sections whose last save failed
  unread,     \* stored sections whose row could not be read at this boot
  opsLeft, faultsLeft, processesLeft

settingsVars == <<table, cache, loaded, blind, data, boot, todo, mid, bootTable, overlapped, unsaved, unread,
                  opsLeft, faultsLeft, processesLeft>>
budgetsLeft == <<opsLeft, faultsLeft, processesLeft>>
misread == <<blind, unread>>

Empty == [k \in SKeys |-> Absent]
NoWrite == [stage |-> "none"]
WriteStages == {"read", "committed"}
WriteInto(s, k, v) == [store |-> s, key |-> k, to |-> v]

(* A save writes every section as it is in memory when its turn comes. *)
SaveAll ==
  LET order == SetToSeq(SectionKeys) IN [i \in DOMAIN order |-> WriteInto("boot", order[i], Current)]

NewProcess ==
  /\ cache = [s \in Stores |-> Empty]
  /\ loaded = [s \in Stores |-> FALSE]
  /\ data = [k \in SectionKeys |-> Absent]
  /\ boot = "hydrate"
  /\ todo = [h \in Handlers |-> <<>>]
  /\ mid = [h \in Handlers |-> NoWrite]
  /\ overlapped = {} /\ unsaved = {} /\ blind = {} /\ unread = {}

SettingsInit ==
  /\ table \in {Empty, [k \in SKeys |-> IF k \in SectionKeys THEN CHOOSE v \in SValues : TRUE ELSE Absent]}
  /\ NewProcess
  /\ bootTable = table
  /\ opsLeft = MaxAdminOps /\ faultsLeft = MaxStoreFaults /\ processesLeft = MaxProcesses

Ready == boot = "up"
HandlersIdle == \A h \in Handlers : todo[h] = <<>> /\ mid[h] = NoWrite

-----------------------------------------------------------------------------
(* Reading *)

(* _ensure_loaded: the first get reads every row; a failed read is tried     *)
(* again by the next get, and answers nothing meanwhile.                     *)
EnsureLoaded(s, ok) ==
  IF loaded[s] THEN UNCHANGED <<cache, loaded, blind, faultsLeft>>
  ELSE IF ok
  THEN /\ cache' = [cache EXCEPT ![s] = [k \in SKeys |-> IF table[k] = Absent THEN @[k] ELSE table[k]]]
       /\ loaded' = [loaded EXCEPT ![s] = TRUE]
       /\ blind' = blind \ {s}
       /\ UNCHANGED faultsLeft
  ELSE /\ blind # {} \/ faultsLeft > 0
       /\ faultsLeft' = IF blind = {} THEN faultsLeft - 1 ELSE faultsLeft
       /\ blind' = blind \cup {s}
       /\ UNCHANGED <<cache, loaded>>

FromRow(v) == IF v = Absent THEN Seed ELSE v

(* Config._hydrate reads one section: the row, or the seed when it is absent. *)
Hydrate(k, ok) ==
  /\ boot = "hydrate" /\ data[k] = Absent
  /\ EnsureLoaded("boot", ok)
  /\ data' = [data EXCEPT ![k] = FromRow(cache'["boot"][k])]
  /\ unread' = IF cache'["boot"][k] = table[k] THEN unread ELSE unread \cup {k}
  /\ UNCHANGED <<table, boot, todo, mid, bootTable, overlapped, unsaved, opsLeft, processesLeft>>

Hydrated ==
  /\ boot = "hydrate" /\ \A k \in SectionKeys : data[k] # Absent
  /\ boot' = "seed"
  /\ UNCHANGED <<table, cache, loaded, data, todo, mid, bootTable, overlapped, unsaved, misread, budgetsLeft>>

\* Mutant: the seed is written at every boot, whatever the table holds.
SeedEveryBoot(h, ok) ==
  /\ boot = "seed" /\ HandlersIdle
  /\ EnsureLoaded("boot", ok)
  /\ boot' = "router"
  /\ todo' = [todo EXCEPT ![h] = SetToSeq({WriteInto("boot", k, Seed) : k \in SectionKeys})]
  /\ UNCHANGED <<table, data, mid, bootTable, overlapped, unsaved, unread, opsLeft, processesLeft>>

(* main: a store without a single section is taken for a first boot, and     *)
(* everything in memory is saved.  h stands for the main thread.             *)
SeedOnFirstBoot(h, ok) ==
  /\ boot = "seed" /\ HandlersIdle
  /\ EnsureLoaded("boot", ok)
  /\ boot' = "router"
  /\ todo' = [todo EXCEPT ![h] = IF \A k \in SectionKeys : cache'["boot"][k] = Absent THEN SaveAll ELSE <<>>]
  /\ UNCHANGED <<table, data, mid, bootTable, overlapped, unsaved, unread, opsLeft, processesLeft>>

(* RouterComponent.setup asks the live store for the toggle. *)
RouterAsks(ok) ==
  /\ boot = "router" /\ HandlersIdle
  /\ EnsureLoaded("live", ok)
  /\ boot' = "up"
  /\ UNCHANGED <<table, data, todo, mid, bootTable, overlapped, unsaved, unread, opsLeft, processesLeft>>

-----------------------------------------------------------------------------
(* Writing *)

\* Mutant: the marker is stored in place of the section.
SerialiseRaw(h) ==
  /\ mid[h] = NoWrite /\ todo[h] # <<>>
  /\ mid' = [mid EXCEPT ![h] = [stage |-> "read"] @@ Head(todo[h])]
  /\ todo' = [todo EXCEPT ![h] = Tail(@)]
  /\ UNCHANGED <<table, cache, loaded, data, boot, bootTable, overlapped, unsaved, misread, budgetsLeft>>

(* The value a write carries is fixed before the transaction starts.         *)
Serialise(h) ==
  /\ mid[h] = NoWrite /\ todo[h] # <<>>
  /\ LET w == Head(todo[h]) IN
     mid' = [mid EXCEPT ![h] = [stage |-> "read", store |-> w.store, key |-> w.key,
                                to |-> IF w.to = Current THEN data[w.key] ELSE w.to]]
  /\ todo' = [todo EXCEPT ![h] = Tail(@)]
  /\ UNCHANGED <<table, cache, loaded, data, boot, bootTable, overlapped, unsaved, misread, budgetsLeft>>

Commit(h) ==
  /\ mid[h].stage = "read"
  /\ LET k == mid[h].key IN
     /\ table' = [table EXCEPT ![k] = mid[h].to]
     /\ overlapped' = IF \E g \in Handlers \ {h} : mid[g] # NoWrite /\ mid[g].key = k
                      THEN overlapped \cup {k} ELSE overlapped
     /\ unsaved' = IF k \in SectionKeys /\ mid[h].to = data[k] THEN unsaved \ {k} ELSE unsaved
  /\ mid' = [mid EXCEPT ![h].stage = "committed"]
  /\ UNCHANGED <<cache, loaded, data, boot, todo, bootTable, misread, budgetsLeft>>

(* A section that cannot be saved is logged, and the save goes on; a setting *)
(* that cannot be saved ends its request.                                    *)
CommitFails(h) ==
  /\ mid[h].stage = "read"
  /\ faultsLeft > 0 /\ faultsLeft' = faultsLeft - 1
  /\ LET k == mid[h].key IN unsaved' = IF k \in SectionKeys THEN unsaved \cup {k} ELSE unsaved
  /\ todo' = IF mid[h].key \in SettingKeys THEN [todo EXCEPT ![h] = <<>>] ELSE todo
  /\ mid' = [mid EXCEPT ![h] = NoWrite]
  /\ UNCHANGED <<table, cache, loaded, data, boot, bootTable, overlapped, misread, opsLeft, processesLeft>>

\* Mutant: a deleted row stays in the cache.
PublishSetsOnly(h) ==
  /\ mid[h].stage = "committed"
  /\ LET w == mid[h] IN
     /\ cache' = IF w.to = Absent THEN cache ELSE [cache EXCEPT ![w.store][w.key] = w.to]
     /\ loaded' = [loaded EXCEPT ![w.store] = @ \/ w.to # Absent]
  /\ mid' = [mid EXCEPT ![h] = NoWrite]
  /\ UNCHANGED <<table, data, boot, todo, bootTable, overlapped, unsaved, misread, budgetsLeft>>

(* set marks its store as loaded, whatever else the cache lacks; a clear     *)
(* takes the key out of the cache.                                           *)
Publish(h) ==
  /\ mid[h].stage = "committed"
  /\ LET w == mid[h] IN
     /\ cache' = [cache EXCEPT ![w.store][w.key] = w.to]
     /\ loaded' = [loaded EXCEPT ![w.store] = @ \/ w.to # Absent]
  /\ mid' = [mid EXCEPT ![h] = NoWrite]
  /\ UNCHANGED <<table, data, boot, todo, bootTable, overlapped, unsaved, misread, budgetsLeft>>

-----------------------------------------------------------------------------
(* The admin API *)

Begins(h) == Ready /\ todo[h] = <<>> /\ mid[h] = NoWrite /\ opsLeft > 0 /\ opsLeft' = opsLeft - 1

(* POST /api/settings and /api/routing/policy: set or clear a row. *)
ChangeSetting(h, k, v) ==
  /\ Begins(h) /\ k # RoutingToggle
  /\ todo' = [todo EXCEPT ![h] = <<WriteInto("live", k, v)>>]
  /\ UNCHANGED <<table, cache, loaded, data, boot, mid, bootTable, overlapped, unsaved, misread, faultsLeft, processesLeft>>

(* The global toggle: its row, then the section of Config, through the live store. *)
ToggleRouting(h, v) ==
  /\ Begins(h)
  /\ todo' = [todo EXCEPT ![h] = <<WriteInto("live", RoutingToggle, v), WriteInto("live", RoutingSection, v)>>]
  /\ UNCHANGED <<table, cache, loaded, data, boot, mid, bootTable, overlapped, unsaved, misread, faultsLeft, processesLeft>>

\* Mutant: the handler changes the section in memory and does not save.
EditWithoutSave(h, k, v) ==
  /\ Begins(h)
  /\ data' = [data EXCEPT ![k] = v]
  /\ todo' = [todo EXCEPT ![h] = <<>>]
  /\ UNCHANGED <<table, cache, loaded, boot, mid, bootTable, overlapped, unsaved, misread, faultsLeft, processesLeft>>

(* The provider, profile and chain endpoints: change config.raw, then save(). *)
EditConfig(h, k, v) ==
  /\ Begins(h)
  /\ data' = [data EXCEPT ![k] = v]
  /\ todo' = [todo EXCEPT ![h] = SaveAll]
  /\ UNCHANGED <<table, cache, loaded, boot, mid, bootTable, overlapped, unsaved, misread, faultsLeft, processesLeft>>

(* GET /api/settings, the pages and the router read through the live store,  *)
(* which tries again when its last read of the table failed.                 *)
ReadSettings(ok) ==
  /\ Ready
  /\ EnsureLoaded("live", ok)
  /\ UNCHANGED <<table, data, boot, todo, mid, bootTable, overlapped, unsaved, unread, opsLeft, processesLeft>>

(* The process dies at any point and starts again. *)
ProcessRestarts ==
  /\ processesLeft > 0 /\ processesLeft' = processesLeft - 1
  /\ cache' = [s \in Stores |-> Empty]
  /\ loaded' = [s \in Stores |-> FALSE]
  /\ data' = [k \in SectionKeys |-> Absent]
  /\ boot' = "hydrate"
  /\ todo' = [h \in Handlers |-> <<>>]
  /\ mid' = [h \in Handlers |-> NoWrite]
  /\ overlapped' = {} /\ unsaved' = {} /\ blind' = {} /\ unread' = {}
  /\ bootTable' = table
  /\ UNCHANGED <<table, opsLeft, faultsLeft>>

MainThread == CHOOSE h \in Handlers : TRUE

SettingsNext ==
  \/ \E ok \in BOOLEAN :
       (\E k \in SectionKeys : Hydrate(k, ok)) \/ SeedOnFirstBoot(MainThread, ok) \/ RouterAsks(ok) \/ ReadSettings(ok)
  \/ Hydrated
  \/ \E h \in Handlers :
       \/ Serialise(h) \/ Commit(h) \/ CommitFails(h) \/ Publish(h)
       \/ \E k \in SettingKeys, v \in SValues \cup {Absent} : ChangeSetting(h, k, v)
       \/ \E v \in SValues : ToggleRouting(h, v) \/ \E k \in SectionKeys : EditConfig(h, k, v)
  \/ ProcessRestarts

SettingsSpec == SettingsInit /\ [][SettingsNext]_settingsVars

-----------------------------------------------------------------------------
(* What a get answers: the table when it is the first, else the cache.       *)
View(s) == IF loaded[s] \/ s \in blind THEN cache[s] ELSE table

(* The store through which a row is read and written, where there is one. *)
OwnedKeys == SKeys \ {RoutingSection}
OwnerOf(k) == IF k \in SectionKeys THEN "boot" ELSE "live"

(* What the promise speaks of. *)
StoredRows == [k \in OwnedKeys |-> table[k]]
SeenRows == [k \in OwnedKeys |-> View(OwnerOf(k))[k]]
FlyingWrites ==
  {[by |-> h, key |-> mid[h].key, to |-> mid[h].to] :
     h \in {g \in Handlers : mid[g].stage = "committed" /\ mid[g].key \in OwnedKeys}}
BlindKeys == {k \in OwnedKeys : OwnerOf(k) \in blind}

Promise == INSTANCE SettingsPromise WITH
  Keys <- OwnedKeys, Contents <- SContents, Missing <- Absent, Writers <- Handlers,
  stored <- StoredRows, seen <- SeenRows, flying <- FlyingWrites,
  raced <- overlapped \ {RoutingSection}, blinded <- BlindKeys

(* The caches, the two-step writes, the boot and the restarts implement the  *)
(* plain promise for every row that is written through one store only: a     *)
(* value is seen after it is stored, never before, and a stored value is not *)
(* forgotten (SettingsStore.set, get, _clear_key).                           *)
StoresKeepThePromise == Promise!PromiseSpec

(* Well-formed rows, caches and writes (SettingsStore, Config). *)
STypeOK ==
  /\ table \in [SKeys -> SContents]
  /\ cache \in [Stores -> [SKeys -> SContents]]
  /\ loaded \in [Stores -> BOOLEAN]
  /\ data \in [SectionKeys -> SContents]
  /\ boot \in {"hydrate", "seed", "router", "up"}
  /\ blind \subseteq Stores /\ unread \subseteq SectionKeys
  /\ \A h \in Handlers : mid[h].stage \in {"none"} \cup WriteStages

(* When the API is at rest a section is the same in memory and in the table, *)
(* whatever order the handlers ran in: the next process starts with the      *)
(* configuration this one serves.  Except where two saves of the section     *)
(* overlapped, its save failed, it could not be read at boot, or the routing *)
(* toggle wrote it.                                                          *)
RestartKeepsConfig ==
  Ready /\ HandlersIdle =>
    \A k \in SectionKeys \ ({RoutingSection} \cup overlapped \cup unsaved \cup unread) : data[k] = FromRow(table[k])

(* No boot changes a section that is already in the table and that it could  *)
(* read, though other sections were missing or could not be read (main).     *)
BootKeepsSections ==
  \A k \in SectionKeys \ unread : ~Ready /\ bootTable[k] # Absent => table[k] = bootTable[k]

(* The comment of main on seeding: "later boots load from the DB and skip".  *)
LaterBootsSkip ==
  \A k \in SectionKeys : ~Ready /\ bootTable[k] # Absent => table[k] = bootTable[k]

(* The comment of _sync_dynamic_routing_enabled: the toggle keeps            *)
(* config.dynamic_routing in sync with the row it writes.                    *)
ToggleReachesConfig ==
  Ready /\ HandlersIdle /\ overlapped = {} /\ unsaved = {} => data[RoutingSection] = table[RoutingSection]
=============================================================================

--------------------------- MODULE GatewayConfig ---------------------------
(***************************************************************************)
(* The gateway's configuration: the providers and the profiles' chains in  *)
(* the memory all handler threads share, the rows of the settings table    *)
(* that keep them, and the stored API keys, under the endpoints that       *)
(* create, update, delete and rename providers and profiles, failing       *)
(* writes, and restarts.                                                   *)
(*                                                                         *)
(* A handler changes the memory in one step.  save() then takes the        *)
(* sections one by one, in the order of ALL_SECTIONS: it renders the live  *)
(* value, and writes the text in a transaction of its own.  Only the two   *)
(* sections the endpoints edit are kept.  A chain is the set of providers  *)
(* its steps name, and a chain that is missing is an empty one; what a     *)
(* provider's entry holds, cookies and workspace ids are left out.         *)
(***************************************************************************)
EXTENDS Integers

CONSTANTS
  Providers, Profiles, NoText,
  SeedProviders, SeedChains,   \* SEED_CONFIG
  DefaultProfile,
  Threads,
  MaxEdits,      \* bound: calls of the endpoints in one behaviour
  MaxFaults      \* bound: writes that fail in one behaviour

\* The values of the profiles section: the chain of each profile there is.
ChainMaps == UNION {[D -> SUBSET Providers] : D \in SUBSET Profiles}

ASSUME ConfigAssumption ==
  /\ SeedProviders \in SUBSET Providers
  /\ SeedChains \in ChainMaps
  /\ \A f \in DOMAIN SeedChains : SeedChains[f] # {}
  /\ DefaultProfile \in Profiles
  /\ MaxEdits \in Nat /\ MaxFaults \in Nat

VARIABLES
  providers, chains,   \* config.raw: the providers and the profiles section
  row,       \* the settings rows of both sections
  keys,      \* the providers with a row in provider_credentials
  pc,        \* what each handler thread is about to do
  sec,       \* the section its save() has come to
  text,      \* the section as it rendered it
  after,     \* what it does when save() is over
  lanes,     \* the profiles the mapping endpoint has listed
  lagging,   \* sections whose row may lag behind (of the model, see EditsReachDisk)
  emptied,   \* a step that may empty a chain did (of the model)
  disturbed, \* handlers overlapped, a write failed, or one was killed (of the model)
  edits, faults

memory == <<providers, chains>>
local == <<pc, sec, text, after, lanes>>
history == <<lagging, emptied, disturbed, edits, faults>>
vars == <<memory, row, keys, local, history>>

Sections == {"profiles", "providers"}

PCs == {"idle", "key", "dump", "write", "learn", "finish", "drop", "map"}

\* What follows save(): whether model contexts are looked up, which may save
\* again, and what is done to the key of p.
Afters == [learn : BOOLEAN, do : {"nothing", "set", "clear", "move"},
           p : Providers \union {NoText}, q : Providers \union {NoText}]

Nothing == [learn |-> FALSE, do |-> "nothing", p |-> NoText, q |-> NoText]

Values(s) == IF s = "profiles" THEN ChainMaps ELSE SUBSET Providers

StoreOK ==
  /\ providers \in SUBSET Providers /\ chains \in ChainMaps
  /\ row = [s \in Sections |-> row[s]]
  /\ \A s \in Sections : row[s] \in Values(s)
  /\ keys \in SUBSET Providers

LocalOK ==
  /\ pc \in [Threads -> PCs]
  /\ sec \in [Threads -> Sections]
  /\ text = [t \in Threads |-> text[t]]
  /\ \A t \in Threads : pc[t] = "write" => text[t] \in Values(sec[t])
  /\ after \in [Threads -> Afters]
  /\ \A t \in Threads : after[t].do # "nothing" => after[t].p \in Providers
  /\ \A t \in Threads : after[t].do = "move" => after[t].q \in Providers
  /\ lanes \in [Threads -> SUBSET Profiles]

HistoryOK ==
  /\ lagging \in SUBSET Sections
  /\ emptied \in BOOLEAN /\ disturbed \in BOOLEAN
  /\ edits \in 0..MaxEdits /\ faults \in 0..MaxFaults

TypeOK == StoreOK /\ LocalOK /\ HistoryOK

Memory(s) == IF s = "profiles" THEN chains ELSE providers

Seed(s) == IF s = "profiles" THEN SeedChains ELSE SeedProviders

\* An empty dict, which Python takes for false.
IsEmpty(s, v) == IF s = "profiles" THEN DOMAIN v = {} ELSE v = {}

Idle(t) == pc[t] = "idle"

Quiet == \A t \in Threads : Idle(t)

\* A first boot has stored the seed.
Init ==
  /\ providers = SeedProviders /\ chains = SeedChains
  /\ row = [s \in Sections |-> Seed(s)]
  /\ keys = {}
  /\ pc = [t \in Threads |-> "idle"]
  /\ sec = [t \in Threads |-> "profiles"]
  /\ text = [t \in Threads |-> NoText]
  /\ after = [t \in Threads |-> Nothing]
  /\ lanes = [t \in Threads |-> {}]
  /\ lagging = {} /\ emptied = FALSE /\ disturbed = FALSE
  /\ edits = 0 /\ faults = 0

-----------------------------------------------------------------------------
Goto(t, l) == pc' = [pc EXCEPT ![t] = l]

\* A handler begins, alone or next to others.
Edit(t) ==
  /\ Idle(t)
  /\ edits < MaxEdits /\ edits' = edits + 1
  /\ disturbed' = (disturbed \/ ~Quiet)
  /\ UNCHANGED faults

\* save() begins, and `then' is what the handler does after it.
Save(t, then) ==
  /\ Goto(t, "dump")
  /\ sec' = [sec EXCEPT ![t] = "profiles"]
  /\ after' = [after EXCEPT ![t] = then]
  /\ UNCHANGED text

Empties(c) == \E f \in DOMAIN c : c[f] = {}

\* The chains become c; `culprit' says whether the step may leave one empty.
SetChains(c, culprit) ==
  /\ chains' = c
  /\ emptied' = (emptied \/ (culprit /\ Empties(c)))

\* POST /api/providers, and install_provider: an existing entry is replaced.
Upsert(t, p, withKey, learns) ==
  /\ Edit(t)
  /\ providers' = providers \union {p}
  /\ Save(t, [learn |-> learns, do |-> IF withKey THEN "set" ELSE "nothing",
              p |-> p, q |-> NoText])
  /\ UNCHANGED <<chains, row, keys, lanes, lagging, emptied>>

CreateProvider(t, p, withKey) == Upsert(t, p, withKey, TRUE)

InstallProvider(t, p, withKey) == Upsert(t, p, withKey, FALSE)

\* PUT /api/providers/{name}: the key, if the body has one, is stored first.
UpdateProvider(t, p, do) ==
  /\ Edit(t)
  /\ p \in providers
  /\ IF do = "nothing"
     THEN Save(t, [Nothing EXCEPT !.learn = TRUE])
     ELSE /\ Goto(t, "key")
          /\ after' = [after EXCEPT ![t] = [learn |-> TRUE, do |-> do, p |-> p, q |-> NoText]]
          /\ UNCHANGED <<sec, text>>
  /\ UNCHANGED <<memory, row, keys, lanes, lagging, emptied>>

Stripped(p) == [f \in DOMAIN chains |-> chains[f] \ {p}]

\* The provider goes, with the steps that name it, and then its key.
Discard(t, p) ==
  /\ Edit(t)
  /\ providers' = providers \ {p}
  /\ SetChains(Stripped(p), TRUE)
  /\ Save(t, [Nothing EXCEPT !.do = "clear", !.p = p])
  /\ UNCHANGED <<row, keys, lanes, lagging>>

DeleteProvider(t, p) == p \in providers /\ Discard(t, p)

\* remove_provider does not ask whether the provider is there.
RemoveProvider(t, p) == Discard(t, p)

Renamed(p, q) ==
  [f \in DOMAIN chains |-> IF p \in chains[f] THEN (chains[f] \ {p}) \union {q} ELSE chains[f]]

RenameProvider(t, p, q) ==
  /\ Edit(t)
  /\ p \in providers /\ q \notin providers
  /\ providers' = (providers \ {p}) \union {q}
  /\ SetChains(Renamed(p, q), FALSE)
  /\ Save(t, [learn |-> FALSE, do |-> "move", p |-> p, q |-> q])
  /\ UNCHANGED <<row, keys, lanes, lagging>>

-----------------------------------------------------------------------------
\* A handler that changes the profiles section and saves.
EditChains(t, c, culprit) ==
  /\ Edit(t)
  /\ SetChains(c, culprit)
  /\ Save(t, Nothing)
  /\ UNCHANGED <<providers, row, keys, lanes, lagging>>

\* PUT /api/profiles/{profile}/chain refuses an empty chain.
ReorderChain(t, f, c) ==
  /\ f \in DOMAIN chains /\ c # {}
  /\ EditChains(t, [chains EXCEPT ![f] = c], FALSE)

\* PUT /api/profiles/{name} takes any chain.
UpdateProfile(t, f, c) ==
  /\ f \in DOMAIN chains
  /\ EditChains(t, [chains EXCEPT ![f] = c], TRUE)

\* A later field of the body is refused: no save, but the chain is changed.
UpdateProfileRefused(t, f, c) ==
  /\ Edit(t)
  /\ f \in DOMAIN chains
  /\ SetChains([chains EXCEPT ![f] = c], TRUE)
  /\ lagging' = lagging \union {"profiles"}
  /\ UNCHANGED <<providers, row, keys, local>>

With(f, c) == [g \in DOMAIN chains \union {f} |-> IF g = f THEN c ELSE chains[g]]

\* The default profile's chain, as far as there is one.
DonorChain == IF DefaultProfile \in DOMAIN chains THEN chains[DefaultProfile] ELSE {}

\* Mutant: a profile is created whether or not there is a chain to copy.
CreateProfileUnseeded(t, f) ==
  /\ f \notin DOMAIN chains
  /\ EditChains(t, With(f, DonorChain), FALSE)

CreateProfile(t, f) ==
  /\ f \notin DOMAIN chains
  /\ DonorChain # {}
  /\ EditChains(t, With(f, DonorChain), FALSE)

DeleteProfile(t, f) ==
  /\ f \in DOMAIN chains
  /\ EditChains(t, [g \in DOMAIN chains \ {f} |-> chains[g]], FALSE)

\* POST /api/profiles/mapping/seed lists the profiles and reads agents' files.
ListLanes(t) ==
  /\ Edit(t)
  /\ lanes' = [lanes EXCEPT ![t] = DOMAIN chains]
  /\ Goto(t, "map")
  /\ UNCHANGED <<memory, row, keys, sec, text, after, lagging, emptied>>

\* It declares an agent in some of them; one that was deleted is made again,
\* with no chain.  Nothing is saved when there is nothing to declare.
DeclareAgents(t, declared) ==
  /\ pc[t] = "map"
  /\ declared \subseteq lanes[t]
  /\ SetChains([g \in DOMAIN chains \union declared |->
                  IF g \in DOMAIN chains THEN chains[g] ELSE {}], TRUE)
  /\ lanes' = [lanes EXCEPT ![t] = {}]
  /\ IF declared = {}
     THEN Goto(t, "idle") /\ UNCHANGED <<sec, text, after>>
     ELSE Save(t, Nothing)
  /\ UNCHANGED <<providers, row, keys, lagging, disturbed, edits, faults>>

-----------------------------------------------------------------------------
\* save(): json.dumps of the live section.
Dump(t) ==
  /\ pc[t] = "dump"
  /\ text' = [text EXCEPT ![t] = Memory(sec[t])]
  /\ Goto(t, "write")
  /\ UNCHANGED <<memory, row, keys, sec, after, lanes, history>>

\* On to the next section, or to what follows save().
NextSection(t) ==
  /\ text' = [text EXCEPT ![t] = NoText]
  /\ IF sec[t] = "profiles"
     THEN Goto(t, "dump") /\ sec' = [sec EXCEPT ![t] = "providers"]
     ELSE Goto(t, "learn") /\ UNCHANGED sec
  /\ UNCHANGED <<memory, keys, after, lanes, emptied, edits>>

\* Mutant: save() passes over an empty section, not only over a missing one.
WriteNonEmpty(t) ==
  /\ pc[t] = "write"
  /\ row' = IF IsEmpty(sec[t], text[t]) THEN row ELSE [row EXCEPT ![sec[t]] = text[t]]
  /\ lagging' = IF text[t] = Memory(sec[t]) THEN lagging \ {sec[t]}
                                            ELSE lagging \union {sec[t]}
  /\ NextSection(t)
  /\ UNCHANGED <<disturbed, faults>>

\* SettingsStore.set: the row is replaced and committed.
Write(t) ==
  /\ pc[t] = "write"
  /\ row' = [row EXCEPT ![sec[t]] = text[t]]
  /\ lagging' = IF text[t] = Memory(sec[t]) THEN lagging \ {sec[t]}
                                            ELSE lagging \union {sec[t]}
  /\ NextSection(t)
  /\ UNCHANGED <<disturbed, faults>>

Fault == faults < MaxFaults /\ faults' = faults + 1 /\ disturbed' = TRUE

\* A section that cannot be written is logged and passed over.
WriteFails(t) ==
  /\ pc[t] = "write"
  /\ Fault
  /\ lagging' = lagging \union {sec[t]}
  /\ NextSection(t)
  /\ UNCHANGED row

\* _auto_learn_model_contexts saves again if it learned something.
Learn(t, learned) ==
  /\ pc[t] = "learn"
  /\ learned => after[t].learn
  /\ IF learned
     THEN Save(t, [after[t] EXCEPT !.learn = FALSE])
     ELSE Goto(t, "finish") /\ UNCHANGED <<sec, text, after>>
  /\ UNCHANGED <<memory, row, keys, lanes, history>>

Done(t) ==
  /\ Goto(t, "idle")
  /\ after' = [after EXCEPT ![t] = Nothing]
  /\ UNCHANGED <<memory, row, sec, text, lanes, lagging, emptied, edits>>

\* PUT of a provider stores or clears the key and then saves.
StoreKeyFirst(t) ==
  /\ pc[t] = "key"
  /\ keys' = IF after[t].do = "set" THEN keys \union {after[t].p} ELSE keys \ {after[t].p}
  /\ Save(t, [Nothing EXCEPT !.learn = TRUE])
  /\ UNCHANGED <<memory, row, lanes, history>>

\* Mutant: the key is stored under the new name, which only a rename has.
FinishUnderNewName(t) ==
  /\ pc[t] = "finish" /\ after[t].do # "move"
  /\ keys' = CASE after[t].do = "set" -> keys \union {after[t].q}
               [] after[t].do = "clear" -> keys \ {after[t].p}
               [] OTHER -> keys
  /\ Done(t)
  /\ UNCHANGED <<disturbed, faults>>

\* Mutant: the key stays where it is when a provider is deleted.
FinishKeeping(t) ==
  /\ pc[t] = "finish" /\ after[t].do # "move"
  /\ keys' = IF after[t].do = "set" THEN keys \union {after[t].p} ELSE keys
  /\ Done(t)
  /\ UNCHANGED <<disturbed, faults>>

\* The other handlers save and then store or clear the key.
Finish(t) ==
  /\ pc[t] = "finish" /\ after[t].do # "move"
  /\ keys' = CASE after[t].do = "set" -> keys \union {after[t].p}
               [] after[t].do = "clear" -> keys \ {after[t].p}
               [] OTHER -> keys
  /\ Done(t)
  /\ UNCHANGED <<disturbed, faults>>

\* A rename copies the key, if there is one, and then clears the old one.
CopyKey(t) ==
  /\ pc[t] = "finish" /\ after[t].do = "move" /\ after[t].p \in keys
  /\ keys' = keys \union {after[t].q}
  /\ Goto(t, "drop")
  /\ UNCHANGED <<memory, row, sec, text, after, lanes, history>>

NoKeyToMove(t) ==
  /\ pc[t] = "finish" /\ after[t].do = "move" /\ after[t].p \notin keys
  /\ Done(t)
  /\ UNCHANGED <<keys, disturbed, faults>>

DropKey(t) ==
  /\ pc[t] = "drop"
  /\ keys' = keys \ {after[t].p}
  /\ Done(t)
  /\ UNCHANGED <<disturbed, faults>>

\* The key cannot be stored: the handler ends there.
KeyFails(t) ==
  /\ \/ pc[t] \in {"key", "drop"}
     \/ pc[t] = "finish" /\ after[t].do # "nothing"
  /\ Fault
  /\ Done(t)
  /\ UNCHANGED keys

-----------------------------------------------------------------------------
\* _validate of the profiles section.  Any set of providers is valid.
Valid(s, v) == s = "profiles" => ~Empties(v)

\* Mutant: one invalid section makes every section fall back to the seed.
HydratedTogether(s) ==
  IF IsEmpty(s, row[s]) \/ \E r \in Sections : ~Valid(r, row[r]) THEN Seed(s) ELSE row[s]

\* _hydrate: the stored section, unless it is empty or invalid.
Hydrated(s) == IF IsEmpty(s, row[s]) \/ ~Valid(s, row[s]) THEN Seed(s) ELSE row[s]

\* The process ends, between any two steps, and boots.  What the fallback put
\* into memory is not saved.
Restart ==
  /\ providers' = Hydrated("providers") /\ chains' = Hydrated("profiles")
  /\ pc' = [t \in Threads |-> "idle"]
  /\ sec' = [t \in Threads |-> "profiles"]
  /\ text' = [t \in Threads |-> NoText]
  /\ after' = [t \in Threads |-> Nothing]
  /\ lanes' = [t \in Threads |-> {}]
  /\ lagging' = {s \in Sections : Hydrated(s) # row[s]}
  /\ disturbed' = (disturbed \/ ~Quiet)
  /\ UNCHANGED <<row, keys, emptied, edits, faults>>

EditProviders(t) ==
  \E p \in Providers :
    \/ \E withKey \in BOOLEAN : CreateProvider(t, p, withKey) \/ InstallProvider(t, p, withKey)
    \/ \E do \in {"nothing", "set", "clear"} : UpdateProvider(t, p, do)
    \/ DeleteProvider(t, p) \/ RemoveProvider(t, p)
    \/ \E q \in Providers : RenameProvider(t, p, q)

EditProfiles(t) ==
  \E f \in Profiles :
    \/ \E c \in SUBSET Providers :
         ReorderChain(t, f, c) \/ UpdateProfile(t, f, c) \/ UpdateProfileRefused(t, f, c)
    \/ CreateProfile(t, f) \/ DeleteProfile(t, f)

HandlerStep(t) ==
  \/ \E declared \in SUBSET Profiles : DeclareAgents(t, declared)
  \/ Dump(t) \/ Write(t) \/ WriteFails(t)
  \/ \E learned \in BOOLEAN : Learn(t, learned)
  \/ StoreKeyFirst(t) \/ Finish(t) \/ CopyKey(t) \/ NoKeyToMove(t) \/ DropKey(t)
  \/ KeyFails(t)

Next ==
  \/ \E t \in Threads : EditProviders(t) \/ EditProfiles(t) \/ ListLanes(t) \/ HandlerStep(t)
  \/ Restart

Spec == Init /\ [][Next]_vars

-----------------------------------------------------------------------------
(* config.save() after each edit: once no handler is under way, a section's  *)
(* row is what is in memory, whatever handlers overlapped, unless the row    *)
(* lags: its last write failed or was rendered before a later edit, a PUT    *)
(* was refused half-way, or a boot fell back to the seed.                    *)
EditsReachDisk == Quiet => \A s \in Sections \ lagging : row[s] = Memory(s)

(* An empty chain, which makes the next boot drop every profile, comes only  *)
(* from stripping a deleted provider, from a PUT of the profile, or from the *)
(* mapping of a profile deleted meanwhile; creating, renaming and reordering *)
(* never cause it, in memory or on disk.                                     *)
EmptyChainHasCause == Empties(chains) \/ Empties(row["profiles"]) => emptied

(* _hydrate falls back section by section: a restart between edits keeps a   *)
(* section that is saved, valid and not empty, whatever became of the other. *)
KeepsSection(s) ==
  /\ Restart /\ Quiet /\ s \notin lagging
  /\ ~IsEmpty(s, Memory(s)) /\ Valid(s, Memory(s))
  => Memory(s)' = Memory(s)

RestartKeepsEdits == [][\A s \in Sections : KeepsSection(s)]_vars

(* Deleting and renaming take the stored key along: a key without a provider *)
(* takes a race, a failed write or a crash in the middle of an edit.         *)
KeysHaveOwners == Quiet /\ ~disturbed => keys \subseteq providers

-----------------------------------------------------------------------------
(* _serve_chain_reorder's comment on a stored section with an empty chain,   *)
(* which the loader would replace by the defaults: "Refusing the write here  *)
(* keeps that state unreachable".                                            *)
NoEmptyChainStored == ~Empties(row["profiles"])
=============================================================================

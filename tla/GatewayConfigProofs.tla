------------------------ MODULE GatewayConfigProofs ------------------------
(***************************************************************************)
(* What GatewayConfig promises for every set of providers, profiles and    *)
(* handler threads, and any number of edits, failed writes and restarts.   *)
(*                                                                         *)
(* EditsReachDisk speaks of the states in which no handler is under way.   *)
(* Reach extends it to all: a row that differs from memory, and does not   *)
(* lag, is still to be written by some thread.  EmptyChainHasCause needs   *)
(* the same of the texts that were rendered and not written (TextCause).   *)
(* KeysHaveOwners needs KeyInv: as long as handlers come one by one, a key *)
(* without its provider is one the handler under way is about to clear,    *)
(* and the row a killed process would boot from agrees with memory.        *)
(***************************************************************************)
EXTENDS GatewayConfig, TLAPS

\* Thread t is in save() and has not written section s.
ToWrite(t, s) ==
  /\ pc[t] \in {"dump", "write"}
  /\ sec[t] = s \/ sec[t] = "profiles"

Reach ==
  \A s \in Sections \ lagging : row[s] = Memory(s) \/ \E t \in Threads : ToWrite(t, s)

TextCause ==
  \A t \in Threads : pc[t] = "write" /\ sec[t] = "profiles" /\ Empties(text[t]) => emptied

IInv == TypeOK /\ Reach /\ EmptyChainHasCause /\ TextCause

-----------------------------------------------------------------------------
(* The values of the profiles section are the functions on sets of profiles. *)
LEMMA ChainMap ==
  \A c : c \in ChainMaps <=>
           DOMAIN c \in SUBSET Profiles /\ c \in [DOMAIN c -> SUBSET Providers]
<1> SUFFICES ASSUME NEW c
             PROVE  c \in ChainMaps <=>
                      DOMAIN c \in SUBSET Profiles /\ c \in [DOMAIN c -> SUBSET Providers]
  OBVIOUS
<1>1. ASSUME c \in ChainMaps
      PROVE  DOMAIN c \in SUBSET Profiles /\ c \in [DOMAIN c -> SUBSET Providers]
  <2> PICK D \in SUBSET Profiles : c \in [D -> SUBSET Providers]
    BY <1>1 DEF ChainMaps
  <2> QED OBVIOUS
<1>2. ASSUME DOMAIN c \in SUBSET Profiles, c \in [DOMAIN c -> SUBSET Providers]
      PROVE  c \in ChainMaps
  BY <1>2 DEF ChainMaps
<1> QED BY <1>1, <1>2

(* A handler that begins keeps the counters well typed.                      *)
LEMMA EditType ==
  ASSUME HistoryOK, NEW t \in Threads, Edit(t)
  PROVE  /\ edits' \in 0..MaxEdits /\ faults' \in 0..MaxFaults /\ disturbed' \in BOOLEAN
         /\ faults' = faults /\ pc[t] = "idle"
<1>1. disturbed' \in BOOLEAN
  BY Zenon DEF Edit, HistoryOK
<1> QED BY <1>1, ConfigAssumption DEF Edit, HistoryOK, Idle

(* A handler that begins to save keeps the threads' locals well typed.       *)
LEMMA SaveType ==
  ASSUME LocalOK, NEW t \in Threads, NEW then \in Afters, Save(t, then),
         then.do # "nothing" => then.p \in Providers,
         then.do = "move" => then.q \in Providers,
         lanes' \in [Threads -> SUBSET Profiles]
  PROVE  LocalOK'
BY DEF Save, Goto, LocalOK, PCs, Sections

(* What an edit of the chains records is well typed.                         *)
LEMMA ChainsType ==
  ASSUME HistoryOK, NEW c, c \in ChainMaps, NEW b \in BOOLEAN, SetChains(c, b)
  PROVE  chains' \in ChainMaps /\ emptied' \in BOOLEAN
<1>1. emptied' \in BOOLEAN
  BY Zenon DEF SetChains, HistoryOK
<1> QED BY <1>1 DEF SetChains

(* What follows a save is well typed.                                        *)
LEMMA AfterTypes ==
  /\ Nothing \in Afters /\ Nothing.do = "nothing"
  /\ [Nothing EXCEPT !.learn = TRUE] \in Afters
  /\ [Nothing EXCEPT !.learn = TRUE].do = "nothing"
  /\ \A p \in Providers :
       /\ [Nothing EXCEPT !.do = "clear", !.p = p] \in Afters
       /\ [Nothing EXCEPT !.do = "clear", !.p = p].p = p
       /\ [Nothing EXCEPT !.do = "clear", !.p = p].do = "clear"
BY DEF Nothing, Afters

(* Every edit of the profiles section leaves a value of it.                  *)
LEMMA ChainEdits ==
  ASSUME chains \in ChainMaps
  PROVE  /\ \A p \in Providers : Stripped(p) \in ChainMaps
         /\ \A p, q \in Providers : Renamed(p, q) \in ChainMaps
         /\ \A f \in DOMAIN chains, c \in SUBSET Providers : [chains EXCEPT ![f] = c] \in ChainMaps
         /\ \A f \in Profiles, c \in SUBSET Providers : With(f, c) \in ChainMaps
         /\ \A f \in Profiles : [g \in DOMAIN chains \ {f} |-> chains[g]] \in ChainMaps
         /\ DonorChain \in SUBSET Providers
         /\ \A d \in SUBSET Profiles :
              [g \in DOMAIN chains \union d |-> IF g \in DOMAIN chains THEN chains[g] ELSE {}]
                \in ChainMaps
<1>0. DOMAIN chains \in SUBSET Profiles /\ chains \in [DOMAIN chains -> SUBSET Providers]
  BY ChainMap
<1>1. \A p \in Providers : Stripped(p) \in ChainMaps
  BY <1>0, ChainMap DEF Stripped
<1>2. \A p, q \in Providers : Renamed(p, q) \in ChainMaps
  <2> SUFFICES ASSUME NEW p \in Providers, NEW q \in Providers PROVE Renamed(p, q) \in ChainMaps
    OBVIOUS
  <2>1. Renamed(p, q) \in [DOMAIN chains -> SUBSET Providers]
    BY <1>0 DEF Renamed
  <2> QED BY <1>0, <2>1, ChainMap
<1>3. \A f \in DOMAIN chains, c \in SUBSET Providers : [chains EXCEPT ![f] = c] \in ChainMaps
  BY <1>0, ChainMap
<1>4. \A f \in Profiles, c \in SUBSET Providers : With(f, c) \in ChainMaps
  <2> SUFFICES ASSUME NEW f \in Profiles, NEW c \in SUBSET Providers PROVE With(f, c) \in ChainMaps
    OBVIOUS
  <2>1. With(f, c) \in [DOMAIN chains \union {f} -> SUBSET Providers]
    BY <1>0 DEF With
  <2>2. DOMAIN With(f, c) = DOMAIN chains \union {f}
    BY DEF With
  <2> QED BY <1>0, <2>1, <2>2, ChainMap
<1>5. \A f \in Profiles : [g \in DOMAIN chains \ {f} |-> chains[g]] \in ChainMaps
  BY <1>0, ChainMap
<1>6. DonorChain \in SUBSET Providers
  BY <1>0 DEF DonorChain
<1>7. \A d \in SUBSET Profiles :
        [g \in DOMAIN chains \union d |-> IF g \in DOMAIN chains THEN chains[g] ELSE {}]
          \in ChainMaps
  <2> SUFFICES ASSUME NEW d \in SUBSET Profiles
               PROVE  [g \in DOMAIN chains \union d |->
                         IF g \in DOMAIN chains THEN chains[g] ELSE {}] \in ChainMaps
    OBVIOUS
  <2> DEFINE c == [g \in DOMAIN chains \union d |->
                     IF g \in DOMAIN chains THEN chains[g] ELSE {}]
  <2>1. c \in [DOMAIN chains \union d -> SUBSET Providers] /\ DOMAIN c = DOMAIN chains \union d
    BY <1>0
  <2> QED BY <1>0, <2>1, ChainMap
<1> QED BY <1>1, <1>2, <1>3, <1>4, <1>5, <1>6, <1>7

(* The configuration a first boot has stored satisfies the invariant.        *)
LEMMA InitInv == Init => IInv
<1> SUFFICES ASSUME Init PROVE IInv
  OBVIOUS
<1>1. /\ row = [s \in Sections |-> row[s]]
      /\ row["profiles"] = chains /\ row["providers"] = providers
  BY DEF Init, Seed, Sections
<1>2. StoreOK
  BY <1>1, ConfigAssumption DEF Init, StoreOK, Values, Sections
<1>3. LocalOK
  BY AfterTypes DEF Init, LocalOK, PCs, Sections
<1>4. HistoryOK
  <2>1. emptied \in BOOLEAN /\ disturbed \in BOOLEAN
    BY Zenon DEF Init
  <2> QED BY <2>1, ConfigAssumption DEF Init, HistoryOK
<1>5. Reach
  BY <1>1 DEF Reach, Memory, Sections
<1>6. EmptyChainHasCause /\ TextCause
  BY <1>1, ConfigAssumption DEF Init, EmptyChainHasCause, TextCause, Empties
<1> QED BY <1>2, <1>3, <1>4, <1>5, <1>6 DEF IInv, TypeOK

-----------------------------------------------------------------------------
(* _hydrate returns a value of the section without an empty chain.           *)
LEMMA HydratedType ==
  ASSUME StoreOK
  PROVE  /\ Hydrated("profiles") \in ChainMaps /\ ~Empties(Hydrated("profiles"))
         /\ Hydrated("providers") \in SUBSET Providers
BY ConfigAssumption DEF StoreOK, Hydrated, Valid, Seed, Values, Sections, Empties

\* An edit of the profiles section that may empty a chain says so.
ChainEdit(t) ==
  \E c \in ChainMaps, b \in BOOLEAN :
    EditChains(t, c, b) /\ (Empties(c) => b \/ Empties(chains))

(* Renaming a provider empties no chain.                                     *)
LEMMA RenameKeepsSteps ==
  ASSUME NEW p, NEW q, Empties(Renamed(p, q)) PROVE Empties(chains)
BY DEF Empties, Renamed

(* Of the endpoints that edit profiles and save, only PUT may empty a chain. *)
LEMMA ProfileEdits ==
  ASSUME chains \in ChainMaps, NEW t \in Threads, NEW f \in Profiles, NEW c \in SUBSET Providers,
         ReorderChain(t, f, c) \/ UpdateProfile(t, f, c) \/ CreateProfile(t, f) \/ DeleteProfile(t, f)
  PROVE  ChainEdit(t)
<1>0. DOMAIN chains \in SUBSET Profiles /\ chains \in [DOMAIN chains -> SUBSET Providers]
  BY ChainMap
<1>1. CASE ReorderChain(t, f, c)
  <2> DEFINE d == [chains EXCEPT ![f] = c]
  <2>1. d \in ChainMaps /\ EditChains(t, d, FALSE)
    BY <1>1, ChainEdits DEF ReorderChain
  <2>2. Empties(d) => Empties(chains)
    BY <1>0, <1>1 DEF ReorderChain, Empties
  <2> QED BY <2>1, <2>2 DEF ChainEdit
<1>2. CASE UpdateProfile(t, f, c)
  <2> DEFINE d == [chains EXCEPT ![f] = c]
  <2>1. d \in ChainMaps /\ EditChains(t, d, TRUE)
    BY <1>2, ChainEdits DEF UpdateProfile
  <2> QED BY <2>1 DEF ChainEdit
<1>3. CASE CreateProfile(t, f)
  <2> DEFINE d == With(f, DonorChain)
  <2>1. d \in ChainMaps /\ EditChains(t, d, FALSE)
    BY <1>3, ChainEdits DEF CreateProfile
  <2>2. Empties(d) => Empties(chains)
    BY <1>0, <1>3 DEF CreateProfile, Empties, With
  <2> QED BY <2>1, <2>2 DEF ChainEdit
<1>4. CASE DeleteProfile(t, f)
  <2> DEFINE d == [g \in DOMAIN chains \ {f} |-> chains[g]]
  <2>1. d \in ChainMaps /\ EditChains(t, d, FALSE)
    BY <1>4, ChainEdits DEF DeleteProfile
  <2>2. Empties(d) => Empties(chains)
    BY <1>0 DEF Empties
  <2> QED BY <2>1, <2>2 DEF ChainEdit
<1> QED BY <1>1, <1>2, <1>3, <1>4

\* What a thread may do, with the endpoints that share their steps as one.
Step(t) ==
  \/ \E p \in Providers, k, l \in BOOLEAN : Upsert(t, p, k, l)
  \/ \E p \in Providers, do \in {"nothing", "set", "clear"} : UpdateProvider(t, p, do)
  \/ \E p \in Providers : Discard(t, p)
  \/ \E p, q \in Providers : RenameProvider(t, p, q)
  \/ ChainEdit(t)
  \/ \E f \in Profiles, c \in SUBSET Providers : UpdateProfileRefused(t, f, c)
  \/ ListLanes(t)
  \/ \E d \in SUBSET Profiles : DeclareAgents(t, d)
  \/ Dump(t) \/ Write(t) \/ WriteFails(t)
  \/ \E l \in BOOLEAN : Learn(t, l)
  \/ StoreKeyFirst(t) \/ Finish(t) \/ CopyKey(t) \/ NoKeyToMove(t) \/ DropKey(t) \/ KeyFails(t)

(* Next is a step of a thread or a restart.                                  *)
LEMMA NextIsStep ==
  ASSUME chains \in ChainMaps, Next PROVE Restart \/ \E t \in Threads : Step(t)
<1> SUFFICES ASSUME NEW t \in Threads,
                    EditProviders(t) \/ EditProfiles(t) \/ ListLanes(t) \/ HandlerStep(t)
             PROVE  Step(t)
  BY DEF Next
<1>1. CASE EditProviders(t)
  BY <1>1 DEF EditProviders, Step, CreateProvider, InstallProvider, DeleteProvider, RemoveProvider
<1>2. CASE EditProfiles(t)
  <2> PICK f \in Profiles :
        \/ \E c \in SUBSET Providers :
             ReorderChain(t, f, c) \/ UpdateProfile(t, f, c) \/ UpdateProfileRefused(t, f, c)
        \/ CreateProfile(t, f) \/ DeleteProfile(t, f)
    BY <1>2 DEF EditProfiles
  <2> {} \in SUBSET Providers
    OBVIOUS
  <2> QED BY ProfileEdits DEF Step
<1>3. CASE ListLanes(t) \/ HandlerStep(t)
  BY <1>3 DEF HandlerStep, Step
<1> QED BY <1>1, <1>2, <1>3

-----------------------------------------------------------------------------
(* On the way from one section to the next the locals stay well typed.       *)
LEMMA SectionType ==
  ASSUME LocalOK, NEW t \in Threads, NextSection(t) PROVE LocalOK'
BY DEF NextSection, Goto, LocalOK, PCs, Sections

(* So they do when the handler is done.                                      *)
LEMMA DoneType ==
  ASSUME LocalOK, NEW t \in Threads, Done(t) PROVE LocalOK'
BY AfterTypes DEF Done, Goto, LocalOK, PCs

(* Every step keeps the types.                                               *)
LEMMA TypeStep == ASSUME TypeOK, [Next]_vars PROVE TypeOK'
<1> USE DEF TypeOK
<1>0. CASE UNCHANGED vars
  BY <1>0 DEF vars, memory, local, history, StoreOK, LocalOK, HistoryOK
<1>R. CASE Restart
  <2>1. StoreOK'
    BY <1>R, HydratedType DEF Restart, StoreOK, Values, Sections
  <2>2. LocalOK'
    BY <1>R, AfterTypes DEF Restart, LocalOK, PCs, Sections
  <2>3. disturbed' \in BOOLEAN
    BY <1>R, Zenon DEF Restart, HistoryOK
  <2>4. HistoryOK'
    BY <1>R, <2>3 DEF Restart, HistoryOK
  <2> QED BY <2>1, <2>2, <2>4
<1>S. ASSUME NEW t \in Threads, Step(t) PROVE TypeOK'
  <2> USE DEF Step
  <2>1. ASSUME NEW p \in Providers, NEW k \in BOOLEAN, NEW l \in BOOLEAN, Upsert(t, p, k, l)
        PROVE  TypeOK'
    <3> DEFINE then == [learn |-> l, do |-> IF k THEN "set" ELSE "nothing", p |-> p, q |-> NoText]
    <3>1. then \in Afters /\ then.p \in Providers /\ then.do # "move"
      BY DEF Afters
    <3>2. LocalOK'
      <4>1. Save(t, then) /\ lanes' \in [Threads -> SUBSET Profiles]
        BY <2>1 DEF Upsert, LocalOK
      <4> HIDE DEF then
      <4> QED BY <3>1, <4>1, SaveType
    <3>3. StoreOK'
      BY <2>1 DEF Upsert, StoreOK
    <3>4. HistoryOK'
      BY <2>1, EditType DEF Upsert, HistoryOK
    <3> QED BY <3>2, <3>3, <3>4
  <2>2. ASSUME NEW p \in Providers, NEW do \in {"nothing", "set", "clear"}, UpdateProvider(t, p, do)
        PROVE  TypeOK'
    <3>1. LocalOK'
      <4>1. lanes' = lanes
        BY <2>2 DEF UpdateProvider
      <4>2. CASE do = "nothing"
        BY <2>2, <4>1, <4>2, SaveType, AfterTypes DEF UpdateProvider, LocalOK
      <4>3. CASE do # "nothing"
        <5>1. [learn |-> TRUE, do |-> do, p |-> p, q |-> NoText] \in Afters
          BY DEF Afters
        <5>2. /\ pc' = [pc EXCEPT ![t] = "key"] /\ sec' = sec /\ text' = text
              /\ after' = [after EXCEPT
                   ![t] = [learn |-> TRUE, do |-> do, p |-> p, q |-> NoText]]
          BY <2>2, <4>3 DEF UpdateProvider, Goto
        <5>3. pc' \in [Threads -> PCs] /\ after' \in [Threads -> Afters]
          BY <5>1, <5>2 DEF LocalOK, PCs
        <5>4. \A u \in Threads :
                /\ pc'[u] = "write" => pc[u] = "write"
                /\ after'[u].do # "nothing" => after'[u].p \in Providers
                /\ after'[u].do = "move" => after'[u].q \in Providers
          BY <5>2 DEF LocalOK
        <5> QED BY <4>1, <5>2, <5>3, <5>4 DEF LocalOK
      <4> QED BY <4>2, <4>3
    <3>2. StoreOK'
      BY <2>2 DEF UpdateProvider, memory, StoreOK
    <3>3. HistoryOK'
      BY <2>2, EditType DEF UpdateProvider, HistoryOK
    <3> QED BY <3>1, <3>2, <3>3
  <2>3. ASSUME NEW p \in Providers, Discard(t, p) PROVE TypeOK'
    <3>1. LocalOK'
      BY <2>3, SaveType, AfterTypes DEF Discard, LocalOK
    <3>2. chains' \in ChainMaps /\ emptied' \in BOOLEAN
      BY <2>3, ChainsType, ChainEdits DEF Discard, StoreOK
    <3>3. StoreOK'
      BY <2>3, <3>2 DEF Discard, StoreOK
    <3>4. HistoryOK'
      BY <2>3, <3>2, EditType DEF Discard, HistoryOK
    <3> QED BY <3>1, <3>3, <3>4
  <2>4. ASSUME NEW p \in Providers, NEW q \in Providers, RenameProvider(t, p, q) PROVE TypeOK'
    <3> DEFINE then == [learn |-> FALSE, do |-> "move", p |-> p, q |-> q]
    <3>1. LocalOK'
      <4>1. then \in Afters /\ then.p \in Providers /\ then.q \in Providers
        BY DEF Afters
      <4>2. Save(t, then) /\ lanes' \in [Threads -> SUBSET Profiles]
        BY <2>4 DEF RenameProvider, LocalOK
      <4> HIDE DEF then
      <4> QED BY <4>1, <4>2, SaveType
    <3>2. chains' \in ChainMaps /\ emptied' \in BOOLEAN
      <4>1. Renamed(p, q) \in ChainMaps
        BY ChainEdits DEF StoreOK
      <4> QED BY <2>4, <4>1, ChainsType DEF RenameProvider
    <3>3. StoreOK'
      BY <2>4, <3>2 DEF RenameProvider, StoreOK
    <3>4. HistoryOK'
      BY <2>4, <3>2, EditType DEF RenameProvider, HistoryOK
    <3> QED BY <3>1, <3>3, <3>4
  <2>5. CASE ChainEdit(t)
    <3> PICK c \in ChainMaps, b \in BOOLEAN : EditChains(t, c, b)
      BY <2>5 DEF ChainEdit
    <3>1. LocalOK'
      BY SaveType, AfterTypes DEF EditChains, LocalOK
    <3>2. chains' \in ChainMaps /\ emptied' \in BOOLEAN
      BY ChainsType DEF EditChains
    <3>3. StoreOK'
      BY <3>2 DEF EditChains, StoreOK
    <3>4. HistoryOK'
      BY <3>2, EditType DEF EditChains, HistoryOK
    <3> QED BY <3>1, <3>3, <3>4
  <2>6. ASSUME NEW f \in Profiles, NEW c \in SUBSET Providers, UpdateProfileRefused(t, f, c)
        PROVE  TypeOK'
    <3>1. LocalOK'
      BY <2>6 DEF UpdateProfileRefused, local, LocalOK
    <3>2. chains' \in ChainMaps /\ emptied' \in BOOLEAN
      BY <2>6, ChainsType, ChainEdits DEF UpdateProfileRefused, StoreOK
    <3>3. StoreOK'
      BY <2>6, <3>2 DEF UpdateProfileRefused, StoreOK
    <3>4. HistoryOK'
      BY <2>6, <3>2, EditType DEF UpdateProfileRefused, HistoryOK, Sections
    <3> QED BY <3>1, <3>3, <3>4
  <2>7. CASE ListLanes(t)
    <3>1. DOMAIN chains \in SUBSET Profiles
      BY ChainMap DEF StoreOK
    <3>2. LocalOK'
      BY <2>7, <3>1 DEF ListLanes, Goto, LocalOK, PCs
    <3>3. StoreOK'
      BY <2>7 DEF ListLanes, memory, StoreOK
    <3>4. HistoryOK'
      BY <2>7, EditType DEF ListLanes, HistoryOK
    <3> QED BY <3>2, <3>3, <3>4
  <2>8. ASSUME NEW d \in SUBSET Profiles, DeclareAgents(t, d) PROVE TypeOK'
    <3>0. lanes' \in [Threads -> SUBSET Profiles]
      BY <2>8 DEF DeclareAgents, LocalOK
    <3>1. LocalOK'
      <4>1. CASE d = {}
        BY <2>8, <3>0, <4>1 DEF DeclareAgents, Goto, LocalOK, PCs
      <4>2. CASE d # {}
        BY <2>8, <3>0, <4>2, SaveType, AfterTypes DEF DeclareAgents
      <4> QED BY <4>1, <4>2
    <3>2. chains' \in ChainMaps /\ emptied' \in BOOLEAN
      BY <2>8, ChainsType, ChainEdits DEF DeclareAgents, StoreOK
    <3>3. StoreOK'
      BY <2>8, <3>2 DEF DeclareAgents, StoreOK
    <3>4. HistoryOK'
      BY <2>8, <3>2 DEF DeclareAgents, HistoryOK
    <3> QED BY <3>1, <3>3, <3>4
  <2>9. CASE Dump(t)
    <3>1. Memory(sec[t]) \in Values(sec[t])
      BY DEF Memory, Values, StoreOK
    <3>2. LocalOK'
      BY <2>9, <3>1 DEF Dump, Goto, LocalOK, PCs
    <3> QED BY <2>9, <3>2 DEF Dump, memory, history, StoreOK, HistoryOK
  <2>10. CASE Write(t)
    <3>1. StoreOK'
      BY <2>10 DEF Write, NextSection, memory, StoreOK, LocalOK
    <3>2. HistoryOK'
      BY <2>10 DEF Write, NextSection, HistoryOK, LocalOK
    <3>3. LocalOK'
      BY <2>10, SectionType DEF Write
    <3> QED BY <3>1, <3>2, <3>3
  <2>11. CASE WriteFails(t)
    <3>1. StoreOK'
      BY <2>11 DEF WriteFails, NextSection, memory, StoreOK
    <3>2. disturbed' \in BOOLEAN
      BY <2>11, Zenon DEF WriteFails, Fault
    <3>3. HistoryOK'
      <4>1. faults' \in 0..MaxFaults
        BY <2>11, ConfigAssumption DEF WriteFails, Fault, HistoryOK
      <4>2. lagging' \in SUBSET Sections
        BY <2>11 DEF WriteFails, HistoryOK, LocalOK
      <4>3. emptied' = emptied /\ edits' = edits
        BY <2>11 DEF WriteFails, NextSection
      <4> QED BY <3>2, <4>1, <4>2, <4>3 DEF HistoryOK
    <3>4. LocalOK'
      BY <2>11, SectionType DEF WriteFails
    <3> QED BY <3>1, <3>3, <3>4
  <2>12. ASSUME NEW l \in BOOLEAN, Learn(t, l) PROVE TypeOK'
    <3> DEFINE then == [after[t] EXCEPT !.learn = FALSE]
    <3>0. /\ then \in Afters /\ (then.do # "nothing" => then.p \in Providers)
          /\ (then.do = "move" => then.q \in Providers)
      BY DEF LocalOK, Afters
    <3>1. LocalOK'
      <4>1. CASE l
        <5>1. Save(t, then) /\ lanes' \in [Threads -> SUBSET Profiles]
          BY <2>12, <4>1 DEF Learn, LocalOK
        <5> HIDE DEF then
        <5> QED BY <3>0, <5>1, SaveType
      <4>2. CASE ~l
        BY <2>12, <4>2 DEF Learn, Goto, LocalOK, PCs
      <4> QED BY <4>1, <4>2
    <3> QED BY <2>12, <3>1 DEF Learn, memory, history, StoreOK, HistoryOK
  <2>13. CASE StoreKeyFirst(t)
    <3>1. LocalOK'
      BY <2>13, SaveType, AfterTypes DEF StoreKeyFirst, LocalOK
    <3>2. StoreOK'
      <4>1. keys' \in SUBSET Providers
        <5>1. CASE after[t].do = "set"
          BY <2>13, <5>1 DEF StoreKeyFirst, StoreOK, LocalOK
        <5>2. CASE after[t].do # "set"
          BY <2>13, <5>2 DEF StoreKeyFirst, StoreOK
        <5> QED BY <5>1, <5>2
      <4> QED BY <2>13, <4>1 DEF StoreKeyFirst, memory, StoreOK
    <3> QED BY <2>13, <3>1, <3>2 DEF StoreKeyFirst, history, HistoryOK
  <2>14. CASE Finish(t)
    <3>1. LocalOK'
      BY <2>14, DoneType DEF Finish
    <3>2. keys' \in SUBSET Providers
      <4>1. CASE after[t].do = "set"
        BY <2>14, <4>1 DEF Finish, StoreOK, LocalOK
      <4>2. CASE after[t].do # "set"
        BY <2>14, <4>2 DEF Finish, StoreOK
      <4> QED BY <4>1, <4>2
    <3> QED BY <2>14, <3>1, <3>2 DEF Finish, Done, memory, StoreOK, HistoryOK
  <2>15. CASE CopyKey(t)
    <3>1. LocalOK'
      BY <2>15 DEF CopyKey, Goto, LocalOK, PCs
    <3>2. keys' \in SUBSET Providers
      BY <2>15 DEF CopyKey, StoreOK, LocalOK
    <3> QED BY <2>15, <3>1, <3>2 DEF CopyKey, memory, history, StoreOK, HistoryOK
  <2>16. CASE NoKeyToMove(t) \/ DropKey(t)
    <3>1. LocalOK'
      BY <2>16, DoneType DEF NoKeyToMove, DropKey
    <3> QED BY <2>16, <3>1 DEF NoKeyToMove, DropKey, Done, memory, StoreOK, HistoryOK
  <2>17. CASE KeyFails(t)
    <3>1. LocalOK'
      BY <2>17, DoneType DEF KeyFails
    <3>2. disturbed' \in BOOLEAN
      BY <2>17, Zenon DEF KeyFails, Fault
    <3>3. StoreOK'
      BY <2>17 DEF KeyFails, Done, memory, StoreOK
    <3>4. HistoryOK'
      <4>1. faults' \in 0..MaxFaults
        BY <2>17, ConfigAssumption DEF KeyFails, Fault, HistoryOK
      <4>2. UNCHANGED <<lagging, emptied, edits>>
        BY <2>17 DEF KeyFails, Done
      <4> QED BY <3>2, <4>1, <4>2 DEF HistoryOK
    <3> QED BY <3>1, <3>3, <3>4
  <2> HIDE DEF TypeOK
  <2> QED BY <1>S, <2>1, <2>2, <2>3, <2>4, <2>5, <2>6, <2>7, <2>8, <2>9, <2>10, <2>11, <2>12,
             <2>13, <2>14, <2>15, <2>16, <2>17
<1> QED BY <1>0, <1>R, <1>S, NextIsStep DEF StoreOK

-----------------------------------------------------------------------------
(* A thread that begins to save has every section to write.                  *)
LEMMA SaveReach ==
  ASSUME LocalOK, NEW t \in Threads, NEW then, Save(t, then) PROVE Reach'
<1>1. pc'[t] = "dump" /\ sec'[t] = "profiles"
  BY DEF Save, Goto, LocalOK
<1> QED BY <1>1 DEF Reach, ToWrite

(* A step outside save() that leaves memory and rows alone changes nothing.  *)
LEMMA KeepReach ==
  ASSUME LocalOK, Reach, NEW t \in Threads, NEW l, Goto(t, l), pc[t] \notin {"dump", "write"},
         UNCHANGED <<memory, row, lagging, sec>>
  PROVE  Reach'
<1>1. \A s \in Sections : Memory(s)' = Memory(s)
  BY DEF Memory, memory
<1>2. \A u \in Threads, s \in Sections : ToWrite(u, s) => ToWrite(u, s)'
  BY DEF ToWrite, Goto, LocalOK
<1> QED BY <1>1, <1>2 DEF Reach

(* What a section still lacks on disk, some thread is about to write.        *)
LEMMA ReachStep == ASSUME TypeOK, Reach, [Next]_vars PROVE Reach'
<1> LocalOK /\ StoreOK
  BY DEF TypeOK
<1>0. CASE UNCHANGED vars
  BY <1>0 DEF vars, memory, local, history, Reach, ToWrite, Memory
<1>R. CASE Restart
  BY <1>R DEF Restart, Reach, Memory, Sections
<1>S. ASSUME NEW t \in Threads, Step(t) PROVE Reach'
  <2>1. ASSUME NEW p \in Providers, NEW k \in BOOLEAN, NEW l \in BOOLEAN, Upsert(t, p, k, l)
        PROVE  Reach'
    BY <2>1, SaveReach DEF Upsert
  <2>2. ASSUME NEW p \in Providers, NEW do \in {"nothing", "set", "clear"}, UpdateProvider(t, p, do)
        PROVE  Reach'
    <3>1. CASE do = "nothing"
      BY <2>2, <3>1, SaveReach DEF UpdateProvider
    <3>2. CASE do # "nothing"
      <4>1. Goto(t, "key") /\ pc[t] = "idle" /\ UNCHANGED <<memory, row, lagging, sec>>
        BY <2>2, <3>2 DEF UpdateProvider, Edit, Idle
      <4> QED BY <4>1, KeepReach
    <3> QED BY <3>1, <3>2
  <2>3. ASSUME NEW p \in Providers, Discard(t, p) PROVE Reach'
    BY <2>3, SaveReach DEF Discard
  <2>4. ASSUME NEW p \in Providers, NEW q \in Providers, RenameProvider(t, p, q) PROVE Reach'
    BY <2>4, SaveReach DEF RenameProvider
  <2>5. CASE ChainEdit(t)
    BY <2>5, SaveReach DEF ChainEdit, EditChains
  <2>6. ASSUME NEW f \in Profiles, NEW c \in SUBSET Providers, UpdateProfileRefused(t, f, c)
        PROVE  Reach'
    <3>1. /\ UNCHANGED <<providers, row, pc, sec>> /\ "profiles" \in lagging'
          /\ lagging \subseteq lagging'
      BY <2>6 DEF UpdateProfileRefused, local
    <3>2. \A u \in Threads, s \in Sections : ToWrite(u, s)' = ToWrite(u, s)
      BY <3>1 DEF ToWrite
    <3> QED BY <3>1, <3>2 DEF Reach, Memory, Sections
  <2>7. CASE ListLanes(t)
    <3>1. Goto(t, "map") /\ pc[t] = "idle" /\ UNCHANGED <<memory, row, lagging, sec>>
      BY <2>7 DEF ListLanes, Edit, Idle
    <3> QED BY <3>1, KeepReach
  <2>8. ASSUME NEW d \in SUBSET Profiles, DeclareAgents(t, d) PROVE Reach'
    <3>1. CASE d = {}
      <4>1. chains \in [DOMAIN chains -> SUBSET Providers]
        BY ChainMap DEF StoreOK
      <4>2. chains' = [g \in DOMAIN chains |-> chains[g]]
        BY <2>8, <3>1 DEF DeclareAgents, SetChains
      <4>3. chains' = chains
        BY <4>1, <4>2
      <4>4. Goto(t, "idle") /\ pc[t] = "map" /\ UNCHANGED <<memory, row, lagging, sec>>
        BY <2>8, <3>1, <4>3 DEF DeclareAgents, memory
      <4> QED BY <4>4, KeepReach
    <3>2. CASE d # {}
      BY <2>8, <3>2, SaveReach DEF DeclareAgents
    <3> QED BY <3>1, <3>2
  <2>9. CASE Dump(t)
    <3>1. \A u \in Threads, s \in Sections : ToWrite(u, s) => ToWrite(u, s)'
      BY <2>9 DEF Dump, Goto, ToWrite, LocalOK
    <3> QED BY <2>9, <3>1 DEF Dump, memory, history, Reach, Memory
  <2>10. ASSUME Write(t) \/ WriteFails(t) PROVE Reach'
    <3>1. /\ providers' = providers /\ chains' = chains
          /\ \A s \in Sections \ {sec[t]} : row'[s] = row[s] /\ (s \in lagging => s \in lagging')
          /\ sec[t] \notin lagging' => row'[sec[t]] = Memory(sec[t])
      BY <2>10 DEF Write, WriteFails, NextSection, memory, StoreOK, LocalOK
    <3>2. \A s \in Sections : Memory(s)' = Memory(s)
      BY <3>1 DEF Memory
    <3>3. \A u \in Threads \ {t}, s \in Sections : ToWrite(u, s) => ToWrite(u, s)'
      BY <2>10 DEF Write, WriteFails, NextSection, Goto, ToWrite, LocalOK
    <3>4. \A s \in Sections \ {sec[t]} : ToWrite(t, s) => ToWrite(t, s)'
      BY <2>10 DEF Write, WriteFails, NextSection, Goto, ToWrite, LocalOK, Sections
    <3> QED BY <3>1, <3>2, <3>3, <3>4 DEF Reach
  <2>11. ASSUME NEW l \in BOOLEAN, Learn(t, l) PROVE Reach'
    <3>1. CASE l
      BY <2>11, <3>1, SaveReach DEF Learn
    <3>2. CASE ~l
      <4>1. Goto(t, "finish") /\ pc[t] = "learn" /\ UNCHANGED <<memory, row, lagging, sec>>
        BY <2>11, <3>2 DEF Learn, history
      <4> QED BY <4>1, KeepReach
    <3> QED BY <3>1, <3>2
  <2>12. CASE StoreKeyFirst(t)
    BY <2>12, SaveReach DEF StoreKeyFirst
  <2>13. CASE CopyKey(t)
    <3>1. Goto(t, "drop") /\ pc[t] = "finish" /\ UNCHANGED <<memory, row, lagging, sec>>
      BY <2>13 DEF CopyKey, history
    <3> QED BY <3>1, KeepReach
  <2>14. CASE Finish(t) \/ NoKeyToMove(t) \/ DropKey(t) \/ KeyFails(t)
    <3>1. /\ Goto(t, "idle") /\ pc[t] \in {"finish", "drop", "key"}
          /\ UNCHANGED <<memory, row, lagging, sec>>
      BY <2>14 DEF Finish, NoKeyToMove, DropKey, KeyFails, Done
    <3> QED BY <3>1, KeepReach
  <2> QED BY <1>S, <2>1, <2>2, <2>3, <2>4, <2>5, <2>6, <2>7, <2>8, <2>9, <2>10, <2>11, <2>12,
             <2>13, <2>14 DEF Step
<1> QED BY <1>0, <1>R, <1>S, NextIsStep DEF StoreOK

-----------------------------------------------------------------------------
Cause == EmptyChainHasCause /\ TextCause

(* A step that writes no row and renders nothing keeps the causes if the     *)
(* chains do not become empty for no reason.                                 *)
LEMMA KeepCause ==
  ASSUME LocalOK, Cause, NEW t \in Threads, NEW l, Goto(t, l), l # "write",
         row' = row, text' = text, \A u \in Threads \ {t} : sec'[u] = sec[u],
         emptied => emptied', Empties(chains') => emptied'
  PROVE  Cause'
<1>1. EmptyChainHasCause'
  BY DEF EmptyChainHasCause, Cause
<1>2. \A u \in Threads : pc'[u] = "write" => u # t /\ pc[u] = "write"
  BY DEF Goto, LocalOK
<1>3. TextCause'
  BY <1>2 DEF TextCause, Cause
<1> QED BY <1>1, <1>3 DEF Cause

(* The same of an edit that saves.                                           *)
LEMMA EditCause ==
  ASSUME LocalOK, Cause, NEW t \in Threads, NEW then, Save(t, then), row' = row,
         NEW c, NEW b \in BOOLEAN, SetChains(c, b), Empties(c) => b \/ Empties(chains)
  PROVE  Cause'
<1>1. Goto(t, "dump") /\ text' = text /\ \A u \in Threads \ {t} : sec'[u] = sec[u]
  BY DEF Save, LocalOK
<1>2. Empties(chains) => emptied
  BY DEF Cause, EmptyChainHasCause
<1>3. (emptied => emptied') /\ (Empties(chains') => emptied')
  BY <1>2 DEF SetChains
<1> QED BY <1>1, <1>3, KeepCause

(* And of a step that leaves the chains alone.                               *)
LEMMA SameCause ==
  ASSUME LocalOK, Cause, NEW t \in Threads, NEW l, Goto(t, l), l # "write",
         UNCHANGED <<row, text, chains, emptied>>, \A u \in Threads \ {t} : sec'[u] = sec[u]
  PROVE  Cause'
<1>1. Empties(chains') => emptied'
  BY DEF Cause, EmptyChainHasCause
<1> QED BY <1>1, KeepCause

(* Every empty chain, in memory, in a text or on disk, has its cause.        *)
LEMMA CauseStep == ASSUME TypeOK, Cause, [Next]_vars PROVE Cause'
<1> LocalOK /\ StoreOK /\ HistoryOK
  BY DEF TypeOK
<1>0. CASE UNCHANGED vars
  BY <1>0 DEF vars, memory, local, history, Cause, EmptyChainHasCause, TextCause
<1>R. CASE Restart
  <2>1. ~Empties(chains') /\ row' = row /\ emptied' = emptied
    BY <1>R, HydratedType DEF Restart
  <2>2. \A u \in Threads : pc'[u] = "idle"
    BY <1>R DEF Restart
  <2> QED BY <2>1, <2>2 DEF Cause, EmptyChainHasCause, TextCause
<1>S. ASSUME NEW t \in Threads, Step(t) PROVE Cause'
  <2>1. ASSUME NEW p \in Providers, NEW k \in BOOLEAN, NEW l \in BOOLEAN, Upsert(t, p, k, l)
        PROVE  Cause'
    <3>1. /\ Goto(t, "dump") /\ UNCHANGED <<row, text, chains, emptied>>
          /\ \A u \in Threads \ {t} : sec'[u] = sec[u]
      BY <2>1 DEF Upsert, Save, LocalOK
    <3> QED BY <3>1, SameCause
  <2>2. ASSUME NEW p \in Providers, NEW do \in {"nothing", "set", "clear"}, UpdateProvider(t, p, do)
        PROVE  Cause'
    <3>1. /\ Goto(t, "dump") \/ Goto(t, "key")
          /\ UNCHANGED <<row, text, chains, emptied>>
          /\ \A u \in Threads \ {t} : sec'[u] = sec[u]
      BY <2>2 DEF UpdateProvider, Save, memory, LocalOK
    <3> QED BY <3>1, SameCause
  <2>3. ASSUME NEW p \in Providers, Discard(t, p) PROVE Cause'
    BY <2>3, EditCause DEF Discard
  <2>4. ASSUME NEW p \in Providers, NEW q \in Providers, RenameProvider(t, p, q) PROVE Cause'
    BY <2>4, EditCause, RenameKeepsSteps DEF RenameProvider
  <2>5. CASE ChainEdit(t)
    BY <2>5, EditCause DEF ChainEdit, EditChains
  <2>6. ASSUME NEW f \in Profiles, NEW c \in SUBSET Providers, UpdateProfileRefused(t, f, c)
        PROVE  Cause'
    <3>1. /\ UNCHANGED <<row, pc, sec, text>> /\ (emptied => emptied')
          /\ (Empties(chains') => emptied')
      BY <2>6 DEF UpdateProfileRefused, SetChains, local
    <3> QED BY <3>1 DEF Cause, EmptyChainHasCause, TextCause
  <2>7. CASE ListLanes(t)
    <3>1. /\ Goto(t, "map") /\ UNCHANGED <<row, text, chains, emptied>>
          /\ \A u \in Threads \ {t} : sec'[u] = sec[u]
      BY <2>7 DEF ListLanes, memory
    <3> QED BY <3>1, SameCause
  <2>8. ASSUME NEW d \in SUBSET Profiles, DeclareAgents(t, d) PROVE Cause'
    <3>1. /\ row' = row /\ text' = text /\ (Goto(t, "idle") \/ Goto(t, "dump"))
          /\ \A u \in Threads \ {t} : sec'[u] = sec[u]
          /\ (emptied => emptied') /\ (Empties(chains') => emptied')
      BY <2>8 DEF DeclareAgents, SetChains, Save, LocalOK
    <3> QED BY <3>1, KeepCause
  <2>9. CASE Dump(t)
    <3>1. /\ UNCHANGED <<chains, row, sec, emptied>>
          /\ sec[t] = "profiles" => text'[t] = chains
          /\ \A u \in Threads \ {t} : text'[u] = text[u] /\ pc'[u] = pc[u]
      BY <2>9 DEF Dump, Goto, memory, history, Memory, LocalOK
    <3> QED BY <3>1 DEF Cause, EmptyChainHasCause, TextCause
  <2>10. CASE Write(t)
    <3>1. /\ chains' = chains /\ emptied' = emptied
          /\ row'["profiles"] = row["profiles"] \/
               (sec[t] = "profiles" /\ row'["profiles"] = text[t])
          /\ pc[t] = "write" /\ pc'[t] # "write"
          /\ \A u \in Threads \ {t} :
               text'[u] = text[u] /\ pc'[u] = pc[u] /\ sec'[u] = sec[u]
      BY <2>10 DEF Write, NextSection, Goto, memory, LocalOK, StoreOK, Sections
    <3> QED BY <3>1 DEF Cause, EmptyChainHasCause, TextCause
  <2>11. CASE WriteFails(t)
    <3>1. /\ UNCHANGED <<chains, row, emptied>> /\ pc'[t] # "write"
          /\ \A u \in Threads \ {t} :
               text'[u] = text[u] /\ pc'[u] = pc[u] /\ sec'[u] = sec[u]
      BY <2>11 DEF WriteFails, NextSection, Goto, memory, LocalOK
    <3> QED BY <3>1 DEF Cause, EmptyChainHasCause, TextCause
  <2>12. ASSUME NEW l \in BOOLEAN, Learn(t, l) PROVE Cause'
    <3>1. /\ Goto(t, "dump") \/ Goto(t, "finish")
          /\ UNCHANGED <<row, text, chains, emptied>>
          /\ \A u \in Threads \ {t} : sec'[u] = sec[u]
      BY <2>12 DEF Learn, Save, memory, history, LocalOK
    <3> QED BY <3>1, SameCause
  <2>13. CASE StoreKeyFirst(t)
    <3>1. /\ Goto(t, "dump") /\ UNCHANGED <<row, text, chains, emptied>>
          /\ \A u \in Threads \ {t} : sec'[u] = sec[u]
      BY <2>13 DEF StoreKeyFirst, Save, memory, history, LocalOK
    <3> QED BY <3>1, SameCause
  <2>14. CASE CopyKey(t)
    <3>1. /\ Goto(t, "drop") /\ UNCHANGED <<row, text, chains, emptied>> /\ sec' = sec
      BY <2>14 DEF CopyKey, memory, history
    <3> QED BY <3>1, SameCause
  <2>15. CASE Finish(t) \/ NoKeyToMove(t) \/ DropKey(t) \/ KeyFails(t)
    <3>1. /\ Goto(t, "idle") /\ UNCHANGED <<row, text, chains, emptied>> /\ sec' = sec
      BY <2>15 DEF Finish, NoKeyToMove, DropKey, KeyFails, Done, memory
    <3> QED BY <3>1, SameCause
  <2> QED BY <1>S, <2>1, <2>2, <2>3, <2>4, <2>5, <2>6, <2>7, <2>8, <2>9, <2>10, <2>11, <2>12,
             <2>13, <2>14, <2>15 DEF Step
<1> QED BY <1>0, <1>R, <1>S, NextIsStep DEF StoreOK

-----------------------------------------------------------------------------
\* What the handler does after its save() fits where it stands.
TaskOK(t) ==
  /\ pc[t] \in {"idle", "map"} => after[t].do = "nothing"
  /\ pc[t] = "key" => after[t].do \in {"set", "clear"}
  /\ pc[t] = "drop" => after[t].do = "move"

\* At most one handler is under way.
Alone == \A t, u \in Threads : ~Idle(t) /\ ~Idle(u) => t = u

\* The one handler stores a key only for a provider there is, and what its
\* save() has rendered or written is what is in memory.
WorkOK(t) ==
  /\ ~Idle(t) /\ after[t].do = "set" => after[t].p \in providers
  /\ ~Idle(t) /\ after[t].do = "move" => after[t].q \in providers
  /\ pc[t] = "write" => text[t] = Memory(sec[t])
  /\ pc[t] \in {"learn", "finish", "drop"} => row["providers"] = providers

\* The key of k goes when the handler is done.
WillGo(t, k) ==
  /\ pc[t] \in {"dump", "write", "learn", "finish", "drop"}
  /\ after[t].do \in {"clear", "move"} /\ after[t].p = k

\* The row a restart would read, or one so empty that it falls back.
OnDisk ==
  \/ row["providers"] = providers
  \/ row["providers"] = {} /\ keys = {}

Undisturbed ==
  /\ Alone
  /\ \A t \in Threads : WorkOK(t)
  /\ \A k \in keys : k \in providers \/ \E t \in Threads : WillGo(t, k)
  /\ (\A t \in Threads : pc[t] \in {"idle", "map", "key"}) => OnDisk

KeyInv == (\A t \in Threads : TaskOK(t)) /\ (~disturbed => Undisturbed)

(* A thread's step keeps the keys in order when the thread is the only one   *)
(* under way, or when handlers overlap from now on.                          *)
LEMMA KeyBecome ==
  ASSUME KeyInv, NEW t \in Threads,
         \A u \in Threads \ {t} : pc'[u] = pc[u] /\ after'[u] = after[u],
         TaskOK(t)',
         ~disturbed' =>
           /\ \A u \in Threads \ {t} : pc[u] = "idle"
           /\ WorkOK(t)'
           /\ \A k \in keys' : k \in providers' \/ WillGo(t, k)'
           /\ pc'[t] \in {"idle", "map", "key"} => OnDisk'
  PROVE  KeyInv'
<1>1. \A u \in Threads : TaskOK(u)'
  BY DEF KeyInv, TaskOK
<1>2. ASSUME ~disturbed' PROVE Undisturbed'
  <2>1. \A u \in Threads \ {t} : pc'[u] = "idle"
    BY <1>2
  <2>2. Alone'
    BY <2>1 DEF Alone, Idle
  <2>3. \A u \in Threads : WorkOK(u)'
    BY <1>2, <2>1 DEF WorkOK, Idle
  <2>4. \A k \in keys' : k \in providers' \/ \E u \in Threads : WillGo(u, k)'
    BY <1>2
  <2>5. (\A u \in Threads : pc'[u] \in {"idle", "map", "key"}) => OnDisk'
    BY <1>2
  <2> QED BY <2>2, <2>3, <2>4, <2>5 DEF Undisturbed
<1> QED BY <1>1, <1>2 DEF KeyInv

(* A handler that begins alone finds every key with its provider.            *)
LEMMA Begun ==
  ASSUME KeyInv, NEW t \in Threads, Edit(t)
  PROVE  /\ pc[t] = "idle" /\ after[t].do = "nothing"
         /\ ~disturbed' => /\ \A u \in Threads \ {t} : pc[u] = "idle"
                           /\ \A k \in keys : k \in providers
                           /\ OnDisk
<1>1. pc[t] = "idle" /\ after[t].do = "nothing"
  BY DEF Edit, Idle, KeyInv, TaskOK
<1>2. ASSUME ~disturbed' PROVE ~disturbed /\ \A u \in Threads : pc[u] = "idle"
  BY <1>2 DEF Edit, Quiet, Idle
<1>3. ASSUME ~disturbed' PROVE (\A k \in keys : k \in providers) /\ OnDisk
  BY <1>2, <1>3 DEF KeyInv, Undisturbed, WillGo
<1> QED BY <1>1, <1>2, <1>3

(* A handler under way that nobody disturbed is the only one.                *)
LEMMA UnderWay ==
  ASSUME KeyInv, NEW t \in Threads, pc[t] # "idle", ~disturbed
  PROVE  /\ \A u \in Threads \ {t} : pc[u] = "idle"
         /\ WorkOK(t)
         /\ \A k \in keys : k \in providers \/ WillGo(t, k)
         /\ pc[t] \in {"map", "key"} => OnDisk
<1>1. \A u \in Threads \ {t} : pc[u] = "idle"
  BY DEF KeyInv, Undisturbed, Alone, Idle
<1>2. \A k \in keys : k \in providers \/ WillGo(t, k)
  BY <1>1 DEF KeyInv, Undisturbed, WillGo
<1>3. pc[t] \in {"map", "key"} => OnDisk
  BY <1>1 DEF KeyInv, Undisturbed
<1> QED BY <1>1, <1>2, <1>3 DEF KeyInv, Undisturbed

(* A handler that begins to save has its task, and no other is touched.      *)
LEMMA SaveTask ==
  ASSUME LocalOK, NEW t \in Threads, NEW then, Save(t, then)
  PROVE  /\ \A u \in Threads \ {t} : pc'[u] = pc[u] /\ after'[u] = after[u]
         /\ pc'[t] = "dump" /\ after'[t] = then /\ TaskOK(t)'
BY DEF Save, Goto, LocalOK, TaskOK

(* A handler that is done has no task.                                       *)
LEMMA DoneTask ==
  ASSUME LocalOK, NEW t \in Threads, Done(t)
  PROVE  /\ \A u \in Threads \ {t} : pc'[u] = pc[u] /\ after'[u] = after[u]
         /\ pc'[t] = "idle" /\ TaskOK(t)' /\ WorkOK(t)'
         /\ providers' = providers /\ row' = row
BY DEF Done, Goto, LocalOK, TaskOK, WorkOK, Idle, Nothing, memory

(* The same of an edit that saves.                                           *)
LEMMA EditKeys ==
  ASSUME LocalOK, KeyInv, NEW t \in Threads, NEW then, Edit(t), Save(t, then), keys' = keys,
         then.do = "set" => then.p \in providers',
         then.do = "move" => then.q \in providers',
         \A k \in keys : k \in providers =>
           k \in providers' \/ (then.do \in {"clear", "move"} /\ then.p = k)
  PROVE  KeyInv'
<1>1. /\ \A u \in Threads \ {t} : pc'[u] = pc[u] /\ after'[u] = after[u]
      /\ pc'[t] = "dump" /\ after'[t] = then /\ TaskOK(t)'
  BY SaveTask
<1>2. WorkOK(t)'
  BY <1>1 DEF WorkOK
<1>3. ~disturbed' => /\ \A u \in Threads \ {t} : pc[u] = "idle"
                     /\ \A k \in keys' : k \in providers' \/ WillGo(t, k)'
  BY <1>1, Begun DEF WillGo
<1> QED BY <1>1, <1>2, <1>3, KeyBecome

(* A boot, which may put the seed in place of a row that is empty.           *)
LEMMA RestartKeys ==
  ASSUME KeyInv, Restart PROVE KeyInv'
<1>1. \A t \in Threads : pc'[t] = "idle" /\ after'[t].do = "nothing"
  BY AfterTypes DEF Restart
<1>2. \A t \in Threads : TaskOK(t)'
  BY <1>1 DEF TaskOK
<1>3. ASSUME ~disturbed' PROVE Undisturbed'
  <2>1. ~disturbed /\ \A t \in Threads : pc[t] = "idle"
    BY <1>3 DEF Restart, Quiet, Idle
  <2>2. keys \subseteq providers /\ OnDisk
    BY <2>1 DEF KeyInv, Undisturbed, WillGo
  <2>3. keys' = keys /\ row' = row /\ providers' = Hydrated("providers")
    BY DEF Restart
  <2>4. CASE row["providers"] = {}
    BY <2>2, <2>3, <2>4, <1>1 DEF OnDisk, Undisturbed, Alone, WorkOK, Idle
  <2>5. CASE row["providers"] # {}
    <3>1. providers' = row["providers"] /\ row["providers"] = providers
      BY <2>2, <2>3, <2>5 DEF Hydrated, IsEmpty, Valid, OnDisk
    <3> QED BY <2>2, <2>3, <3>1, <1>1 DEF OnDisk, Undisturbed, Alone, WorkOK, Idle
  <2> QED BY <2>4, <2>5
<1> QED BY <1>2, <1>3 DEF KeyInv

(* The steps of the endpoints.                                               *)
LEMMA EndpointKeys ==
  ASSUME LocalOK, KeyInv, NEW t \in Threads,
         \/ \E p \in Providers, k, l \in BOOLEAN : Upsert(t, p, k, l)
         \/ \E p \in Providers, do \in {"nothing", "set", "clear"} : UpdateProvider(t, p, do)
         \/ \E p \in Providers : Discard(t, p)
         \/ \E p, q \in Providers : RenameProvider(t, p, q)
         \/ ChainEdit(t)
         \/ \E f \in Profiles, c \in SUBSET Providers : UpdateProfileRefused(t, f, c)
         \/ ListLanes(t)
  PROVE  KeyInv'
<1>1. ASSUME NEW p \in Providers, NEW k \in BOOLEAN, NEW l \in BOOLEAN, Upsert(t, p, k, l)
      PROVE  KeyInv'
  <2> DEFINE then == [learn |-> l, do |-> IF k THEN "set" ELSE "nothing", p |-> p, q |-> NoText]
  <2>1. then.do \in {"set", "nothing"} /\ then.p = p
    OBVIOUS
  <2>2. Edit(t) /\ Save(t, then) /\ keys' = keys /\ providers' = providers \union {p}
    BY <1>1 DEF Upsert
  <2> HIDE DEF then
  <2>3. /\ then.do = "set" => then.p \in providers'
        /\ then.do = "move" => then.q \in providers'
        /\ \A x \in keys : x \in providers =>
             x \in providers' \/ (then.do \in {"clear", "move"} /\ then.p = x)
    BY <2>1, <2>2
  <2> QED BY <2>2, <2>3, EditKeys
<1>2. ASSUME NEW p \in Providers, NEW do \in {"nothing", "set", "clear"}, UpdateProvider(t, p, do)
      PROVE  KeyInv'
  <2>1. Edit(t) /\ providers' = providers /\ row' = row /\ keys' = keys
    BY <1>2 DEF UpdateProvider, memory
  <2>2. CASE do = "nothing"
    <3> DEFINE then == [Nothing EXCEPT !.learn = TRUE]
    <3>1. then.do = "nothing" /\ Save(t, then)
      BY <1>2, <2>2, AfterTypes DEF UpdateProvider
    <3> HIDE DEF then
    <3>2. /\ then.do = "set" => then.p \in providers'
          /\ then.do = "move" => then.q \in providers'
          /\ \A k \in keys : k \in providers =>
               k \in providers' \/ (then.do \in {"clear", "move"} /\ then.p = k)
      BY <2>1, <3>1
    <3> QED BY <2>1, <3>1, <3>2, EditKeys
  <2>3. CASE do # "nothing"
    <3> DEFINE then == [learn |-> TRUE, do |-> do, p |-> p, q |-> NoText]
    <3>1. then.do = do /\ then.p = p /\ do \in {"set", "clear"}
      BY <2>3
    <3>2. pc' = [pc EXCEPT ![t] = "key"] /\ after' = [after EXCEPT ![t] = then] /\ p \in providers
      BY <1>2, <2>3 DEF UpdateProvider, Goto
    <3> HIDE DEF then
    <3>3. /\ \A u \in Threads \ {t} : pc'[u] = pc[u] /\ after'[u] = after[u]
          /\ pc'[t] = "key" /\ after'[t] = then
      BY <3>2 DEF LocalOK
    <3>4. TaskOK(t)' /\ WorkOK(t)'
      BY <2>1, <3>1, <3>2, <3>3 DEF TaskOK, WorkOK
    <3>5. ~disturbed' => /\ \A u \in Threads \ {t} : pc[u] = "idle"
                         /\ \A k \in keys' : k \in providers'
                         /\ OnDisk'
      BY <2>1, Begun DEF OnDisk
    <3> QED BY <3>3, <3>4, <3>5, KeyBecome
  <2> QED BY <2>2, <2>3
<1>3. ASSUME NEW p \in Providers, Discard(t, p) PROVE KeyInv'
  <2> DEFINE then == [Nothing EXCEPT !.do = "clear", !.p = p]
  <2>1. then.do = "clear" /\ then.p = p
    BY AfterTypes
  <2>2. Edit(t) /\ Save(t, then) /\ keys' = keys /\ providers' = providers \ {p}
    BY <1>3 DEF Discard
  <2> HIDE DEF then
  <2>3. /\ then.do = "set" => then.p \in providers'
        /\ then.do = "move" => then.q \in providers'
        /\ \A k \in keys : k \in providers =>
             k \in providers' \/ (then.do \in {"clear", "move"} /\ then.p = k)
    BY <2>1, <2>2
  <2> QED BY <2>2, <2>3, EditKeys
<1>4. ASSUME NEW p \in Providers, NEW q \in Providers, RenameProvider(t, p, q) PROVE KeyInv'
  <2> DEFINE then == [learn |-> FALSE, do |-> "move", p |-> p, q |-> q]
  <2>1. then.do = "move" /\ then.p = p /\ then.q = q
    OBVIOUS
  <2>2. Edit(t) /\ Save(t, then) /\ keys' = keys /\ providers' = (providers \ {p}) \union {q}
    BY <1>4 DEF RenameProvider
  <2> HIDE DEF then
  <2>3. /\ then.do = "set" => then.p \in providers'
        /\ then.do = "move" => then.q \in providers'
        /\ \A k \in keys : k \in providers =>
             k \in providers' \/ (then.do \in {"clear", "move"} /\ then.p = k)
    BY <2>1, <2>2
  <2> QED BY <2>2, <2>3, EditKeys
<1>5. CASE ChainEdit(t)
  <2>1. Edit(t) /\ Save(t, Nothing) /\ keys' = keys /\ providers' = providers
    BY <1>5 DEF ChainEdit, EditChains
  <2>2. /\ Nothing.do = "set" => Nothing.p \in providers'
        /\ Nothing.do = "move" => Nothing.q \in providers'
        /\ \A k \in keys : k \in providers =>
             k \in providers' \/ (Nothing.do \in {"clear", "move"} /\ Nothing.p = k)
    BY <2>1, AfterTypes
  <2> QED BY <2>1, <2>2, EditKeys
<1>6. ASSUME NEW f \in Profiles, NEW c \in SUBSET Providers, UpdateProfileRefused(t, f, c)
      PROVE  KeyInv'
  <2>1. Edit(t) /\ UNCHANGED <<providers, row, keys, pc, after, text, sec>>
    BY <1>6 DEF UpdateProfileRefused, local
  <2>2. pc[t] = "idle" /\ after[t].do = "nothing"
    BY <2>1, Begun
  <2>3. TaskOK(t)' /\ WorkOK(t)'
    BY <2>1, <2>2 DEF TaskOK, WorkOK, Idle
  <2>4. ~disturbed' => /\ \A u \in Threads \ {t} : pc[u] = "idle"
                       /\ \A k \in keys' : k \in providers'
                       /\ OnDisk'
    BY <2>1, Begun DEF OnDisk
  <2> QED BY <2>1, <2>3, <2>4, KeyBecome
<1>7. CASE ListLanes(t)
  <2>1. Edit(t) /\ UNCHANGED <<providers, row, keys, after, text, sec>> /\ Goto(t, "map")
    BY <1>7 DEF ListLanes, memory
  <2>2. /\ \A u \in Threads \ {t} : pc'[u] = pc[u] /\ after'[u] = after[u]
        /\ pc'[t] = "map" /\ after'[t].do = "nothing"
    BY <2>1, Begun DEF Goto, LocalOK
  <2>3. TaskOK(t)' /\ WorkOK(t)'
    BY <2>1, <2>2 DEF TaskOK, WorkOK, Idle
  <2>4. ~disturbed' => /\ \A u \in Threads \ {t} : pc[u] = "idle"
                       /\ \A k \in keys' : k \in providers'
                       /\ OnDisk'
    BY <2>1, Begun DEF OnDisk
  <2> QED BY <2>2, <2>3, <2>4, KeyBecome
<1> QED BY <1>1, <1>2, <1>3, <1>4, <1>5, <1>6, <1>7

(* The steps of a handler that leave the keys alone.                         *)
LEMMA SaveKeys ==
  ASSUME StoreOK, LocalOK, KeyInv, NEW t \in Threads,
         \/ \E d \in SUBSET Profiles : DeclareAgents(t, d)
         \/ Dump(t) \/ Write(t) \/ WriteFails(t)
         \/ \E l \in BOOLEAN : Learn(t, l)
         \/ KeyFails(t)
  PROVE  KeyInv'
<1>1. ASSUME NEW d \in SUBSET Profiles, DeclareAgents(t, d) PROVE KeyInv'
  <2>1. /\ pc[t] = "map" /\ after[t].do = "nothing"
        /\ UNCHANGED <<providers, row, keys, disturbed>>
    BY <1>1 DEF DeclareAgents, KeyInv, TaskOK
  <2>2. ~disturbed => /\ \A u \in Threads \ {t} : pc[u] = "idle"
                      /\ \A k \in keys : k \in providers
                      /\ OnDisk
    BY <2>1, UnderWay DEF WillGo
  <2>3. CASE d = {}
    <3>1. Goto(t, "idle") /\ UNCHANGED <<sec, text, after>>
      BY <1>1, <2>3 DEF DeclareAgents
    <3>2. /\ \A u \in Threads \ {t} : pc'[u] = pc[u] /\ after'[u] = after[u]
          /\ pc'[t] = "idle" /\ TaskOK(t)' /\ WorkOK(t)'
      BY <2>1, <3>1 DEF Goto, LocalOK, TaskOK, WorkOK, Idle
    <3>3. OnDisk => OnDisk'
      BY <2>1 DEF OnDisk
    <3> QED BY <2>1, <2>2, <3>2, <3>3, KeyBecome
  <2>4. CASE d # {}
    <3>1. Save(t, Nothing)
      BY <1>1, <2>4 DEF DeclareAgents
    <3>2. /\ \A u \in Threads \ {t} : pc'[u] = pc[u] /\ after'[u] = after[u]
          /\ pc'[t] = "dump" /\ after'[t] = Nothing /\ TaskOK(t)'
      BY <3>1, SaveTask
    <3>3. WorkOK(t)'
      BY <3>2, AfterTypes DEF WorkOK
    <3> QED BY <2>1, <2>2, <3>2, <3>3, KeyBecome
  <2> QED BY <2>3, <2>4
<1>2. CASE Dump(t)
  <2>1. /\ pc[t] = "dump" /\ UNCHANGED <<providers, chains, row, keys, after, sec, disturbed>>
        /\ \A u \in Threads \ {t} : pc'[u] = pc[u]
        /\ pc'[t] = "write" /\ text'[t] = Memory(sec[t])
    BY <1>2 DEF Dump, Goto, LocalOK, memory, history
  <2>2. TaskOK(t)' /\ Memory(sec[t])' = Memory(sec[t])
    BY <2>1 DEF TaskOK, Memory
  <2>3. ~disturbed => WorkOK(t)' /\ \A k \in keys : k \in providers \/ WillGo(t, k)'
    BY <2>1, <2>2, UnderWay DEF WorkOK, WillGo, Idle, Memory
  <2> QED BY <2>1, <2>2, <2>3, UnderWay, KeyBecome
<1>3. CASE Write(t)
  <2>1. /\ pc[t] = "write" /\ UNCHANGED <<providers, keys, after, disturbed>>
        /\ \A u \in Threads \ {t} : pc'[u] = pc[u]
        /\ row' = [row EXCEPT ![sec[t]] = text[t]]
        /\ pc'[t] = IF sec[t] = "profiles" THEN "dump" ELSE "learn"
    BY <1>3 DEF Write, NextSection, Goto, LocalOK, memory
  <2>2. TaskOK(t)'
    BY <2>1 DEF TaskOK
  <2>3. ~disturbed => WorkOK(t)
    BY <2>1, UnderWay
  <2>4. ~disturbed => \A k \in keys : k \in providers \/ WillGo(t, k)'
    BY <2>1, UnderWay DEF WillGo
  <2>5. ~disturbed => WorkOK(t)'
    <3>1. sec[t] = "providers" => row'["providers"] = text[t]
      BY <2>1 DEF StoreOK, Sections
    <3>2. sec[t] \in Sections
      BY DEF LocalOK
    <3> QED BY <2>1, <2>3, <3>1, <3>2 DEF WorkOK, Idle, Memory, Sections
  <2> QED BY <2>1, <2>2, <2>4, <2>5, UnderWay, KeyBecome
<1>4. CASE WriteFails(t)
  <2>1. /\ pc[t] = "write" /\ disturbed' /\ after' = after
        /\ \A u \in Threads \ {t} : pc'[u] = pc[u]
        /\ pc'[t] \in {"dump", "learn"}
    BY <1>4 DEF WriteFails, Fault, NextSection, Goto, LocalOK
  <2>2. TaskOK(t)'
    BY <2>1 DEF TaskOK
  <2> QED BY <2>1, <2>2, KeyBecome
<1>5. ASSUME NEW l \in BOOLEAN, Learn(t, l) PROVE KeyInv'
  <2>1. pc[t] = "learn" /\ UNCHANGED <<providers, row, keys, disturbed>>
    BY <1>5 DEF Learn, memory, history
  <2>2. after[t] \in Afters
    BY DEF LocalOK
  <2>3. /\ \A u \in Threads \ {t} : pc'[u] = pc[u] /\ after'[u] = after[u]
        /\ pc'[t] \in {"dump", "finish"}
        /\ after'[t].do = after[t].do /\ after'[t].p = after[t].p /\ after'[t].q = after[t].q
    <3>1. CASE l
      <4> DEFINE then == [after[t] EXCEPT !.learn = FALSE]
      <4>1. then.do = after[t].do /\ then.p = after[t].p /\ then.q = after[t].q
        BY <2>2 DEF Afters
      <4>2. Save(t, then)
        BY <1>5, <3>1 DEF Learn
      <4> HIDE DEF then
      <4> QED BY <4>1, <4>2, SaveTask
    <3>2. CASE ~l
      BY <1>5, <3>2 DEF Learn, Goto, LocalOK
    <3> QED BY <3>1, <3>2
  <2>4. TaskOK(t)'
    BY <2>3 DEF TaskOK
  <2>5. ~disturbed => WorkOK(t)' /\ \A k \in keys : k \in providers \/ WillGo(t, k)'
    BY <2>1, <2>3, UnderWay DEF WorkOK, WillGo, Idle
  <2> QED BY <2>1, <2>3, <2>4, <2>5, UnderWay, KeyBecome
<1>6. CASE KeyFails(t)
  <2>1. Done(t) /\ disturbed'
    BY <1>6 DEF KeyFails, Fault
  <2> QED BY <2>1, DoneTask, KeyBecome
<1> QED BY <1>1, <1>2, <1>3, <1>4, <1>5, <1>6

(* The steps that store, copy and clear a key.                               *)
LEMMA KeyMoves ==
  ASSUME LocalOK, KeyInv, NEW t \in Threads,
         StoreKeyFirst(t) \/ Finish(t) \/ CopyKey(t) \/ NoKeyToMove(t) \/ DropKey(t)
  PROVE  KeyInv'
<1>1. CASE StoreKeyFirst(t)
  <2> DEFINE then == [Nothing EXCEPT !.learn = TRUE]
  <2>1. then.do = "nothing" /\ Save(t, then)
    BY <1>1, AfterTypes DEF StoreKeyFirst
  <2> HIDE DEF then
  <2>2. /\ \A u \in Threads \ {t} : pc'[u] = pc[u] /\ after'[u] = after[u]
        /\ pc'[t] = "dump" /\ after'[t] = then /\ TaskOK(t)'
    BY <2>1, SaveTask
  <2>3. WorkOK(t)'
    BY <2>1, <2>2 DEF WorkOK
  <2>4. /\ pc[t] = "key" /\ UNCHANGED <<providers, row, disturbed>>
        /\ keys' = IF after[t].do = "set" THEN keys \union {after[t].p} ELSE keys \ {after[t].p}
    BY <1>1 DEF StoreKeyFirst, memory, history
  <2>5. ~disturbed => keys' \subseteq providers /\ \A u \in Threads \ {t} : pc[u] = "idle"
    BY <2>4, UnderWay DEF WillGo, WorkOK, Idle
  <2> QED BY <2>2, <2>3, <2>4, <2>5, KeyBecome
<1>2. ASSUME Finish(t) \/ NoKeyToMove(t) \/ DropKey(t) PROVE KeyInv'
  <2>1. Done(t) /\ disturbed' = disturbed /\ pc[t] \in {"finish", "drop"}
    BY <1>2 DEF Finish, NoKeyToMove, DropKey
  <2>2. /\ \A u \in Threads \ {t} : pc'[u] = pc[u] /\ after'[u] = after[u]
        /\ pc'[t] = "idle" /\ TaskOK(t)' /\ WorkOK(t)'
        /\ providers' = providers /\ row' = row
    BY <2>1, DoneTask
  <2>3. ASSUME ~disturbed PROVE keys' \subseteq providers
    <3>1. WorkOK(t) /\ \A k \in keys : k \in providers \/ WillGo(t, k)
      BY <2>1, <2>3, UnderWay
    <3>2. TaskOK(t)
      BY DEF KeyInv
    <3>3. CASE Finish(t)
      BY <3>1, <3>3 DEF Finish, WorkOK, WillGo, Idle
    <3>4. CASE NoKeyToMove(t)
      BY <3>1, <3>4 DEF NoKeyToMove, WillGo
    <3>5. CASE DropKey(t)
      BY <3>1, <3>2, <3>5 DEF DropKey, WillGo, TaskOK
    <3> QED BY <1>2, <3>3, <3>4, <3>5
  <2>4. ~disturbed => (\A u \in Threads \ {t} : pc[u] = "idle") /\ row["providers"] = providers
    BY <2>1, UnderWay DEF WorkOK
  <2> QED BY <2>1, <2>2, <2>3, <2>4, KeyBecome DEF OnDisk
<1>3. CASE CopyKey(t)
  <2>1. /\ pc[t] = "finish" /\ after[t].do = "move"
        /\ UNCHANGED <<providers, row, after, disturbed>>
        /\ keys' = keys \union {after[t].q}
        /\ \A u \in Threads \ {t} : pc'[u] = pc[u]
        /\ pc'[t] = "drop"
    BY <1>3 DEF CopyKey, Goto, LocalOK, memory, history
  <2>2. TaskOK(t)'
    BY <2>1 DEF TaskOK
  <2>3. ~disturbed => WorkOK(t)' /\ \A k \in keys' : k \in providers \/ WillGo(t, k)'
    BY <2>1, UnderWay DEF WorkOK, WillGo, Idle
  <2> QED BY <2>1, <2>2, <2>3, UnderWay, KeyBecome
<1> QED BY <1>1, <1>2, <1>3

(* Every step keeps the keys in order.                                       *)
LEMMA KeyStep == ASSUME TypeOK, KeyInv, [Next]_vars PROVE KeyInv'
<1> StoreOK /\ LocalOK /\ chains \in ChainMaps
  BY DEF TypeOK, StoreOK
<1>0. CASE UNCHANGED vars
  <2>1. UNCHANGED <<providers, chains, row, keys, pc, sec, text, after, disturbed>>
    BY <1>0 DEF vars, memory, local, history
  <2> QED BY <2>1 DEF KeyInv, TaskOK, Undisturbed, Alone, WorkOK, WillGo, OnDisk, Idle, Memory
<1>R. CASE Restart
  BY <1>R, RestartKeys
<1>S. ASSUME NEW t \in Threads, Step(t) PROVE KeyInv'
  BY <1>S, EndpointKeys, SaveKeys, KeyMoves DEF Step
<1> QED BY <1>0, <1>R, <1>S, NextIsStep

-----------------------------------------------------------------------------
(* Every reachable state satisfies the inductive invariant.                  *)
THEOREM Inductive == Spec => []IInv
<1>1. IInv /\ [Next]_vars => IInv'
  BY TypeStep, ReachStep, CauseStep DEF IInv, Cause
<1> QED BY <1>1, InitInv, PTL DEF Spec

(* The configuration, its rows and the handlers' locals stay well typed.     *)
THEOREM TypeCorrect == Spec => []TypeOK
<1>1. IInv => TypeOK
  BY DEF IInv
<1> QED BY <1>1, Inductive, PTL

(* Between edits, a section's row is what is in memory unless it lags.       *)
THEOREM Saved == Spec => []EditsReachDisk
<1>1. IInv => EditsReachDisk
  BY DEF IInv, EditsReachDisk, Reach, ToWrite, Quiet, Idle
<1> QED BY <1>1, Inductive, PTL

(* Creating, renaming and reordering never leave a profile without a chain.  *)
THEOREM EmptyCause == Spec => []EmptyChainHasCause
<1>1. IInv => EmptyChainHasCause
  BY DEF IInv
<1> QED BY <1>1, Inductive, PTL

(* Deleting and renaming take the stored key along: between edits, a key has *)
(* its provider unless handlers overlapped, a write failed or one was killed.*)
THEOREM KeysOwned == Spec => []KeysHaveOwners
<1>1. Init => KeyInv
  <2> SUFFICES ASSUME Init PROVE KeyInv
    OBVIOUS
  <2>1. /\ \A t \in Threads : pc[t] = "idle" /\ after[t].do = "nothing"
        /\ row["providers"] = providers /\ keys = {}
    BY AfterTypes DEF Init, Seed, Sections
  <2>2. \A t \in Threads : TaskOK(t)
    BY <2>1 DEF TaskOK
  <2>3. Undisturbed
    BY <2>1 DEF Undisturbed, Alone, WorkOK, OnDisk, Idle
  <2> QED BY <2>2, <2>3 DEF KeyInv
<1>2. TypeOK /\ KeyInv /\ [Next]_vars => KeyInv'
  BY KeyStep
<1>3. KeyInv => KeysHaveOwners
  BY DEF KeyInv, Undisturbed, KeysHaveOwners, Quiet, Idle, WillGo
<1> QED BY <1>1, <1>2, <1>3, TypeCorrect, PTL DEF Spec

(* A restart between edits keeps every section that is saved and valid.      *)
THEOREM RestartKeeps == Spec => RestartKeepsEdits
<1>1. ASSUME EditsReachDisk, NEW s \in Sections PROVE KeepsSection(s)
  <2> SUFFICES ASSUME Restart, Quiet, s \notin lagging,
                      ~IsEmpty(s, Memory(s)), Valid(s, Memory(s))
               PROVE  Memory(s)' = Memory(s)
    BY DEF KeepsSection
  <2>1. row[s] = Memory(s)
    BY <1>1 DEF EditsReachDisk
  <2>2. Hydrated(s) = Memory(s)
    BY <2>1 DEF Hydrated
  <2>3. Memory(s)' = Hydrated(s)
    BY DEF Restart, Memory, Sections
  <2> QED BY <2>2, <2>3
<1>2. EditsReachDisk => [\A s \in Sections : KeepsSection(s)]_vars
  BY <1>1
<1> QED BY <1>2, Saved, PTL DEF RestartKeepsEdits
=============================================================================

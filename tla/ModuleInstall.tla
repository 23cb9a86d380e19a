---------------------------- MODULE ModuleInstall ----------------------------
(* The optional modules of the Setup page: a background thread installs a    *)
(* module's packages into a directory of its own, a request removes them.    *)
(* The code is written out twice, once for the memory module and once for    *)
(* semantic routing.  An install is started or joined under a lock; its end, *)
(* and the whole of a removal, take no lock.  Joining changes no state.      *)
EXTENDS Naturals, FiniteSets

CONSTANTS
  MaxInstalls, MaxRemovals, MaxSetupFaults, MaxSetupCrashes

ASSUME SetupAssumption == MaxInstalls \in Nat

Modules == {"memory", "router"}
Sibling == [memory |-> "router", router |-> "memory"]
Needs == [memory |-> {"lancedb", "transformers"}, router |-> {"transformers"}]
Packages == {"lancedb", "transformers"}
Installs == 1..MaxInstalls

NoInstall == "none"

VARIABLES
  image,       \* packages in the image's site-packages
  bakedIn,     \* the modules the image was built with
  matrixReady, \* the capability matrix has rows
  site,        \* packages in each module's --target directory
  flight,      \* status of _mem_install and _router_install (queued counts as running)
  last,        \* status of _mem_last and _router_last
  marker,      \* setup_state rows of the modules
  installers,  \* the install threads, in the order they were started
  remover,     \* the removal of each module
  outcome,     \* what the last install of each module to end in this process came to
  overtaken,   \* modules with a start between the two halves of a finish
  doubt,       \* modules whose removal did not run to its end alone
  removalsLeft, setupFaultsLeft, setupCrashesLeft

setupVars == <<image, bakedIn, matrixReady, site, flight, last, marker, installers, remover, outcome,
               overtaken, doubt, removalsLeft, setupFaultsLeft, setupCrashesLeft>>
setupBounds == <<removalsLeft, setupFaultsLeft, setupCrashesLeft>>
built == <<bakedIn, matrixReady>>

Unstarted == [at |-> "unstarted"]
Over == [at |-> "over"]
Alive(m) == {i \in Installs : installers[i].at \notin {"unstarted", "over"} /\ installers[i].module = m}
AtWork(m) == {i \in Alive(m) : installers[i].at # "move"}

SetupInit ==
  /\ bakedIn \in SUBSET Modules /\ image = UNION {Needs[m] : m \in bakedIn}
  /\ matrixReady \in BOOLEAN
  /\ site = [m \in Modules |-> {}]
  /\ flight = [m \in Modules |-> NoInstall] /\ last = [m \in Modules |-> NoInstall]
  /\ marker = [m \in Modules |-> "none"]
  /\ installers = [i \in Installs |-> Unstarted]
  /\ remover = [m \in Modules |-> "idle"]
  /\ outcome = [m \in Modules |-> NoInstall]
  /\ overtaken = {} /\ doubt = {}
  /\ removalsLeft = MaxRemovals /\ setupFaultsLeft = MaxSetupFaults /\ setupCrashesLeft = MaxSetupCrashes

(* memory_available and router_available: the fresh interpreter of the probe *)
(* finds the packages of the image and those of the module's directory.      *)
Available(m) == Needs[m] \subseteq image \cup site[m]
Baked(m) == Needs[m] \subseteq image

-----------------------------------------------------------------------------
(* Installing *)

Spawn(m) ==
  LET n == Cardinality({i \in Installs : installers[i].at # "unstarted"}) + 1 IN
  /\ n \in Installs
  /\ installers' = [i \in Installs |->
       CASE i = n -> [module |-> m, at |-> "pip", result |-> NoInstall, alone |-> AtWork(m) = {} /\ remover[m] = "idle"]
         [] i \in AtWork(m) -> [installers[i] EXCEPT !.alone = FALSE]
         [] OTHER -> installers[i]]

\* Mutant: a second start does not join the one that is running.
StartAnother(m) ==
  /\ m = "router" => matrixReady
  /\ Spawn(m)
  /\ flight' = [flight EXCEPT ![m] = "running"] /\ last' = [last EXCEPT ![m] = NoInstall]
  /\ UNCHANGED <<image, built, site, marker, remover, outcome, overtaken, doubt, setupBounds>>

(* start_*_install, under its lock. *)
StartInstall(m) ==
  /\ m = "router" => matrixReady
  /\ flight[m] # "running"
  /\ Spawn(m)
  /\ flight' = [flight EXCEPT ![m] = "running"] /\ last' = [last EXCEPT ![m] = NoInstall]
  /\ overtaken' = IF \E i \in Alive(m) : installers[i].at = "move" THEN overtaken \cup {m} ELSE overtaken
  /\ UNCHANGED <<image, built, site, marker, remover, doubt, setupBounds, outcome>>

(* _mem_update and _router_update: whichever install is in flight gets the   *)
(* status, and none when there is none.                                      *)
Update(m, status) == flight' = IF flight[m] = NoInstall THEN flight ELSE [flight EXCEPT ![m] = status]

\* Mutant: a failed install gets a status nobody knows.
FinishUnknown(i, result) ==
  /\ Update(installers[i].module, IF result = "done" THEN result ELSE "error")
  /\ installers' = [installers EXCEPT ![i].at = "move", ![i].result = result]

(* The first half of _mem_finish and _router_finish: the status.  The thread *)
(* goes on to the second half, FinishMove.                                   *)
Finish(i, result) ==
  /\ Update(installers[i].module, result)
  /\ installers' = [installers EXCEPT ![i].at = "move", ![i].result = result]

Proceed(i, at) ==
  /\ installers' = [installers EXCEPT ![i].at = at]
  /\ UNCHANGED flight

\* Mutant: the packages are taken to be there once pip has ended.
EndPipTrusted(i, got, ok) ==
  /\ installers[i].at = "pip"
  /\ LET m == installers[i].module IN
     /\ got \subseteq Needs[m] /\ (ok /\ installers[i].alone => got = Needs[m])
     /\ ok \/ setupFaultsLeft > 0
     /\ site' = [site EXCEPT ![m] = @ \cup got]
  /\ setupFaultsLeft' = IF ok THEN setupFaultsLeft ELSE setupFaultsLeft - 1
  /\ Proceed(i, "warm")
  /\ UNCHANGED <<image, built, last, marker, remover, outcome, overtaken, doubt, removalsLeft, setupCrashesLeft>>

(* pip ends.  It brings everything unless it fails, or its directory was     *)
(* deleted under it.                                                         *)
EndPip(i, got, ok) ==
  /\ installers[i].at = "pip"
  /\ LET m == installers[i].module IN
     /\ got \subseteq Needs[m] /\ (ok /\ installers[i].alone => got = Needs[m])
     /\ ok \/ setupFaultsLeft > 0
     /\ site' = [site EXCEPT ![m] = @ \cup got]
  /\ setupFaultsLeft' = IF ok THEN setupFaultsLeft ELSE setupFaultsLeft - 1
  /\ IF ok THEN Proceed(i, "probe") ELSE Finish(i, "failed")
  /\ UNCHANGED <<image, built, last, marker, remover, outcome, overtaken, doubt, removalsLeft, setupCrashesLeft>>

Probe(i) ==
  /\ installers[i].at = "probe"
  /\ IF Available(installers[i].module) THEN Proceed(i, "warm") ELSE Finish(i, "failed")
  /\ UNCHANGED <<image, built, site, last, marker, remover, outcome, overtaken, doubt, setupBounds>>

(* The model is fetched, or not, which is only logged; then the row is       *)
(* written, or that raises and the install counts as failed.                 *)
RecordDone(i, ok) ==
  /\ installers[i].at = "warm" /\ (ok \/ setupFaultsLeft > 0)
  /\ LET m == installers[i].module IN
     /\ marker' = IF ok THEN [marker EXCEPT ![m] = "done"] ELSE marker
     /\ doubt' = IF ~ok THEN doubt ELSE IF installers[i].alone THEN doubt \ {m} ELSE doubt \cup {m}
  /\ setupFaultsLeft' = IF ok THEN setupFaultsLeft ELSE setupFaultsLeft - 1
  /\ Finish(i, IF ok THEN "done" ELSE "failed")
  /\ UNCHANGED <<image, built, site, last, remover, outcome, overtaken, removalsLeft, setupCrashesLeft>>

Ended(i) ==
  /\ installers' = [installers EXCEPT ![i] = Over]
  /\ outcome' = [outcome EXCEPT ![installers[i].module] = installers[i].result]

\* Mutant: the install stays in flight after a failure.
MoveWhenDone(i) ==
  /\ installers[i].at = "move"
  /\ LET m == installers[i].module IN
     /\ last' = IF flight[m] = NoInstall THEN last ELSE [last EXCEPT ![m] = flight[m]]
     /\ flight' = IF installers[i].result = "done" THEN [flight EXCEPT ![m] = NoInstall] ELSE flight
  /\ Ended(i)
  /\ UNCHANGED <<image, built, site, marker, remover, overtaken, doubt, setupBounds>>

\* Mutant: what the install came to is dropped with it.
MoveAway(i) ==
  /\ installers[i].at = "move"
  /\ flight' = [flight EXCEPT ![installers[i].module] = NoInstall]
  /\ Ended(i)
  /\ UNCHANGED <<image, built, site, last, marker, remover, overtaken, doubt, setupBounds>>

(* The second half: whatever is in flight becomes the last result. *)
FinishMove(i) ==
  /\ installers[i].at = "move"
  /\ LET m == installers[i].module IN
     /\ last' = IF flight[m] = NoInstall THEN last ELSE [last EXCEPT ![m] = flight[m]]
     /\ flight' = [flight EXCEPT ![m] = NoInstall]
  /\ Ended(i)
  /\ UNCHANGED <<image, built, site, marker, remover, overtaken, doubt, setupBounds>>

-----------------------------------------------------------------------------
(* Removing *)

(* The module's directories go first, whether or not an install is running. *)
RemoveDirs(m) ==
  /\ remover[m] = "idle" /\ removalsLeft > 0 /\ removalsLeft' = removalsLeft - 1
  /\ site' = [site EXCEPT ![m] = {}]
  /\ installers' = [i \in Installs |-> IF i \in AtWork(m) THEN [installers[i] EXCEPT !.alone = FALSE] ELSE installers[i]]
  /\ remover' = [remover EXCEPT ![m] = "image"]
  /\ doubt' = doubt \cup {m}
  /\ UNCHANGED <<image, built, flight, last, marker, outcome, overtaken, setupFaultsLeft, setupCrashesLeft>>

\* Mutant: the sibling's use of the shared packages is not looked at.
RemoveBakedAnyway(m, ok) ==
  /\ remover[m] = "image"
  /\ ok \/ Baked(m)
  /\ remover' = [remover EXCEPT ![m] = "record"]
  /\ image' = IF Baked(m) /\ ok THEN image \ Needs[m] ELSE image
  /\ UNCHANGED <<built, site, flight, last, marker, installers, outcome, overtaken, doubt, setupBounds>>

(* A baked module: refused while the sibling's packages are found too, or    *)
(* the packages are uninstalled from the image, as far as pip can (ok).      *)
RemoveBaked(m, ok) ==
  /\ remover[m] = "image"
  /\ ok \/ (Baked(m) /\ ~Baked(Sibling[m]))
  /\ remover' = [remover EXCEPT ![m] = IF Baked(m) /\ Baked(Sibling[m]) THEN "refused" ELSE "record"]
  /\ image' = IF Baked(m) /\ ~Baked(Sibling[m]) /\ ok THEN image \ Needs[m] ELSE image
  /\ UNCHANGED <<built, site, flight, last, marker, installers, outcome, overtaken, doubt, setupBounds>>

RemoveRecord(m, ok) ==
  /\ remover[m] = "record" /\ (ok \/ setupFaultsLeft > 0)
  /\ marker' = IF ok THEN [marker EXCEPT ![m] = "removed"] ELSE marker
  /\ doubt' = IF ok /\ AtWork(m) = {} THEN doubt \ {m} ELSE doubt
  /\ setupFaultsLeft' = IF ok THEN setupFaultsLeft ELSE setupFaultsLeft - 1
  /\ remover' = [remover EXCEPT ![m] = "idle"]
  /\ UNCHANGED <<image, built, site, flight, last, installers, outcome, overtaken, removalsLeft, setupCrashesLeft>>

Refuse(m) ==
  /\ remover[m] = "refused"
  /\ remover' = [remover EXCEPT ![m] = "idle"]
  /\ UNCHANGED <<image, built, site, flight, last, marker, installers, outcome, overtaken, doubt, setupBounds>>

(* The process is restarted: the threads and what is known of them are gone, *)
(* directories and rows stay, a pip in the middle leaves some packages.      *)
SetupCrash(got) ==
  /\ setupCrashesLeft > 0 /\ setupCrashesLeft' = setupCrashesLeft - 1
  /\ site' = [m \in Modules |-> IF \E i \in Alive(m) : installers[i].at = "pip" THEN site[m] \cup (got \cap Needs[m]) ELSE site[m]]
  /\ flight' = [m \in Modules |-> NoInstall] /\ last' = [m \in Modules |-> NoInstall]
  /\ installers' = [i \in Installs |-> IF installers[i] = Unstarted THEN Unstarted ELSE Over]
  /\ outcome' = [m \in Modules |-> NoInstall]
  /\ remover' = [m \in Modules |-> "idle"] /\ overtaken' = {}
  /\ UNCHANGED <<image, built, marker, doubt, removalsLeft, setupFaultsLeft>>

InstallStep(i) ==
  \/ Probe(i) \/ FinishMove(i)
  \/ \E ok \in BOOLEAN : RecordDone(i, ok) \/ \E got \in SUBSET Packages : EndPip(i, got, ok)

SetupNext ==
  \/ \E i \in Installs : InstallStep(i)
  \/ \E m \in Modules : StartInstall(m) \/ RemoveDirs(m) \/ Refuse(m) \/ \E ok \in BOOLEAN : RemoveBaked(m, ok) \/ RemoveRecord(m, ok)
  \/ \E got \in SUBSET Packages : SetupCrash(got)

(* The threads run, and pip comes to an end. *)
SetupSpec == SetupInit /\ [][SetupNext]_setupVars /\ \A i \in Installs : WF_setupVars(InstallStep(i))

-----------------------------------------------------------------------------
(* Well-formed installs (setup.py). *)
SetupTypeOK ==
  /\ image \subseteq Packages
  /\ \A m \in Modules :
       /\ site[m] \subseteq Needs[m] /\ marker[m] \in {"none", "done", "removed"}
       /\ flight[m] \in {NoInstall, "running", "done", "failed"}
       /\ last[m] \in {NoInstall, "running", "done", "failed"}

(* "done" is true: a module recorded as installed has its packages, after    *)
(* failures, crashes and whatever is installed or removed of the other       *)
(* module.  Only a removal that met an install, was refused half way, or did *)
(* not reach its last step can leave a false record (_run_memory_install).   *)
DoneIsAvailable ==
  \A m \in Modules : marker[m] = "done" /\ m \notin doubt => Available(m)

(* "Start (or join)": two installs of a module never write into its          *)
(* directory at once, unless one was started between the two halves of the   *)
(* other's end, which takes no lock (_mem_finish).                           *)
OneInstallAtATime ==
  \A m \in Modules \ overtaken : Cardinality(AtWork(m)) <= 1

(* What an install came to can be read afterwards: with none running, the    *)
(* last result is that of the newest install (_mem_finish, mem_last).        *)
ResultIsTold ==
  \A m \in Modules \ overtaken : Alive(m) = {} => last[m] = outcome[m]

(* Removing one module never takes packages from the other one, when that is *)
(* complete in the image or in its own directory (remove_router).            *)
SiblingSurvives ==
  \A m \in Modules : remover[m] = "idle" /\ remover'[m] = "idle" /\ (Baked(m) \/ Needs[m] \subseteq site[m])
    => Needs[m] \subseteq image' \cup site'[m]

(* Every install ends: the page does not show one in flight for ever         *)
(* (_run_memory_install catches everything).                                 *)
InstallsComeToAnEnd ==
  \A m \in Modules : (flight[m] # NoInstall) ~> (flight[m] = NoInstall)

(* remove_memory is "Blocked while SEMANTIC ROUTING is also baked". *)
RefusedForTheSibling ==
  \A m \in Modules : remover[m] = "refused" => Sibling[m] \in bakedIn

(* A module reported as installed is there, one install of a module runs at  *)
(* a time, and its result is what the page tells last (_mem_finish and its   *)
(* double of the routing module).                                            *)
InstallsAreSound ==
  SetupTypeOK /\ DoneIsAvailable /\ OneInstallAtATime /\ ResultIsTold
=============================================================================

------------------------------- MODULE Runtime -------------------------------
(* The component runtime: register, start (passes over the pending           *)
(* components until one of them sets up nothing), reload, shutdown.  Setup   *)
(* may raise, and so may a disposer: neither stops the runtime.  The graph   *)
(* of requirements is arbitrary, cycles and missing providers included.      *)
EXTENDS Naturals, Sequences, SequencesExt, Selection

CONSTANTS
  Components,
  RequireGraphs,           \* the dependency graphs looked at
  Undoers,                 \* the components whose setup returns a disposer
  MaxRaises, MaxReloads, MaxStarts

ASSUME RuntimeAssumption == RequireGraphs \subseteq [Components -> SUBSET Components]

VARIABLES
  requires,   \* the declared dependencies of each component
  registered, \* _components, in the order of registration
  rtPhase,    \* "stopped", "starting", "up", "stopping"
  passLeft,   \* what this pass over the pending components has still to visit
  progressed, \* this pass set something up
  order,      \* _order: names in setup order
  active,     \* _active
  undo,       \* _disposers that are not None
  held,       \* components whose effects are in place
  leaked,     \* components whose disposer raised
  raisesLeft, reloadsLeft, startsLeft

runtimeVars == <<requires, registered, rtPhase, passLeft, progressed, order, active, undo, held, leaked,
                 raisesLeft, reloadsLeft, startsLeft>>
runtimeBounds == <<raisesLeft, reloadsLeft, startsLeft>>

Registered == ToSet(registered)
ReadyKeys == ToSet(order)
Pending == Registered \ ReadyKeys
StillPending == Selected(registered, {i \in DOMAIN registered : registered[i] \in Pending})

RuntimeInit ==
  /\ requires \in RequireGraphs
  /\ registered = <<>> /\ rtPhase = "stopped"
  /\ passLeft = <<>> /\ progressed = FALSE /\ order = <<>>
  /\ active = {} /\ undo = {} /\ held = {} /\ leaked = {}
  /\ raisesLeft = MaxRaises /\ reloadsLeft = MaxReloads /\ startsLeft = MaxStarts

Register(c) ==
  /\ rtPhase = "stopped" /\ startsLeft = MaxStarts
  /\ c \notin Registered
  /\ registered' = Append(registered, c)
  /\ UNCHANGED <<requires, rtPhase, passLeft, progressed, order, active, undo, held, leaked, runtimeBounds>>

-----------------------------------------------------------------------------
(* start *)

Start ==
  /\ rtPhase = "stopped" /\ registered # <<>>
  /\ startsLeft > 0 /\ startsLeft' = startsLeft - 1
  /\ rtPhase' = "starting" /\ passLeft' = registered /\ progressed' = FALSE
  /\ UNCHANGED <<requires, registered, order, active, undo, held, leaked, raisesLeft, reloadsLeft>>

(* _setup_one: a setup that raises leaves the component inactive. *)
SetupOne(c, ok) ==
  /\ ok \/ raisesLeft > 0
  /\ raisesLeft' = IF ok THEN raisesLeft ELSE raisesLeft - 1
  /\ active' = IF ok THEN active \cup {c} ELSE active \ {c}
  /\ undo' = IF ok /\ c \in Undoers THEN undo \cup {c} ELSE undo \ {c}
  /\ held' = IF ok THEN held \cup {c} ELSE held

(* One turn of the inner loop, for a component whose requirements are ready: *)
(* the set-up component is ready too, even when its setup raised.            *)
Visit(ok) ==
  /\ rtPhase = "starting" /\ passLeft # <<>>
  /\ LET c == Head(passLeft) IN
     /\ requires[c] \subseteq ReadyKeys
     /\ SetupOne(c, ok)
     /\ order' = Append(order, c)
  /\ passLeft' = Tail(passLeft) /\ progressed' = TRUE
  /\ UNCHANGED <<requires, registered, rtPhase, leaked, reloadsLeft, startsLeft>>

Skip ==
  /\ rtPhase = "starting" /\ passLeft # <<>>
  /\ ~(requires[Head(passLeft)] \subseteq ReadyKeys)
  /\ passLeft' = Tail(passLeft)
  /\ UNCHANGED <<requires, registered, rtPhase, progressed, order, active, undo, held, leaked, runtimeBounds>>

\* Mutant: one pass has to do.
OnePass ==
  /\ rtPhase = "starting" /\ passLeft = <<>>
  /\ rtPhase' = "up" /\ progressed' = FALSE
  /\ UNCHANGED <<requires, registered, passLeft, order, active, undo, held, leaked, runtimeBounds>>

\* Mutant: the passes go on while anything is pending.
PassWhilePending ==
  /\ rtPhase = "starting" /\ passLeft = <<>>
  /\ rtPhase' = IF Pending # {} THEN "starting" ELSE "up"
  /\ passLeft' = StillPending
  /\ progressed' = FALSE
  /\ UNCHANGED <<requires, registered, order, active, undo, held, leaked, runtimeBounds>>

(* Another pass while the last one made progress; what is left is inactive. *)
PassEnds ==
  /\ rtPhase = "starting" /\ passLeft = <<>>
  /\ LET again == progressed /\ Pending # {} IN
     /\ rtPhase' = IF again THEN "starting" ELSE "up"
     /\ passLeft' = IF again THEN StillPending ELSE <<>>
  /\ progressed' = FALSE
  /\ UNCHANGED <<requires, registered, order, active, undo, held, leaked, runtimeBounds>>

-----------------------------------------------------------------------------
(* reload and shutdown *)

(* _dispose_one: a disposer that raises leaves its effects behind. *)
HeldAfterDispose(c, ok) == IF c \in undo /\ ok THEN held \ {c} ELSE held

\* Mutant: a reload whose setup raises keeps the old disposer.
ReloadKeepsDisposer(c, ok) ==
  /\ rtPhase = "up" /\ c \in active
  /\ reloadsLeft > 0 /\ reloadsLeft' = reloadsLeft - 1
  /\ ok \/ raisesLeft > 0
  /\ raisesLeft' = IF ok THEN raisesLeft ELSE raisesLeft - 1
  /\ active' = IF ok THEN active ELSE active \ {c}
  /\ UNCHANGED <<requires, registered, rtPhase, passLeft, progressed, order, undo, held, leaked, startsLeft>>

\* Mutant: the fresh disposer is not stacked.
ReloadForgetsDisposer(c, ok) ==
  /\ rtPhase = "up" /\ c \in active
  /\ reloadsLeft > 0 /\ reloadsLeft' = reloadsLeft - 1
  /\ ok \/ raisesLeft > 0
  /\ raisesLeft' = IF ok THEN raisesLeft ELSE raisesLeft - 1
  /\ active' = IF ok THEN active ELSE active \ {c}
  /\ undo' = undo \ {c}
  /\ UNCHANGED <<requires, registered, rtPhase, passLeft, progressed, order, held, leaked, startsLeft>>

(* reload: dispose, set up again; the component keeps its place in the order. *)
Reload(c, ok) ==
  /\ rtPhase = "up" /\ c \in active
  /\ reloadsLeft > 0 /\ reloadsLeft' = reloadsLeft - 1
  /\ ok \/ raisesLeft > 0
  /\ raisesLeft' = IF ok THEN raisesLeft ELSE raisesLeft - 1
  /\ active' = IF ok THEN active ELSE active \ {c}
  /\ undo' = IF ok /\ c \in Undoers THEN undo ELSE undo \ {c}
  /\ held' = IF ok THEN held ELSE HeldAfterDispose(c, TRUE)
  /\ UNCHANGED <<requires, registered, rtPhase, passLeft, progressed, order, leaked, startsLeft>>

Shutdown ==
  /\ rtPhase = "up"
  /\ rtPhase' = "stopping"
  /\ UNCHANGED <<requires, registered, passLeft, progressed, order, active, undo, held, leaked, runtimeBounds>>

\* Mutant: the disposers run in the order of the setups.
DisposeFirst(ok) ==
  /\ rtPhase = "stopping" /\ order # <<>>
  /\ LET c == Head(order) IN
     /\ ok \/ (c \in undo /\ raisesLeft > 0)
     /\ raisesLeft' = IF ok THEN raisesLeft ELSE raisesLeft - 1
     /\ held' = HeldAfterDispose(c, ok)
     /\ leaked' = IF ok THEN leaked ELSE leaked \cup {c}
     /\ undo' = undo \ {c} /\ active' = active \ {c}
  /\ order' = Tail(order)
  /\ UNCHANGED <<requires, registered, rtPhase, passLeft, progressed, reloadsLeft, startsLeft>>

DisposeNext(ok) ==
  /\ rtPhase = "stopping" /\ order # <<>>
  /\ LET c == Last(order) IN
     /\ ok \/ (c \in undo /\ raisesLeft > 0)
     /\ raisesLeft' = IF ok THEN raisesLeft ELSE raisesLeft - 1
     /\ held' = HeldAfterDispose(c, ok)
     /\ leaked' = IF ok THEN leaked ELSE leaked \cup {c}
     /\ undo' = undo \ {c} /\ active' = active \ {c}
  /\ order' = Front(order)
  /\ UNCHANGED <<requires, registered, rtPhase, passLeft, progressed, reloadsLeft, startsLeft>>

ShutdownEnds ==
  /\ rtPhase = "stopping" /\ order = <<>>
  /\ rtPhase' = "stopped" /\ undo' = {} /\ active' = {}
  /\ UNCHANGED <<requires, registered, passLeft, progressed, order, held, leaked, runtimeBounds>>

RuntimeStep ==
  \/ Start \/ Skip \/ PassEnds \/ ShutdownEnds
  \/ \E ok \in BOOLEAN : Visit(ok) \/ DisposeNext(ok)

RuntimeNext ==
  \/ RuntimeStep \/ Shutdown
  \/ \E c \in Components : Register(c) \/ \E ok \in BOOLEAN : Reload(c, ok)

RuntimeSpec == RuntimeInit /\ [][RuntimeNext]_runtimeVars /\ WF_runtimeVars(RuntimeStep)

-----------------------------------------------------------------------------
(* _order, _active and _disposers speak of registered components (Runtime). *)
RuntimeTypeOK ==
  /\ requires \in [Components -> SUBSET Components]
  /\ Registered \subseteq Components /\ ReadyKeys \subseteq Registered
  /\ rtPhase \in {"stopped", "starting", "up", "stopping"}
  /\ active \subseteq ReadyKeys /\ undo \subseteq active /\ leaked \subseteq Undoers

(* start leaves out only what cannot be satisfied: a component that was not  *)
(* set up waits for something that was not set up either, in whatever order  *)
(* the components were registered (Runtime.start: the passes).               *)
LeftOutHasMissing ==
  rtPhase = "up" => \A c \in Registered \ ReadyKeys : ~(requires[c] \subseteq ReadyKeys)

(* Teardown never pulls a provider from under a running dependent: when a    *)
(* component is disposed of, nothing that requires it is active (shutdown's  *)
(* LIFO order, also after reloads and failed setups).                        *)
DependentsStopFirst ==
  \A c \in active \ active' :
    rtPhase = "stopping" => \A d \in active \ {c} : c \notin requires[d]

(* After shutdown only effects without a disposer, or whose disposer raised, *)
(* are still in place: reloads and failed setups lose no disposer.           *)
NothingLeftBehind ==
  rtPhase = "stopped" => held \cap Undoers \subseteq leaked

(* Boot never hangs: with cycles, missing providers and raising setups the   *)
(* runtime comes up ("boot never breaks").                                   *)
BootEnds == (rtPhase = "starting") ~> (rtPhase = "up")

(* The docstring of start: "A component is set up only when every declared   *)
(* dependency is already satisfied (a root key, or a key provided by an      *)
(* already-started component)".                                              *)
SetUpAfterDependencies ==
  [][\A c \in active' \ active : requires[c] \subseteq active']_runtimeVars
=============================================================================

------------------------------- MODULE Routing -------------------------------
(* CapabilityRouter.select_step (router.py): which step of a profile's chain *)
(* a request tries first.  The task comes classified (Intent); the circuit   *)
(* breaker says which providers are out and the cost plugins which are        *)
(* drained; the operator's rules and policy come from the settings store.    *)
(* A step is a provider and a model by its logical name, with the spelling   *)
(* the chain uses for it: the registry's own for that provider, or another.  *)
EXTENDS Integers, Sequences, FiniteSets, FiniteSetsExt, SequencesExt, Selection

CONSTANTS
  RProviders, RModels, RTasks,
  StaticChain,    \* the profile's chain: a sequence of steps
  Capability,     \* [RTasks -> [RModels -> Nat]], in hundredths
  Cheapness,      \* [RModels -> 0 .. 100]: 1 - price / highest price
  Window,         \* [RModels -> Nat]: what a model's context holds
  Sizes,          \* sizes of requests; 0 when the tokens were not counted
  RuleLists,      \* the lists of rules an operator may store
  ConfigRules,    \* the rules of the configuration file
  Floors,         \* the values of min_score
  Unset           \* a setting that was never stored, a scope without rules

Policies == {"eager", "cost_first", "explore"}
Star == "*"

RSteps == [provider : RProviders, model : RModels, spelled : {"registry", "other"}]
RRules == [action : {"block", "prefer", "policy"}, task : RTasks \cup {Star}, provider : RProviders \cup {Star},
           model : RModels \cup {Star}, gate : Nat, policy : Policies]

ASSUME RoutingConstants ==
  /\ StaticChain \in Seq(RSteps) /\ StaticChain # <<>>
  /\ Capability \in [RTasks -> [RModels -> Nat]] /\ Cheapness \in [RModels -> 0 .. 100]
  /\ Window \in [RModels -> Nat] /\ Sizes \subseteq Nat /\ Floors \subseteq Nat
  /\ 0 \in Sizes /\ 0 \in Floors
  /\ ConfigRules \in Seq(RRules) /\ \A l \in RuleLists : l \in Seq(RRules)
  /\ Unset \notin RuleLists

\* Health and credit of a provider, best first; "dead" is out.
Standings == {"healthy", "drained", "degraded", "degradedDrained", "dead"}

VARIABLES
  standing,     \* [RProviders -> Standings]: breaker and cost cache
  profileRules, \* routing_rules:<profile>, or Unset
  globalRules,  \* routing_rules, or Unset
  policySetting, \* routing_policy
  floor,        \* routing_min_score
  routed        \* the last request: what was asked and what was decided

routingVars == <<standing, profileRules, globalRules, policySetting, floor, routed>>

IdleRequest == [phase |-> "idle"]

Models(c) == {c[i].model : i \in DOMAIN c}

\* A stored list of the profile replaces the global one; an empty list falls
\* through to the rules of the configuration.
EffectiveRules ==
  LET stored == IF profileRules # Unset THEN profileRules
                ELSE IF globalRules # Unset THEN globalRules ELSE <<>>
  IN IF stored # <<>> THEN stored ELSE ConfigRules

Matching(action, task) ==
  LET rules == EffectiveRules
  IN Selected(rules, {i \in DOMAIN rules : rules[i].action = action /\ rules[i].task \in {Star, task}})

\* A rule names a provider, a model or both.
Targets(rule, step) ==
  /\ rule.provider \in {Star, step.provider}
  /\ rule.model \in {Star, step.model}
  /\ ~(rule.provider = Star /\ rule.model = Star)

\* The last matching policy rule overrides the stored policy.
PolicyFor(task) ==
  LET rules == Matching("policy", task)
  IN IF rules = <<>> THEN policySetting ELSE rules[Len(rules)].policy

\* The places the breaker's gate lets through, and _apply_blocks after it.
Live == {i \in DOMAIN StaticChain : standing[StaticChain[i].provider] # "dead"}
Blocked(task, step) == \E i \in DOMAIN Matching("block", task) : Targets(Matching("block", task)[i], step)

\* Mutant: the rules are applied to the chain as it is stored
CandidatesWithoutGate(task) == Selected(StaticChain, {i \in DOMAIN StaticChain : ~Blocked(task, StaticChain[i])})

Candidates(task) == Selected(StaticChain, {i \in Live : ~Blocked(task, StaticChain[i])})

BiasOf(policy) == IF policy = "cost_first" THEN 30 ELSE 15
HealthyBonus == 5
ScoreModel(m, task, policy) ==
  Capability[task][m] + (BiasOf(policy) * Cheapness[m]) \div 100 + HealthyBonus

OutputReserve == 1
FitsContext(m, size) == size = 0 \/ size + OutputReserve <= Window[m]

\* The first prefer rule that may fire: a model with enough capability that
\* some step uses, or a provider that has a step.
Serves(rule, c) == \E i \in DOMAIN c : Targets(rule, c[i])
MayFire(rule, c, task) ==
  /\ Serves(rule, c)
  /\ rule.model # Star => Capability[task][rule.model] >= rule.gate

Prefer(c, task) ==
  LET rules == Matching("prefer", task)
      firing == {i \in DOMAIN rules : MayFire(rules[i], c, task)}
  IN IF firing = {} THEN Unset ELSE rules[Min(firing)]

Hysteresis == 5

\* Mutant: the best model is taken however little it leads
ChooseAlwaysBest(c, task, policy, size) ==
  LET fitting == {m \in Models(c) : FitsContext(m, size)}
      score(m) == ScoreModel(m, task, policy)
  IN {m \in fitting : (\A n \in fitting : score(n) <= score(m)) /\ score(m) >= floor}

\* _choose_target_model: the models it may return; none stands for None.
\* explore draws among the models close to the best; otherwise the head's
\* model is kept while no model beats it by more than the hysteresis.
ChooseTarget(c, task, policy, size) ==
  LET fitting == {m \in Models(c) : FitsContext(m, size)}
      score(m) == ScoreModel(m, task, policy)
      best == {m \in fitting : \A n \in fitting : score(n) <= score(m)}
      top == score(CHOOSE m \in best : TRUE)
      pool == {m \in fitting : score(m) + Hysteresis >= top}
      default == c[1].model
  IN CASE fitting = {} -> {}
       [] fitting # {} /\ top < floor -> {}
       [] fitting # {} /\ top >= floor /\ policy = "explore" /\ Cardinality(pool) > 1 -> pool
       [] OTHER -> {IF m # default /\ top <= score(default) + Hysteresis THEN default ELSE m
                      : m \in best}

\* The order of the steps of one band: the preferred provider, then health,
\* then credit; the chain's order within.
HealthRank(p) == CASE standing[p] \in {"healthy", "drained"} -> 0
                   [] standing[p] \in {"degraded", "degradedDrained"} -> 2
                   [] OTHER -> 4
CreditRank(p) == IF standing[p] \in {"drained", "degradedDrained"} THEN 1 ELSE 0

\* Mutant: credits are not looked at
StepRankHealthOnly(step, preferred) ==
  (IF step.provider = preferred THEN 0 ELSE 8) + HealthRank(step.provider)

StepRank(step, preferred) ==
  (IF step.provider = preferred THEN 0 ELSE 8) + HealthRank(step.provider) + CreditRank(step.provider)

Arrange(s, preferred) ==
  Sorted(s, [i \in DOMAIN s |-> StepRank(s[i], preferred)])

\* The first step of every provider that uses the target, spelled the
\* registry's way; then every other step that differs from those.
TargetSteps(c, target) ==
  LET first == {i \in DOMAIN c : /\ c[i].model = target
                                 /\ \A j \in 1 .. i - 1 : c[j].model = target => c[j].provider # c[i].provider}
  IN [k \in 1 .. Cardinality(first) |->
        [c[Position(first, k)] EXCEPT !.spelled = "registry"]]

\* Mutant: the steps that are not for the target are left out
BuildTargetsOnly(c, target, preferred, size) == Arrange(TargetSteps(c, target), preferred)

BuildChain(c, target, preferred, size) ==
  LET targets == TargetSteps(c, target)
      fallbacks == Selected(c, {i \in DOMAIN c : c[i] \notin Range(targets) /\ FitsContext(c[i].model, size)})
  IN Arrange(targets, preferred) \o Arrange(fallbacks, preferred)

Static == [chain |-> StaticChain, kept |-> TRUE, action |-> "none", head |-> Unset]

\* Mutant: the gated chain is returned even when nothing is left of it
DecideOfEmpty(task, close, size, target, fired, preferred) ==
  [Static EXCEPT !.chain = Candidates(task)]

\* Mutant: the head of the stored chain is logged when the chain is kept
DecideLogsFirst(task, close, size, target, fired, preferred) ==
  [Static EXCEPT !.head = StaticChain[1]]

\* select_step from the gate on, for one classified request and the target
\* drawn: what it returns and the decision it records.
Decide(task, close, size, target, fired, preferred) ==
  LET c == Candidates(task)
      built == BuildChain(c, target, preferred, size)
      unchanged == built[1] = c[1]
  IN CASE c = <<>> -> Static
       [] c # <<>> /\ target = Unset ->
            [Static EXCEPT !.action = IF close THEN "margin_gate" ELSE "below_min_score", !.head = c[1]]
       [] c # <<>> /\ target # Unset /\ unchanged /\ ~fired ->
            [Static EXCEPT !.action = "keep_default", !.head = built[1]]
       [] OTHER ->
            [chain |-> built, kept |-> FALSE, head |-> built[1],
             action |-> IF fired THEN "prefer" ELSE IF PolicyFor(task) = "explore" THEN "explore" ELSE "reorder"]

RoutingInit ==
  /\ standing = [p \in RProviders |-> "healthy"]
  /\ profileRules = Unset
  /\ globalRules = Unset
  /\ policySetting = "eager"
  /\ floor = 0
  /\ routed = IdleRequest

\* A request: classify, gate, rules, target, chain.  close: the two best
\* intents are nearer than the profile's margin gate.  counted: whether the
\* classifier got as far as counting the request's tokens (any task, since
\* the profile's intents may replace it); only then does the router know its
\* size.
Select ==
  /\ routed = IdleRequest
  /\ \E task \in RTasks, close \in BOOLEAN, size \in Sizes, counted \in BOOLEAN :
       LET c == Candidates(task)
           known == IF counted THEN size ELSE 0
           rule == IF c = <<>> THEN Unset ELSE Prefer(c, task)
           fired == rule # Unset
           mandate == fired /\ rule.model # Star /\ FitsContext(rule.model, known)
           dropped == fired /\ rule.model # Star /\ ~FitsContext(rule.model, known)
           preferred == IF fired /\ ~dropped THEN rule.provider ELSE Star
           gated == close /\ ~mandate
           choice == IF mandate THEN {rule.model}
                     ELSE IF gated \/ c = <<>> THEN {}
                     ELSE ChooseTarget(c, task, PolicyFor(task), known)
       IN \E target \in IF choice = {} THEN {Unset} ELSE choice :
            routed' = [phase |-> "routed", task |-> task, known |-> known, rule |-> rule,
                       preferred |-> preferred, target |-> target,
                       out |-> Decide(task, gated, known, target, fired, preferred)]
  /\ UNCHANGED <<standing, profileRules, globalRules, policySetting, floor>>

\* The chain has been walked; the next request comes.
RequestDone ==
  /\ routed # IdleRequest
  /\ routed' = IdleRequest
  /\ UNCHANGED <<standing, profileRules, globalRules, policySetting, floor>>

\* The breaker and the cost cache learn something about a provider.
StandingChanges ==
  /\ routed = IdleRequest
  /\ \E p \in RProviders, s \in Standings : standing' = [standing EXCEPT ![p] = s]
  /\ UNCHANGED <<profileRules, globalRules, policySetting, floor, routed>>

\* POST /api/routing/rules replaces the list of one scope.
SetRules ==
  /\ routed = IdleRequest
  /\ \E l \in RuleLists : \/ profileRules' = l /\ UNCHANGED globalRules
                          \/ globalRules' = l /\ UNCHANGED profileRules
  /\ UNCHANGED <<standing, policySetting, floor, routed>>

\* POST /api/routing/policy stores the policy or the floor.
SetPolicy ==
  /\ routed = IdleRequest
  /\ \/ \E p \in Policies : policySetting' = p /\ UNCHANGED floor
     \/ \E f \in Floors : floor' = f /\ UNCHANGED policySetting
  /\ UNCHANGED <<standing, profileRules, globalRules, routed>>

\* POST /api/routing/policy with clear_profile drops what the profile stored.
ClearProfile ==
  /\ routed = IdleRequest
  /\ profileRules' = Unset
  /\ UNCHANGED <<standing, globalRules, policySetting, floor, routed>>

RoutingNext == Select \/ RequestDone \/ StandingChanges \/ SetRules \/ SetPolicy \/ ClearProfile

RoutingSpec == RoutingInit /\ [][RoutingNext]_routingVars

-----------------------------------------------------------------------------

\* Every decision is one the caller can apply.
RoutingTypeOK ==
  /\ standing \in [RProviders -> Standings]
  /\ policySetting \in Policies /\ floor \in Floors
  /\ routed # IdleRequest => routed.out.chain # <<>>

Reordered == routed # IdleRequest /\ ~routed.out.kept
Plain(s) == <<s.provider, s.model>>

\* A reordered chain loses nobody and adds nobody: it holds exactly the steps
\* the breaker and the block rules let through, but for the fallbacks too
\* small for a request whose size is known (router.py:
\* _build_chain_for_model).
ReorderingKeepsTheSteps ==
  Reordered =>
    {Plain(s) : s \in Range(routed.out.chain)} =
    {Plain(s) : s \in {t \in Range(StaticChain) :
        /\ standing[t.provider] # "dead"
        /\ ~Blocked(routed.task, t)
        /\ t.model = routed.target \/ FitsContext(t.model, routed.known)}}

\* The head serves the chosen model through a provider no other server of it
\* beats: a rule's provider, then health, then credit.
HeadIsTheBestServer ==
  Reordered =>
    LET h == routed.out.chain[1] IN
    /\ h.model = routed.target
    /\ \A s \in Range(Candidates(routed.task)) :
         s.model = routed.target =>
           \/ s.provider = routed.preferred /\ h.provider = routed.preferred
           \/ s.provider # routed.preferred /\ h.provider = routed.preferred
           \/ HealthRank(h.provider) + CreditRank(h.provider)
                <= HealthRank(s.provider) + CreditRank(s.provider)

\* Without a rule, the policies that are not explore leave the head's model
\* alone unless another beats it by more than the hysteresis: two nearly equal
\* models do not take turns.
NoFlapping ==
  /\ Reordered /\ routed.rule = Unset /\ PolicyFor(routed.task) # "explore"
  /\ routed.target # Candidates(routed.task)[1].model
  => LET score(m) == ScoreModel(m, routed.task, PolicyFor(routed.task))
     IN score(routed.target) > score(Candidates(routed.task)[1].model) + Hysteresis

\* The decision that is logged names the step the request really tries first,
\* as long as no block rule is in force: the breaker passes over the dead
\* providers of a chain that was kept.
LogTellsTheHead ==
  /\ routed # IdleRequest /\ routed.out.head # Unset
  /\ \A i \in Live : ~Blocked(routed.task, StaticChain[i])
  => LET alive == {i \in DOMAIN routed.out.chain : standing[routed.out.chain[i].provider] # "dead"}
     IN Plain(routed.out.chain[Min(alive)]) = Plain(routed.out.head)

\* "Step 3. apply block rules" (router.py, select_step): a step that a rule
\* blocks for this task is not in the chain the request is sent through.
BlocksHold ==
  routed # IdleRequest => \A s \in Range(routed.out.chain) : ~Blocked(routed.task, s)

\* "never route a request to a model whose context window can't hold the
\* request" (router.py): the step tried first has room for a request whose
\* tokens were counted, if any step has.
HeadHasRoom ==
  /\ Reordered
  /\ \E s \in Range(Candidates(routed.task)) : FitsContext(s.model, routed.known)
  => FitsContext(routed.out.chain[1].model, routed.known)
=============================================================================

------------------------------ MODULE MCRouting ------------------------------
(* What decides where a request goes and what it costs, on small instances:  *)
(* the intent walk, the router and its caches, the accounts behind the       *)
(* router's credit verdict, the price rows and the model catalog.  part says *)
(* which of them a behaviour is about: the others rest.                      *)
EXTENDS Intent, Routing, RouterCaches, ProviderCredit, Pricing, ModelCatalog, TLC

CONSTANTS p1, p2, big, small, code, debug, agentic, k1, k2, l1, l2, WithLegacyRow

VARIABLE part

routingParts == <<part, intentVars, routingVars, cachesVars, creditVars, pricingVars, catalogVars>>

-----------------------------------------------------------------------------
(* Intent *)

Msg(role, kind, says) == [role |-> role, kind |-> kind, says |-> says]

MCIntentMessages ==
  {Msg("system", "agent", Nothing), Msg("assistant", "text", Nothing), Msg("assistant", "calls", Nothing),
   Msg("tool", "text", debug),
   Msg("user", "instruction", code), Msg("user", "instruction", debug), Msg("user", "wrapped", code),
   Msg("user", "wrapper", debug), Msg("user", "preamble", debug), Msg("user", "preambleTask", debug),
   Msg("user", "continuation", Nothing), Msg("user", "thanks", Nothing),
   Msg("user", "echo", debug), Msg("user", "result", debug), Msg("user", "blank", Nothing)}

MCIntentLists == {<<>>, <<debug, agentic>>}

-----------------------------------------------------------------------------
(* Routing *)

Step(p, m, s) == [provider |-> p, model |-> m, spelled |-> s]

MCChain == <<Step(p1, small, "other"), Step(p2, big, "registry"), Step(p2, small, "registry"),
             Step(p1, big, "registry")>>

Rule(action, task, p, m) ==
  [action |-> action, task |-> task, provider |-> p, model |-> m, gate |-> 0, policy |-> "eager"]

MCRuleLists ==
  {<<>>,
   <<Rule("block", debug, p1, Star), Rule("prefer", Star, Star, big)>>,
   <<[Rule("policy", debug, Star, Star) EXCEPT !.policy = "cost_first"], Rule("prefer", code, p2, Star)>>,
   <<[Rule("prefer", Star, Star, small) EXCEPT !.gate = 50], Rule("block", Star, Star, big)>>}

MCConfigRules == <<Rule("prefer", debug, p1, big)>>

MCCapability == [t \in RTasks |-> [m \in RModels |-> IF t = code THEN (IF m = big THEN 60 ELSE 56)
                                                             ELSE (IF m = big THEN 80 ELSE 40)]]
MCCheapness == [m \in RModels |-> IF m = big THEN 0 ELSE 80]
MCWindow == [m \in RModels |-> IF m = big THEN 9 ELSE 2]

-----------------------------------------------------------------------------
(* RouterCaches *)

MCDerived == [t \in CTasks |-> code]
MCSeedRows == {Row(k1, code, "livebench", 1, 50), Row(k1, code, "livebench", 2, 60), Row(k2, code, "livebench", 1, 70)}
MCInitialRows ==
  {r \in MCSeedRows : r.key = k1} \cup (IF WithLegacyRow THEN {Row(k1, code, "livebench", Legacy, 30)} ELSE {})
\* Neither the lookups nor the editors are told apart by anything but their name.
MCSymmetry == Permutations(Lookups) \cup Permutations(Editors)
MCInitialEntry == [l \in Logicals |-> IF l = l1 THEN [key |-> k1, active |-> Legacy] ELSE NoEntry]

-----------------------------------------------------------------------------

MCInit ==
  /\ part \in {"intent", "routing", "caches", "credit", "pricing", "catalog"}
  /\ IntentInit /\ RoutingInit /\ CachesInit /\ CreditInit /\ PricingInit /\ CatalogInit
  /\ part # "intent" => intents = <<>>
  /\ part # "credit" => vendor = "deepseek" /\ access = {}
  /\ part # "pricing" => prices = <<>>

MCNext ==
  /\ UNCHANGED part
  /\ \/ part = "intent" /\ IntentNext /\ UNCHANGED <<routingVars, cachesVars, creditVars, pricingVars, catalogVars>>
     \/ part = "routing" /\ RoutingNext /\ UNCHANGED <<intentVars, cachesVars, creditVars, pricingVars, catalogVars>>
     \/ part = "caches" /\ CachesNext /\ UNCHANGED <<intentVars, routingVars, creditVars, pricingVars, catalogVars>>
     \/ part = "credit" /\ CreditNext /\ UNCHANGED <<intentVars, routingVars, cachesVars, pricingVars, catalogVars>>
     \/ part = "pricing" /\ PricingNext /\ UNCHANGED <<intentVars, routingVars, cachesVars, creditVars, catalogVars>>
     \/ part = "catalog" /\ CatalogNext /\ UNCHANGED <<intentVars, routingVars, cachesVars, creditVars, pricingVars>>

MCSpec == MCInit /\ [][MCNext]_routingParts

-----------------------------------------------------------------------------
(* Once the classifier has recognised an instruction only another one moves  *)
(* the task, and a new one is heard at once (_extract_intent_text); and a    *)
(* plan that was measured is stored whatever becomes of the calls that only  *)
(* enrich it (fetch_subscription).                                           *)
NothingHeardIsLost == [][NoiseKeepsTheTask /\ InstructionIsHeard /\ MeasuredPlanIsKept]_routingParts

(* A request goes to the best server for what it asks: its task is one the   *)
(* profile declares, the chain keeps its steps, its head is the best step    *)
(* that can serve, the default is left only beyond the margin, and the log   *)
(* names the head that is called (classify_task_detail, select_step).        *)
RequestsGoToTheBestServer ==
  /\ ITypeOK /\ StaysWithinIntents
  /\ RoutingTypeOK
  /\ ReorderingKeepsTheSteps /\ HeadIsTheBestServer /\ NoFlapping /\ LogTellsTheHead

(* Every bill is for the whole prompt once, at the provider's own rate for   *)
(* the model under any of its spellings and at the hour's rate, and a model  *)
(* name goes on being translated while the catalog's fetches fail or race    *)
(* (record_cost, estimate_cost, _load_catalog).                              *)
BillsAndNamesAreRight ==
  /\ EverySpellingIsPriced /\ OwnRateBeforeOthers /\ PromptIsBilledOnce /\ PeakHoursOnly
  /\ KnownModelsStayKnown /\ FetchesAreSpaced
=============================================================================

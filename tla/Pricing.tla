------------------------------- MODULE Pricing -------------------------------
(* What a request costs: the price row of a model that several providers     *)
(* serve under several names, the split of the prompt into cached and other  *)
(* tokens, which each provider reports in its own way, and the hours in      *)
(* which DeepSeek charges more.  Each action computes one bill.              *)
EXTENDS Integers, Sequences

CONSTANTS MaxPriceRows, MaxTokens

ASSUME PricingAssumption == MaxPriceRows \in Nat /\ MaxTokens \in Nat

NoField == -1
JunkField == -2      \* a field that is no number

(* A model "raw", as a provider calls it, that the registry knows by its     *)
(* logical and its benchmark name, and one it does not know.                 *)
Names == {"raw", "logical", "bench", "other"}
PriceRow(provider, model) == [provider |-> provider, model |-> model]
PriceRows == {PriceRow(p, n) : p \in {"p", "q", "*"}, n \in Names \ {"other"}}
NoPriceRow == PriceRow("none", "none")

Fields == <<"prompt_cache_hit_tokens", "cached_tokens", "cache_read_input_tokens">>
FieldSet == {Fields[i] : i \in DOMAIN Fields}

VARIABLES
  prices,  \* the pricing section, a list of rows
  bill     \* what the last calculation was asked and came to

pricingVars == <<prices, bill>>
NoBill == [of |-> "nothing"]

PricingInit ==
  /\ prices \in UNION {[1..n -> PriceRows] : n \in 0..MaxPriceRows}
  /\ bill = NoBill

-----------------------------------------------------------------------------
(* The row *)

\* Mutant: a model has the one name it is asked for.
CanonicalOfNone(model) == <<>>

(* _canonical_names *)
Canonical(model) == IF model \in {"raw", "logical"} THEN <<"logical", "bench">> ELSE <<>>

(* The providers of the rows that apply to one provider, and of all rows.    *)
PricedFor(provider) == {"*", provider}
AnyProvider == {r.provider : r \in PriceRows}

(* _find_pricing_row: the first row in the order of the list. *)
Find(model, providers) ==
  LET hits == {i \in DOMAIN prices : prices[i].model = model /\ prices[i].provider \in providers} IN
  IF hits = {} THEN NoPriceRow ELSE prices[CHOOSE i \in hits : \A j \in hits : i <= j]

FirstOf(found) ==
  LET hits == {i \in DOMAIN found : found[i] # NoPriceRow} IN
  IF hits = {} THEN NoPriceRow ELSE found[CHOOSE i \in hits : \A j \in hits : i <= j]

\* Mutant: a canonical name is looked up under any provider at once.
ResolveAnyFirst(provider, model) ==
  LET own(n) == Find(n, PricedFor(provider))
      any(n) == Find(n, AnyProvider)
      names == Canonical(model) IN
  FirstOf(<<own(model)>> \o [i \in DOMAIN names |-> any(names[i])])

(* resolve_pricing *)
ResolvePricing(provider, model) ==
  LET own(n) == Find(n, PricedFor(provider))
      any(n) == Find(n, AnyProvider)
      names == Canonical(model) IN
  FirstOf(<<own(model)>> \o [i \in DOMAIN names |-> own(names[i])] \o [i \in DOMAIN names |-> any(names[i])])

PriceModel(provider, model) ==
  /\ bill = NoBill
  /\ bill' = [of |-> "price", provider |-> provider, model |-> model, row |-> ResolvePricing(provider, model)]
  /\ UNCHANGED prices

-----------------------------------------------------------------------------
(* The tokens *)

\* Mutant: only the flat field is read.
CacheHitFlat(usage, hitField) == IF usage.hits[Fields[1]] < 0 THEN 0 ELSE usage.hits[Fields[1]]

(* read_cache_hit_tokens: the configured field, then the known spellings; a  *)
(* field that is there wins, also when it is zero.                           *)
CacheHit(usage, hitField) ==
  LET order == (IF hitField = "none" THEN <<>> ELSE <<hitField>>) \o Fields
      read == {i \in DOMAIN order : usage.hits[order[i]] >= 0} IN
  IF read = {} THEN 0 ELSE usage.hits[order[CHOOSE i \in read : \A j \in read : i <= j]]

CacheMiss(usage, hit) ==
  IF usage.miss # NoField THEN usage.miss ELSE IF usage.prompt > hit THEN usage.prompt - hit ELSE 0

(* calculate_cost of the plugins: a prompt with neither hits nor misses is   *)
(* all misses.                                                               *)
PluginMiss(usage, hit, miss) == IF hit = 0 /\ miss = 0 THEN usage.prompt ELSE miss

(* A provider reports h cached tokens in some of the fields, perhaps with    *)
(* the rest as misses, or reports nothing about its cache.                   *)
BillTokens(prompt, h, fields, withMiss, junk, hitField) ==
  LET usage == [prompt |-> prompt, hits |-> [f \in FieldSet |-> IF f \in fields THEN h ELSE IF junk THEN JunkField ELSE NoField],
                miss |-> IF withMiss THEN prompt - h ELSE NoField]
      hit == CacheHit(usage, hitField)
      miss == CacheMiss(usage, hit) IN
  /\ bill = NoBill /\ prices = <<>> /\ h <= prompt
  /\ withMiss => fields # {}
  /\ bill' = [of |-> "tokens", prompt |-> prompt, cached |-> IF fields = {} THEN 0 ELSE h,
              hit |-> hit, miss |-> miss, pluginMiss |-> PluginMiss(usage, hit, miss)]
  /\ UNCHANGED prices

-----------------------------------------------------------------------------
(* The hours *)

\* Mutant: a band includes the hour it ends at.
InBandClosed(hour, lo, hi) == lo <= hour /\ hour <= hi

InBand(hour, lo, hi) == lo <= hour /\ hour < hi

(* is_deepseek_peak *)
Peak(day, hour) == day < 5 /\ (InBand(hour, 1, 4) \/ InBand(hour, 6, 10))

(* select_rates: a row without peak rates has one price. *)
ChooseRates(day, hour, hasPeak) ==
  /\ bill = NoBill /\ prices = <<>>
  /\ bill' = [of |-> "rates", day |-> day, hour |-> hour, hasPeak |-> hasPeak,
              rates |-> IF hasPeak /\ Peak(day, hour) THEN "peak" ELSE "base"]
  /\ UNCHANGED prices

NextBill == bill # NoBill /\ bill' = NoBill /\ UNCHANGED prices

PricingNext ==
  \/ \E provider \in {"p", "q"}, model \in Names : PriceModel(provider, model)
  \/ \E prompt, h \in 0..MaxTokens, fields \in SUBSET FieldSet, withMiss, junk \in BOOLEAN, hitField \in FieldSet \cup {"none"} :
       BillTokens(prompt, h, fields, withMiss, junk, hitField)
  \/ \E day \in 0..6, hour \in 0..23, hasPeak \in BOOLEAN : ChooseRates(day, hour, hasPeak)
  \/ NextBill

-----------------------------------------------------------------------------
(* One price serves every spelling: a model is priced exactly when a row     *)
(* carries the name it is asked by and a provider that applies, or any of    *)
(* its canonical names under whatever provider (resolve_pricing).            *)
EverySpellingIsPriced ==
  bill.of = "price" =>
    (bill.row # NoPriceRow <=>
       \E i \in DOMAIN prices :
         \/ prices[i].model = bill.model /\ prices[i].provider \in {"*", bill.provider}
         \/ bill.model \in {"raw", "logical"} /\ prices[i].model \in {"logical", "bench"})

(* A request is priced at another provider's rate only if neither its own    *)
(* provider nor a wildcard has a row for any name of the model.              *)
OwnRateBeforeOthers ==
  bill.of = "price" /\ bill.row # NoPriceRow /\ bill.row.provider \notin {"*", bill.provider} =>
    \A i \in DOMAIN prices : prices[i].provider \in {"*", bill.provider} =>
      prices[i].model # bill.model /\ (bill.model \in {"raw", "logical"} => prices[i].model \notin {"logical", "bench"})

(* Every token of the prompt is billed once, the cached ones at the rate for *)
(* hits, in whichever of the spellings the provider reports them and on both *)
(* ways of pricing (calculate_cost of the pipeline and of the plugins).      *)
PromptIsBilledOnce ==
  bill.of = "tokens" => /\ bill.hit = bill.cached
                        /\ bill.hit + bill.miss = bill.prompt
                        /\ bill.hit + bill.pluginMiss = bill.prompt

(* Seven hours of a working day are charged at the peak rate, and no other   *)
(* (is_deepseek_peak: 01:00-04:00 and 06:00-10:00 UTC, Monday to Friday).    *)
PeakHoursOnly ==
  bill.of = "rates" => (bill.rates = "peak" <=> bill.hasPeak /\ bill.day \in 0..4 /\ bill.hour \in {1, 2, 3, 6, 7, 8, 9})

(* "a provider-specific rate always wins over the shared one" *)
SpecificRateWins ==
  bill.of = "price" /\ (\E i \in DOMAIN prices : prices[i] = PriceRow(bill.provider, bill.model)) => bill.row.provider = bill.provider
=============================================================================

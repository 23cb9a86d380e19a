--------------------------- MODULE ProviderCredit ---------------------------
(* How the gateway knows that a provider's account can pay: the refresher's  *)
(* thread asks a cost plugin for its balance and its subscription, a plugin  *)
(* asks the vendor on several routes, the cost cache keeps what came of it,  *)
(* and the router has the plugin judge the two cached payloads whenever it   *)
(* orders a chain.  The account is spent and topped up all the while.  The   *)
(* plugins share nothing, so a behaviour is about one of them.               *)
EXTENDS Naturals

CONSTANTS
  FullPlan,        \* what a plan grants a month
  BalanceTTL,      \* _BALANCE_CACHE_TTL of the DeepSeek plugin
  MaxCredits, MaxScrapes, MaxAccountOps, MaxCreditTime

ASSUME CreditAssumption ==
  /\ FullPlan \in Nat \ {0} /\ BalanceTTL \in Nat \ {0}
  /\ MaxCredits \in Nat /\ MaxScrapes \in Nat /\ MaxAccountOps \in Nat /\ MaxCreditTime \in Nat

Vendors == {"opencode", "commandcode", "deepseek"}
PayloadKinds == {"subscription", "balance"}
Days == {1, 2}
Answers == {"ok", "odd", "refused", "down"}   \* odd: HTTP 200, unfamiliar shape

(* What a scrape is left with: None, an error, or data with the fields that  *)
(* are set.  since and stored say when the vendor was asked and the row      *)
(* written, odd that the answer had no such fields.                          *)
NoPayload == [is |-> "none"]
Bad(kind) == [is |-> "error", error |-> kind]
Reading == [is |-> "data", credits |-> {}, pct |-> {}, month |-> {}, since |-> 0, stored |-> 0, odd |-> FALSE]

VARIABLES
  vendor,
  credits, planLeft,  \* the account: paid credits, what is left of the plan
  spent,              \* the vendor's daily totals of this month
  access,             \* what the gateway holds: "key", "session", "cookie"
  plan,               \* the account has a "go" plan, a "budget" or "none"
  creditRows,         \* cost_plugin_cache
  scrape,             \* the refresher's thread
  balanceCache,       \* of the DeepSeek plugin, with its time
  known,              \* kinds that were read since the account last changed
  creditTime, scrapesLeft, accountOpsLeft

account == <<credits, planLeft, spent, access, plan>>
creditVars == <<vendor, account, creditRows, scrape, balanceCache, known, creditTime, scrapesLeft, accountOpsLeft>>

NoScrape == [at |-> "idle"]
Sum(f) == (IF 1 \in DOMAIN f THEN f[1] ELSE 0) + (IF 2 \in DOMAIN f THEN f[2] ELSE 0)
\* Mutant: what was spent is not related to the limit.
PctUnrelated == (FullPlan - planLeft) * 100

PctUsed == ((FullPlan - planLeft) * 100) \div FullPlan

CreditInit ==
  /\ vendor \in Vendors /\ credits = MaxCredits /\ planLeft = FullPlan
  /\ spent = [d \in Days |-> 0]
  /\ access \in SUBSET (CASE vendor = "opencode" -> {"key", "session"} [] vendor = "commandcode" -> {"cookie"} [] OTHER -> {"key"})
  /\ plan \in (IF vendor = "deepseek" THEN {"none"} ELSE {"go", "budget", "none"})
  /\ creditRows = [k \in PayloadKinds |-> NoPayload] /\ scrape = NoScrape
  /\ balanceCache = [reading |-> NoPayload, at |-> 0] /\ known = {}
  /\ creditTime = 0 /\ scrapesLeft = MaxScrapes /\ accountOpsLeft = MaxAccountOps

-----------------------------------------------------------------------------
(* A scrape *)

\* Mutant: an error replaces the payload that was cached.
KeepErrors(k, p, clean) ==
  /\ scrape' = NoScrape
  /\ creditRows' = IF p.is # "none" THEN [creditRows EXCEPT ![k] = p] ELSE creditRows
  /\ known' = IF p.is = "data" /\ clean THEN known \cup {k} ELSE known

(* _scrape and _record_failure: data replaces the row, an error is recorded  *)
(* where there is no row, and a cached payload survives every failure.       *)
Keep(k, p, clean) ==
  /\ scrape' = NoScrape
  /\ creditRows' = CASE p.is = "data" -> [creditRows EXCEPT ![k] = [p EXCEPT !.stored = creditTime]]
                     [] p.is = "error" /\ creditRows[k].is = "none" -> [creditRows EXCEPT ![k] = p]
                     [] OTHER -> creditRows
  /\ known' = IF p.is # "data" THEN known ELSE IF clean /\ ~p.odd THEN known \cup {k} ELSE known \ {k}

FirstCall(k, at) == scrape' = [at |-> at, kind |-> k, got |-> NoPayload, days |-> <<>>, token |-> "session" \in access, clean |-> TRUE]
GoOn(at, got) == scrape' = [scrape EXCEPT !.at = at, !.got = got]
Stays == UNCHANGED <<creditRows, known>>

\* Mutant: a cached balance is as new as its last use.
CachedBalanceSliding ==
  /\ Keep("balance", balanceCache.reading, FALSE)
  /\ balanceCache' = [balanceCache EXCEPT !.at = creditTime]

(* DeepSeek's fetch_balance within five minutes of the last answer. *)
CachedBalance ==
  /\ Keep("balance", balanceCache.reading, FALSE)
  /\ UNCHANGED balanceCache

(* A fetch begins with the credentials: without them it ends at once. *)
FetchBegins(v) ==
  /\ vendor = v /\ scrape = NoScrape /\ scrapesLeft > 0 /\ scrapesLeft' = scrapesLeft - 1
  /\ UNCHANGED <<vendor, account, creditTime, accountOpsLeft>>

OpenCodeSubscription ==
  /\ FetchBegins("opencode") /\ FirstCall("subscription", IF "key" \in access THEN "go" ELSE "budget")
  /\ Stays /\ UNCHANGED balanceCache

(* Credits are read with a console session; a provider without any           *)
(* credential stays quiet.                                                   *)
OpenCodeBalance ==
  /\ FetchBegins("opencode") /\ UNCHANGED balanceCache
  /\ IF "session" \in access THEN FirstCall("balance", "billing") /\ Stays
     ELSE Keep("balance", IF "key" \in access THEN Bad("auth_failed") ELSE NoPayload, TRUE)

(* Command Code's fetch_balance has no data of its own. *)
CommandCodeBalance ==
  /\ FetchBegins("commandcode") /\ Keep("balance", NoPayload, TRUE) /\ UNCHANGED balanceCache

CommandCodeSubscription ==
  /\ FetchBegins("commandcode") /\ UNCHANGED balanceCache
  /\ IF "cookie" \in access THEN FirstCall("subscription", "billing") /\ Stays
     ELSE Keep("subscription", Bad("auth_failed"), TRUE)

DeepSeekBalance ==
  /\ FetchBegins("deepseek")
  /\ IF balanceCache.reading.is = "data" /\ creditTime - balanceCache.at < BalanceTTL THEN CachedBalance
     ELSE /\ UNCHANGED balanceCache
          /\ IF "key" \in access THEN FirstCall("balance", "billing") /\ Stays ELSE Keep("balance", NoPayload, TRUE)

Asked(at) == scrape.at = at /\ UNCHANGED <<vendor, account, balanceCache, creditTime, scrapesLeft, accountOpsLeft>>
End(p) == Keep(scrape.kind, p, scrape.clean)

(* The windows of the Go plan (plan_windows_from_go). *)
GoWindows == [Reading EXCEPT !.pct = {PctUsed}, !.since = creditTime]

(* Without such a plan, or when its route fails, the budget rows are next.   *)
AskGo(a) ==
  /\ Asked("go")
  /\ IF plan = "go" /\ a = "ok"
     THEN IF "session" \in access THEN GoOn("enrich", GoWindows) /\ Stays ELSE End(GoWindows)
     ELSE FirstCall("subscription", "budget") /\ Stays

\* Mutant: a row without a limit is measured against what was granted.
PlanWindowsAnyway == {PctUsed}

(* A percentage needs a row with a limit. *)
PlanWindows == IF plan = "budget" THEN {PctUsed} ELSE {}

(* fetch_budget_members, with the key or else the session; "odd" is the 409  *)
(* after which the v1 route is asked.                                        *)
AskBudget(a) ==
  LET at == scrape.at IN
  /\ at \in {"budget", "budgetV1"} /\ Asked(at)
  /\ IF "key" \notin access /\ ~scrape.token THEN End(Bad("auth_failed"))
     ELSE IF a = "odd" /\ at = "budget" THEN GoOn("budgetV1", NoPayload) /\ Stays
     ELSE IF a = "ok" /\ PlanWindows # {} THEN End([Reading EXCEPT !.pct = PlanWindows, !.since = creditTime])
     ELSE IF scrape.token THEN GoOn("summary", Reading) /\ Stays
     ELSE End(Bad("auth_failed"))

\* Mutant: the error of the enrichment is merged into the windows.
AskSummaryPoisoned(a) ==
  LET at == scrape.at IN
  /\ at \in {"enrich", "summary"} /\ Asked(at)
  /\ IF a = "ok" THEN GoOn("all", IF at = "enrich" THEN scrape.got ELSE Reading) /\ Stays
     ELSE End(Bad(IF a = "refused" THEN "auth_failed" ELSE "api_error"))

(* _console_usage_numbers: its error is the answer of a fetch that has       *)
(* nothing else, and is dropped where it only enriches the plan's windows.   *)
AskSummary(a) ==
  LET at == scrape.at IN
  /\ at \in {"enrich", "summary"} /\ Asked(at)
  /\ IF a = "ok" THEN GoOn("all", scrape.got) /\ Stays
     ELSE End(IF at = "enrich" THEN scrape.got ELSE Bad(IF a = "refused" THEN "auth_failed" ELSE "api_error"))

\* Mutant: the rows of both ranges are added up.
MonthAdding(old, reach) == [d \in DOMAIN old \cup reach |-> (IF d \in DOMAIN old THEN old[d] ELSE 0) + (IF d \in reach THEN spent[d] ELSE 0)]

(* Rows are united by date, and the later range wins. *)
Month(old, reach) == [d \in DOMAIN old \cup reach |-> IF d \in reach THEN spent[d] ELSE old[d]]

(* _month_to_date asks for "all" and for "30d", which may not reach back to  *)
(* the first of the month; either may fail, which leaves its rows out.       *)
AskDays(a, reach) ==
  LET days == IF a = "ok" THEN Month(scrape.days, reach) ELSE scrape.days IN
  /\ a # "ok" => reach = {}
  /\ \/ Asked("all") /\ scrape' = [scrape EXCEPT !.at = "30d", !.days = days] /\ Stays
     \/ Asked("30d") /\ End([scrape.got EXCEPT !.month = IF DOMAIN days = {} THEN {} ELSE {Sum(days)}])

(* The money.  OpenCode's mapping notices an answer without the fields, the  *)
(* other two read zero.                                                      *)
Money(a, amount) == [Reading EXCEPT !.credits = {IF a = "odd" THEN 0 ELSE amount}, !.since = creditTime, !.odd = a = "odd"]

OpenCodeCredits(a) ==
  /\ Asked("billing") /\ vendor = "opencode"
  /\ End(CASE a = "ok" -> Money(a, credits) [] a = "refused" -> Bad("auth_failed") [] OTHER -> Bad("api_error"))

(* An error of the credits route is no snapshot, which counts as a refusal. *)
CommandCodeCredits(a) ==
  /\ Asked("billing") /\ vendor = "commandcode"
  /\ IF a \in {"ok", "odd"} THEN GoOn("plan", Money(a, credits + planLeft)) /\ Stays ELSE End(Bad("auth_failed"))

DeepSeekAnswer(a) ==
  /\ scrape.at = "billing" /\ vendor = "deepseek"
  /\ IF a \in {"ok", "odd"} THEN End(Money(a, credits)) /\ balanceCache' = [reading |-> Money(a, credits), at |-> creditTime]
     ELSE End(NoPayload) /\ UNCHANGED balanceCache
  /\ UNCHANGED <<vendor, account, creditTime, scrapesLeft, accountOpsLeft>>

(* Command Code's plan, for the monthly bar; without it the bar is at zero. *)
AskPlan(a) ==
  /\ Asked("plan")
  /\ End([scrape.got EXCEPT !.pct = IF a = "ok" /\ plan # "none" THEN {PctUsed} ELSE {0}])

-----------------------------------------------------------------------------
(* The account *)

AccountChanges ==
  /\ accountOpsLeft > 0 /\ accountOpsLeft' = accountOpsLeft - 1
  /\ known' = {} /\ scrape' = IF scrape = NoScrape THEN scrape ELSE [scrape EXCEPT !.clean = FALSE]
  /\ UNCHANGED <<vendor, plan, creditRows, balanceCache, creditTime, scrapesLeft>>

Spend(d, ofPlan) ==
  /\ AccountChanges
  /\ IF ofPlan THEN planLeft > 0 /\ planLeft' = 0 /\ UNCHANGED credits ELSE credits > 0 /\ credits' = credits - 1 /\ UNCHANGED planLeft
  /\ spent' = [spent EXCEPT ![d] = @ + 1]
  /\ UNCHANGED access

TopUp ==
  /\ AccountChanges /\ credits' = MaxCredits /\ planLeft' = FullPlan
  /\ UNCHANGED <<spent, access>>

(* A console session ends, or an operator logs in again. *)
SessionChanges ==
  /\ vendor = "opencode" /\ accountOpsLeft > 0 /\ accountOpsLeft' = accountOpsLeft - 1
  /\ access' = IF "session" \in access THEN access \ {"session"} ELSE access \cup {"session"}
  /\ UNCHANGED <<vendor, credits, planLeft, spent, plan, creditRows, scrape, balanceCache, known, creditTime, scrapesLeft>>

CreditTick ==
  /\ vendor = "deepseek" /\ creditTime < MaxCreditTime /\ creditTime' = creditTime + 1
  /\ UNCHANGED <<vendor, account, creditRows, scrape, balanceCache, known, scrapesLeft, accountOpsLeft>>

CreditNext ==
  \/ OpenCodeSubscription \/ OpenCodeBalance \/ CommandCodeSubscription \/ CommandCodeBalance \/ DeepSeekBalance
  \/ \E a \in Answers : \/ AskGo(a) \/ AskBudget(a) \/ AskSummary(a) \/ AskPlan(a)
                        \/ OpenCodeCredits(a) \/ CommandCodeCredits(a) \/ DeepSeekAnswer(a)
                        \/ \E reach \in SUBSET Days : AskDays(a, reach)
  \/ \E d \in Days, ofPlan \in BOOLEAN : Spend(d, ofPlan)
  \/ TopUp \/ SessionChanges \/ CreditTick

-----------------------------------------------------------------------------
(* Judging *)

Balance == creditRows["balance"]
Subscription == creditRows["subscription"]
Holds(row, least) == row.is = "data" /\ \E c \in row.credits : c > least
Short(row, least) == row.is = "data" /\ \E c \in row.credits : c <= least
UsedUp(row) == row.is = "data" /\ \E p \in row.pct : p >= 95

(* OpenCode: dollars come first, then the plan. *)
OpenCodeStatus ==
  IF Holds(Balance, 1) THEN "funded"
  ELSE IF Subscription.is = "error" \/ UsedUp(Subscription) \/ Short(Balance, 1) THEN "drained" ELSE "unknown"

(* Command Code: what is left of the month and the purchased credits. *)
CommandCodeStatus ==
  CASE Subscription.is = "error" \/ Short(Subscription, 5) -> "drained"
    [] Holds(Subscription, 5) -> "funded"
    [] OTHER -> "unknown"

DeepSeekStatus == IF Short(Balance, 1) THEN "drained" ELSE IF Holds(Balance, 1) THEN "funded" ELSE "unknown"

(* What the router ranks a provider by. *)
CreditStatus ==
  CASE vendor = "opencode" -> OpenCodeStatus [] vendor = "commandcode" -> CommandCodeStatus [] OTHER -> DeepSeekStatus

-----------------------------------------------------------------------------
(* Well-formed payloads (CostPluginCache.set). *)
CreditTypeOK ==
  /\ \A k \in PayloadKinds : creditRows[k].is = "data" => creditRows[k].pct \subseteq 0..100 /\ creditRows[k].credits \subseteq 0..(MaxCredits + FullPlan)
  /\ vendor = "deepseek" => Subscription = NoPayload
  /\ Balance.is = "data" => Balance.pct = {}

(* Once the account was read, and until it changes, the router's verdict on  *)
(* it is right, whatever the other routes answer and however many scrapes    *)
(* fail afterwards: an exhausted plan does not drain an account that holds   *)
(* dollars, nor an outage of the vendor's console (credit_status).           *)
VerdictMatchesTheAccount ==
  /\ vendor = "opencode" /\ "balance" \in known => CreditStatus = (IF credits > 1 THEN "funded" ELSE "drained")
  /\ vendor = "commandcode" /\ "subscription" \in known => CreditStatus = (IF credits + planLeft > 5 THEN "funded" ELSE "drained")
  /\ vendor = "deepseek" /\ "balance" \in known => CreditStatus = (IF credits > 1 THEN "funded" ELSE "drained")

(* Plan windows that were measured are kept, whatever becomes of the console *)
(* calls that only enrich them (fetch_subscription).                         *)
MeasuredPlanIsKept ==
  scrape.at \in {"enrich", "all", "30d"} /\ scrape'.at = "idle" => creditRows'["subscription"].is = "data" /\ creditRows'["subscription"].pct = scrape.got.pct

(* OpenCode's bar is a measurement: an account without a limit has none, on  *)
(* whichever of the four routes its payload was put together (plan_windows). *)
NoBarWithoutALimit ==
  vendor = "opencode" /\ plan = "none" /\ Subscription.is = "data" => Subscription.pct = {}

(* The month's total counts every day once, although two overlapping ranges  *)
(* are asked for while the account is being spent (_month_to_date).          *)
MonthCountsDaysOnce ==
  Subscription.is = "data" => \A n \in Subscription.month : n <= Sum(spent)

(* A balance is not older than five minutes when it is cached as new: the    *)
(* two caches one behind the other do not add up (fetch_balance).            *)
BalanceIsRecent ==
  vendor = "deepseek" /\ Balance.is = "data" => Balance.stored - Balance.since < BalanceTTL

(* Command Code: "Unknown (no credit fields) is NOT drained." *)
NoFieldsIsNotDrained ==
  vendor = "commandcode" /\ Subscription.is = "data" /\ Subscription.odd => CreditStatus # "drained"

(* What the router and the page say of an account is what the account is:    *)
(* the verdict, the bar, the month and the age of the balance (credit_status,*)
(* plan_windows, _month_to_date, fetch_balance).                             *)
CreditFollowsTheAccount ==
  /\ CreditTypeOK
  /\ VerdictMatchesTheAccount /\ NoBarWithoutALimit /\ MonthCountsDaysOnce /\ BalanceIsRecent
=============================================================================

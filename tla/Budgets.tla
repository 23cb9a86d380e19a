------------------------------ MODULE Budgets ------------------------------
(***************************************************************************)
(* Spend budgets: what the request handler checks before a request goes    *)
(* upstream and what it adds afterwards, with several handler threads, the *)
(* administrator's budget endpoints, database errors and restarts.         *)
(*                                                                         *)
(* SQLite runs a SELECT outside any transaction, and the ORM writes back   *)
(* values it computed from the rows it read, only in the columns it        *)
(* changed.  So adding a cost is a read step and a later write step, and   *)
(* the write is one transaction.  Money is counted in whole units.         *)
(***************************************************************************)
EXTENDS Integers

CONSTANTS
  BudgetIds, Clients,   \* a client is a (profile, api key) pair
  Scope,                \* Scope[b]: the clients whose requests b matches
  KeyScoped,            \* budgets with a key_id, each of a key of its own
  Threads, NoClient,
  Costs,                \* what a request may turn out to cost
  Amounts,              \* the caps an administrator may set
  Thresholds,           \* threshold_pct, percentages that raise an alert
  MaxCost,              \* the largest cost of one request
  MaxEdits,             \* bound: changes by the administrator in one behaviour
  MaxFaults,            \* bound: database errors and restarts in one behaviour
  MaxSpent              \* bound: what one budget's requests cost together

ASSUME BudgetAssumption ==
  /\ Scope \in [BudgetIds -> SUBSET Clients]
  /\ KeyScoped \subseteq BudgetIds
  /\ NoClient \notin Clients
  /\ MaxCost \in Nat
  /\ Costs \subseteq 0..MaxCost
  /\ Amounts \subseteq Nat
  /\ Thresholds \subseteq Nat \ {0}
  /\ MaxEdits \in Nat /\ MaxFaults \in Nat /\ MaxSpent \in Nat

Status == {"active", "paused", "exceeded"}

Actions == {"log", "block"}

VARIABLES
  live,      \* budgets that have a row
  amount, spend, status, action,   \* the columns of the budgets table
  total,     \* api_keys.total_spend of the key that b is scoped to
  pc,        \* what each handler thread is about to do
  client,    \* whose request it handles
  cost,      \* what the request cost
  matched,   \* the active budgets its query returned
  seen, cap, \* current_spend and amount of each as they were read
  breaches,  \* thresholds it must raise alerts for
  announced, \* <<b, t>>: thresholds an alert was fired for
  spent,     \* what b's requests really cost (of the model, not the code)
  edited,    \* b's amount, action or status was changed by hand (likewise)
  edits, faults

columns == <<live, amount, spend, status, action, total>>
thread == <<pc, client, cost, matched, seen, cap, breaches>>
history == <<announced, spent, edited, edits, faults>>
vars == <<columns, thread, history>>

PCs == {"idle", "auth", "admit", "call", "read", "write", "alert"}

TypeOK ==
  /\ live \subseteq BudgetIds
  /\ amount \in [BudgetIds -> Amounts]
  /\ spend \in [BudgetIds -> Nat]
  /\ status \in [BudgetIds -> Status]
  /\ action \in [BudgetIds -> Actions]
  /\ total \in [BudgetIds -> Nat]
  /\ pc \in [Threads -> PCs]
  /\ client \in [Threads -> Clients \union {NoClient}]
  /\ cost \in [Threads -> 0..MaxCost]
  /\ matched \in [Threads -> SUBSET BudgetIds]
  /\ seen \in [Threads -> [BudgetIds -> Nat]]
  /\ cap \in [Threads -> [BudgetIds -> Nat]]
  /\ breaches \in [Threads -> SUBSET (BudgetIds \X Thresholds)]
  /\ announced \subseteq BudgetIds \X Thresholds
  /\ spent \in [BudgetIds -> Nat]
  /\ edited \in [BudgetIds -> BOOLEAN]
  /\ edits \in 0..MaxEdits
  /\ faults \in 0..MaxFaults

NoSpend == [b \in BudgetIds |-> 0]

Init ==
  /\ live \in SUBSET BudgetIds
  /\ amount \in [BudgetIds -> Amounts \ {0}]
  /\ action \in [BudgetIds -> Actions]
  /\ spend = NoSpend /\ total = NoSpend
  /\ status = [b \in BudgetIds |-> "active"]
  /\ pc = [t \in Threads |-> "idle"]
  /\ client = [t \in Threads |-> NoClient]
  /\ cost = [t \in Threads |-> 0]
  /\ matched = [t \in Threads |-> {}]
  /\ seen = [t \in Threads |-> NoSpend] /\ cap = [t \in Threads |-> NoSpend]
  /\ breaches = [t \in Threads |-> {}]
  /\ announced = {} /\ spent = NoSpend
  /\ edited = [b \in BudgetIds |-> FALSE]
  /\ edits = 0 /\ faults = 0

-----------------------------------------------------------------------------
\* _check_budget_block: a matching budget that blocks and is used up.
Blocks(b, c) ==
  /\ b \in live /\ c \in Scope[b]
  /\ action[b] = "block" /\ status[b] \in {"active", "exceeded"}
  /\ amount[b] > 0 /\ spend[b] >= amount[b]

Blocked(c) == \E b \in BudgetIds : Blocks(b, c)

Fault == faults < MaxFaults /\ faults' = faults + 1

Goto(t, l) == pc' = [pc EXCEPT ![t] = l]

\* The thread ends; its locals go with it.
Finish(t) ==
  /\ Goto(t, "idle")
  /\ client' = [client EXCEPT ![t] = NoClient]
  /\ cost' = [cost EXCEPT ![t] = 0]
  /\ matched' = [matched EXCEPT ![t] = {}]
  /\ seen' = [seen EXCEPT ![t] = NoSpend]
  /\ cap' = [cap EXCEPT ![t] = NoSpend]
  /\ breaches' = [breaches EXCEPT ![t] = {}]

\* A profile with auth_required checks budgets when it validates the key, and
\* every profile checks them again before the provider is called.
Arrive(t, c, authRequired) ==
  /\ pc[t] = "idle"
  /\ Goto(t, IF authRequired THEN "auth" ELSE "admit")
  /\ client' = [client EXCEPT ![t] = c]
  /\ UNCHANGED <<columns, cost, matched, seen, cap, breaches, history>>

Checking == [auth |-> "admit", admit |-> "call"]

Pass(t) ==
  /\ pc[t] \in DOMAIN Checking
  /\ ~Blocked(client[t])
  /\ Goto(t, Checking[pc[t]])
  /\ UNCHANGED <<columns, client, cost, matched, seen, cap, breaches, history>>

\* A failing query is logged and the request let through.
PassUnchecked(t) ==
  /\ pc[t] \in DOMAIN Checking
  /\ Fault
  /\ Goto(t, Checking[pc[t]])
  /\ UNCHANGED <<columns, client, cost, matched, seen, cap, breaches, announced,
                 spent, edited, edits>>

\* Mutant: a blocked request is not answered.
RefuseSilently(t) ==
  /\ pc[t] \in DOMAIN Checking
  /\ Blocked(client[t])
  /\ UNCHANGED vars

Refuse(t) ==
  /\ pc[t] \in DOMAIN Checking
  /\ Blocked(client[t])
  /\ Finish(t)
  /\ UNCHANGED <<columns, history>>

\* The provider answered and the reply is priced.
Complete(t, x) ==
  /\ pc[t] = "call"
  /\ \A b \in BudgetIds : spent[b] + x <= MaxSpent
  /\ cost' = [cost EXCEPT ![t] = x]
  /\ spent' = [b \in BudgetIds |-> IF client[t] \in Scope[b] THEN spent[b] + x ELSE spent[b]]
  /\ Goto(t, "read")
  /\ UNCHANGED <<columns, client, matched, seen, cap, breaches, announced, edited,
                 edits, faults>>

\* No provider answered: nothing is spent.
Abort(t) ==
  /\ pc[t] = "call"
  /\ Finish(t)
  /\ UNCHANGED <<columns, history>>

\* _increment_budget_spend's query: matching budgets that are active.
ReadBudgets(t) ==
  /\ pc[t] = "read"
  /\ matched' = [matched EXCEPT
       ![t] = {b \in live : client[t] \in Scope[b] /\ status[b] = "active"}]
  /\ seen' = [seen EXCEPT ![t] = spend]
  /\ cap' = [cap EXCEPT ![t] = amount]
  /\ Goto(t, "write")
  /\ UNCHANGED <<columns, client, cost, breaches, history>>

\* Mutant: the cost is added twice.
NewSpendTwice(t, b) == seen[t][b] + 2 * cost[t]

NewSpend(t, b) == seen[t][b] + cost[t]

\* Mutant: a threshold that is hit exactly is not crossed.
CrossedBeyond(t, b, p) ==
  /\ cap[t][b] > 0
  /\ seen[t][b] * 100 < p * cap[t][b]
  /\ p * cap[t][b] < NewSpend(t, b) * 100

\* old_pct < threshold <= new_pct
Crossed(t, b, p) ==
  /\ cap[t][b] > 0
  /\ seen[t][b] * 100 < p * cap[t][b]
  /\ p * cap[t][b] <= NewSpend(t, b) * 100

\* Mutant: a budget that is used up exactly stays active.
UsesUpBeyond(t, b) == cap[t][b] > 0 /\ NewSpend(t, b) > cap[t][b]

\* current_spend >= amount > 0, which turns the status to exceeded.
UsesUp(t, b) == cap[t][b] > 0 /\ NewSpend(t, b) >= cap[t][b]

\* The rows the flush updates: those in which a column changed.
Dirty(t) == {b \in matched[t] : cost[t] > 0 \/ UsesUp(t, b)}

\* Mutant: the cost is added to the row as it is now, not as it was read.
WriteBudgetsAdding(t) ==
  /\ pc[t] = "write"
  /\ Dirty(t) \subseteq live
  /\ spend' = [b \in BudgetIds |-> IF b \in Dirty(t) THEN spend[b] + cost[t] ELSE spend[b]]
  /\ status' = [b \in BudgetIds |->
       IF b \in Dirty(t) /\ UsesUp(t, b) THEN "exceeded" ELSE status[b]]
  /\ breaches' = [breaches EXCEPT
       ![t] = {x \in matched[t] \X Thresholds : Crossed(t, x[1], x[2])}]
  /\ Goto(t, "alert")
  /\ UNCHANGED <<live, amount, action, total, client, cost, matched, seen, cap, history>>

\* Mutant: what is left of the budget is recorded instead of what was spent.
WriteBudgetsRemaining(t) ==
  /\ pc[t] = "write"
  /\ Dirty(t) \subseteq live
  /\ spend' = [b \in BudgetIds |->
       IF b \in Dirty(t) THEN cap[t][b] - NewSpend(t, b) ELSE spend[b]]
  /\ Goto(t, "alert")
  /\ UNCHANGED <<live, amount, status, action, total, client, cost, matched, seen, cap,
                 breaches, history>>

\* The flush and the commit of what was computed from the rows read.  A key's
\* total is overwritten with the sum computed for its budget.
WriteBudgets(t) ==
  /\ pc[t] = "write"
  /\ Dirty(t) \subseteq live
  /\ spend' = [b \in BudgetIds |->
       IF b \in Dirty(t) /\ cost[t] > 0 THEN NewSpend(t, b) ELSE spend[b]]
  /\ status' = [b \in BudgetIds |->
       IF b \in Dirty(t) /\ UsesUp(t, b) THEN "exceeded" ELSE status[b]]
  /\ total' = [b \in BudgetIds |->
       IF b \in matched[t] \intersect KeyScoped THEN NewSpend(t, b) ELSE total[b]]
  /\ breaches' = [breaches EXCEPT
       ![t] = {x \in matched[t] \X Thresholds : Crossed(t, x[1], x[2])}]
  /\ Goto(t, "alert")
  /\ UNCHANGED <<live, amount, action, client, cost, matched, seen, cap, history>>

\* The transaction fails, because the database does or because a row it would
\* update was deleted: it is rolled back and the error swallowed.
WriteFails(t) ==
  /\ pc[t] = "write"
  /\ \/ Fault
     \/ ~(Dirty(t) \subseteq live) /\ UNCHANGED faults
  /\ Finish(t)
  /\ UNCHANGED <<columns, announced, spent, edited, edits>>

\* _track_budget_spend fires one alert per breach.
FireAlerts(t) ==
  /\ pc[t] = "alert"
  /\ announced' = announced \union breaches[t]
  /\ Finish(t)
  /\ UNCHANGED <<columns, spent, edited, edits, faults>>

-----------------------------------------------------------------------------
Edit(b) == edits < MaxEdits /\ edits' = edits + 1 /\ edited' = [edited EXCEPT ![b] = TRUE]

\* PUT /api/budgets/{id}: writes the columns the body names, and only those.
UpdateBudget(b, a, act, st) ==
  /\ b \in live
  /\ Edit(b)
  /\ amount' = [amount EXCEPT ![b] = a]
  /\ action' = [action EXCEPT ![b] = act]
  /\ status' = [status EXCEPT ![b] = st]
  /\ UNCHANGED <<live, spend, total, thread, announced, spent, faults>>

\* POST /api/budgets.  SQLite reuses the id of a deleted last row.
CreateBudget(b, a, act) ==
  /\ b \notin live
  /\ Edit(b)
  /\ live' = live \union {b}
  /\ amount' = [amount EXCEPT ![b] = a]
  /\ action' = [action EXCEPT ![b] = act]
  /\ spend' = [spend EXCEPT ![b] = 0]
  /\ status' = [status EXCEPT ![b] = "active"]
  /\ UNCHANGED <<total, thread, announced, spent, faults>>

DeleteBudget(b) ==
  /\ b \in live
  /\ Edit(b)
  /\ live' = live \ {b}
  /\ UNCHANGED <<amount, spend, status, action, total, thread, announced, spent, faults>>

\* The process dies between any two steps; budgets are on disk.
Crash ==
  /\ Fault
  /\ pc' = [t \in Threads |-> "idle"]
  /\ client' = [t \in Threads |-> NoClient]
  /\ cost' = [t \in Threads |-> 0]
  /\ matched' = [t \in Threads |-> {}]
  /\ seen' = [t \in Threads |-> NoSpend] /\ cap' = [t \in Threads |-> NoSpend]
  /\ breaches' = [t \in Threads |-> {}]
  /\ UNCHANGED <<columns, announced, spent, edited, edits>>

HandlerStep(t) ==
  \/ Pass(t) \/ PassUnchecked(t) \/ Refuse(t) \/ Abort(t)
  \/ \E x \in Costs : Complete(t, x)
  \/ ReadBudgets(t) \/ WriteBudgets(t) \/ WriteFails(t) \/ FireAlerts(t)

Next ==
  \/ \E t \in Threads :
       \/ \E c \in Clients, authRequired \in BOOLEAN : Arrive(t, c, authRequired)
       \/ HandlerStep(t)
  \/ \E b \in BudgetIds :
       \/ \E a \in Amounts, act \in Actions, st \in Status : UpdateBudget(b, a, act, st)
       \/ \E a \in Amounts, act \in Actions : CreateBudget(b, a, act)
       \/ DeleteBudget(b)
  \/ Crash

\* Handler threads are scheduled and their upstream calls end or time out.
Spec == Init /\ [][Next]_vars /\ \A t \in Threads : WF_vars(HandlerStep(t))

-----------------------------------------------------------------------------
(* Concurrent requests overshoot a cap by less than one request: a budget    *)
(* that nobody edited never records more than its amount and one more cost,  *)
(* because adding to it stops in the write that uses it up.                  *)
OvershootBounded ==
  \A b \in BudgetIds : ~edited[b] => spend[b] < amount[b] + MaxCost \/ spend[b] = 0

(* Neither a budget nor the key it is scoped to is charged for money that    *)
(* was not spent, whatever stale rows the threads write back.                *)
SpendNotInvented ==
  \A b \in BudgetIds : spend[b] <= spent[b] /\ total[b] <= spent[b]

(* Alerts for thresholds are not missed in a race: once the threads are      *)
(* done, every threshold the recorded spend has reached was announced.       *)
ThresholdsAnnounced ==
  \A b \in BudgetIds, p \in Thresholds :
    /\ \A t \in Threads : pc[t] # "alert"
    /\ ~edited[b] /\ faults = 0
    /\ spend[b] * 100 >= p * amount[b]
    => <<b, p>> \in announced

(* Until an administrator changes it, a budget that is still active has not  *)
(* been used up, so the status and the recorded spend never both stop the    *)
(* counting too late.                                                        *)
ActiveHasRoom ==
  \A b \in BudgetIds :
    ~edited[b] /\ status[b] = "active" => spend[b] < amount[b]

(* Every request is answered or refused.                                     *)
HandlersFinish == \A t \in Threads : pc[t] # "idle" ~> pc[t] = "idle"

-----------------------------------------------------------------------------
(* Budget.action, "block (hard stop)": a blocking budget whose status is     *)
(* exceeded refuses the requests it matches.                                 *)
ExceededBlocks ==
  \A b \in live : \A c \in Scope[b] :
    ~edited[b] /\ action[b] = "block" /\ status[b] = "exceeded" => Blocked(c)
=============================================================================

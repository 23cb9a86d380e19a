# simple-lcp in TLA+

simple-lcp is an LLM gateway: a threaded HTTP server that takes OpenAI-style
chat requests for a *profile*, walks the profile's chain of (provider, model)
steps until one answers, accounts for what the answer cost, and offers an
administration API and dashboard over a SQLite database. These modules model
the parts of it that keep state and change it concurrently, check them on small
instances with TLC, and prove the properties that matter most with TLAPS for
every value of the constants.

## The system

One `ThreadingHTTPServer` process runs one thread per request. Every component
below is a singleton in that process, shared by all threads. Only the database
and a few files survive a restart.

| Component | State | Operations | Talks to |
|---|---|---|---|
| circuit breaker (`api/circuit_breaker.py`) | health per (provider, base URL, profile) in memory, written through to `provider_health` | `is_available` (which also promotes), `record_success`, `record_failure`, `reset`, `force_status`, `forget_provider`, loading at boot | request threads, router, operator endpoints |
| provider chain (`api/request_pipeline.py`, `try_chain`) | local to the request: chain, index, errors, the conversation it sends | vision check, breaker check, degraded gating, preparation of the messages, call with retries, failover, pricing | breaker, router, reasoning store, providers |
| dynamic router (`api/router.py`, `api/message_norm.py`, `api/task_classifier.py`, `api/seed_capabilities.py`) | capability matrix and model registry cached in front of two tables, embedding centroids | what a request is about; drop and reorder the steps of the chain; edits of the Models page | breaker, cost plugins, settings |
| chat handler (`server/handler.py`) | none of its own | key check, budget checks, prompt cache, in-flight registry, the chain, relay, cost row, reply, capture | everything |
| prompt cache, in-flight registry, reasoning store | three tables, the second with a lock and the others without | get, set, expiry, eviction; begin, touch, end; remember, fill in, prune | chat handler |
| budgets (`server/handler.py`, budget endpoints) | `budgets` rows, `api_keys.total_spend` | check before a request, add afterwards, alerts, CRUD | alert manager |
| cost cache refresher (`api/cost_cache.py`) | retry tables in memory, `cost_plugin_cache` rows, one background thread | passes, scrapes, `request_refresh`, invalidation | cost plugins, endpoints |
| cost plugins (`api/cost_plugins/`) | a catalog index, a balance cache, the console session | balances, plans, verdicts on credit, price bands, model names, logins and token refreshes | refresher, router, chain |
| settings and configuration (`api/cost_cache.py`, `api/config.py`, endpoints) | the `settings` table, two lazily loaded caches of it, one dict with the sections | get, set, hydration, seeding, edits followed by `save()` | every reader of the config |
| component runtime (`api/runtime.py`) | what is registered, active, to be disposed of | start in passes, reload, shutdown | every component |
| module installers (`api/setup.py`) | a record per module, a thread per install, directories | install, remove, status | runtime |
| key manager, credential store (`api/key_manager.py`, `api/credential_store.py`, `api/crypto.py`) | `api_keys`, encrypted rows, the master key file, a legacy file | create, rotate, revoke, check, migrate; set, get | chat handler, plugins |
| alert manager (`api/alert_manager.py`) | alerts in memory and in a table, last firings | fire, acknowledge, resolve | budgets |
| conversations (`api/conv_store.py`, `api/work_conversations.py`) | messages, conversations, stamps on requests and routing rows | capture, synchronise, page | chat handler, dashboard |
| work views (`api/work_*.py`, `ui/tables.py`) | files shared with a host, one cache | task tree, log pages, cron spool, sources file | agents, the host's executor |
| memory (`api/memory/`) | a table of facts per profile | retain, recall, forget, injection | chat handler |
| estimators, embeddings, token verifier, workspace and fleet views, pages | none, or other systems' | formulas, numeric code, rendering | |

What is hard about it: handler threads interleave freely and most shared state
is read, used and written back without a lock or a transaction around it; calls
to providers take seconds, so their outcomes arrive after the operator has
changed the state they were started from; writes to the database fail and are
swallowed; the process may stop between any two writes; and much of the state is
kept twice, in a table and in a cache in front of it. The `hazards` list of
`PROJECT.json` names the places, with the properties that watch them.

What makes each part correct:

* breaker: a trip is left only through the half-open ladder, a failing probe
  goes straight back to dead, nothing stays dead that nobody killed, memory and
  disk agree, and threads inside its methods change none of this but where they overtake each other;
* chain: a request is answered; a step is given up only for a better one; one
  request is one verdict to the breaker; each model of the chain is sent the
  conversation, well-formed;
* router: what the request is about is the newest instruction and not noise;
  the best step that can serve comes first; what it ranks by follows the tables;
* chat handler: a hit answers the request that got it, one status line, one cost row;
* budgets: no money is invented, overshoot is bounded, no threshold is passed
  in silence, an active budget has room;
* refresher and plugins: no lost wake-up, no lost data, every stale entry is
  retried, a change of credentials takes effect, the verdict on an account is
  the account's, every token is billed once, the session survives;
* settings and configuration: readers see what is stored, edits reach the disk,
  a restart keeps them, and no sequence of edits makes the loader throw the
  profiles away;
* runtime and installers: what is left out misses something, nothing is torn
  down under what needs it, a module reported as installed is there;
* stores: what is stored is what was said, a revoked key stays out, a credential
  can be decrypted, what a page shows is so.

## Modules

| Module | Models | Extends |
|---|---|---|
| `Selection` | the elements of a sequence that pass a test, in their order, and a stable sort: Python's filtering comprehension and `sorted`, in a form the provers can reason about | |
| `BreakerHealth` | one health entry and what each breaker method does to it (pure operators) | |
| `CircuitBreaker` | the table, its rows, request threads, operator, deletion, database errors, restarts | `BreakerHealth` |
| `BreakerThreads` | threads inside the breaker's methods, switched at every call; a method alone is shown to be a step of `CircuitBreaker` | `BreakerHealth` |
| `RequestChain` | `try_chain` for several threads **on top of** `CircuitBreaker`: each of its steps takes the breaker's own step | `CircuitBreaker`, `Selection` |
| `ChatRequest` | a request from lookup to reply on several threads: prompt cache, registry, relay, cost row | |
| `MessageHistory` | what the chain makes of a conversation before each step | `Selection`, `ReasoningStore` |
| `ReasoningStore` | the reasoning of turns by call id: threads inside its methods, two dicts without a lock | |
| `Intent` | which message of a conversation is the instruction, and its task | |
| `Routing` | `select_step`: rules, policy, health, credit, the margin, the log row | `Selection` |
| `RouterCaches` | matrix and registry caches, their tables and the endpoints that edit them | |
| `ProviderCredit` | an account, what the plugins read of it, the cost cache and the verdict | |
| `Pricing` | price rows, cached tokens, peak hours | |
| `ModelCatalog` | the vendor's model index that request threads fetch when it is old | |
| `ConsoleSession` | one token blob, logins and refreshes on several threads | |
| `Budgets` | the two budget checks, the read and the write of spend, alerts, budget endpoints, errors, crashes | |
| `CostRefresher` | the refresher thread, cache rows, endpoints that invalidate or request, time, errors, restarts | |
| `GatewayConfig` | memory, rows and keys under the provider, profile, chain and mapping endpoints, failed writes, restarts | |
| `SettingsPromise` | **abstract**: a write is stored, and then every reader sees it | |
| `SettingsStore` | both caches of the settings table, the config's sections, boot, seeding, saves | instantiates `SettingsPromise` |
| `Runtime` | register, start in passes, reload, shutdown | `Selection` |
| `ModuleInstall` | installs and removals of the two optional modules | |
| `AccessKeys`, `Credentials`, `Alerts` | keys and their migration; encrypted rows and the master key; alerts without a lock | |
| `Conversations` | capture, stamps, synchronisation, transcripts | |
| `OperatorViews` | the task tree with the cache its viewers share, and the pages of a log | |
| `CronSpool`, `SourcesFile` | files shared with the host | |
| `MemoryBank` | tables of facts, recall and injection | |
| `*Proofs` | theorems about the module they extend: `RequestChainProofs` also those about `CircuitBreaker` and `BreakerThreads`, `HandlerProofs` those about `Budgets` and `ChatRequest`, `LifecyclesProofs` those about the four parts of `MCLifecycles`, `RoutingProofs` those about parts of `MCRouting` and about `CostRefresher`, `ViewProofs` those about the views, the alerts, `MessageHistory` and `ReasoningStore`, `StoresProofs` those about the other parts of `MCStores`, `SelectionProofs` lemmas only | |
| `MC*` | constants for TLC (`CostRefresher` needs none); `MCRouting`, `MCStores`, `MCLifecycles` and `MCThreads` (`GatewayConfig` and `BreakerThreads`) also put several parts that share no state side by side, one of which each behaviour runs | |

### BreakerHealth and CircuitBreaker

An entry is the `ProviderHealth` row: status, consecutive failures, override and
`tripped_until`, kept as the time that is left. `IsAvailable`/`Promote`,
`RecordSuccess`, `RecordFailure`, `ForceStatus` and `ResetHealth` are the methods
of the same names. In `CircuitBreaker`, `health` is the dict (of the keys in `tracked`), `rows` the table (of those in `stored`);
`Update` is the pattern every method follows, look up or create, change, persist, and
a database error leaves `rows` alone. `Admit`, `Succeed`, `Fail` and `Blameless`
are the calls a request thread makes; `ProbeOnly` the router's; `Reset`,
`Toggle`, `DeleteProvider` and `CreateProvider` the endpoints'. A method is one
step. Failure counts saturate at `FailureCap`,
at or above the threshold for dead, beyond which the code tells no values apart.

### BreakerThreads

The same methods for one key, cut wherever they call something or return from a
call: `at[t]` is where a thread is, `op[t]` the method it runs, `mine[t]` the
entry `h` it holds, which others may be changing in place, `loaded[t]` and
`draft[t]` the row as `_persist` queried it and as it will be written. `slot` is
what `_health` holds for the key; `get_health` may put a second entry over one that
was made meanwhile. `_persist` looks the entry up anew, copies its fields one
after the other and commits the columns that differ from what was loaded. Deadlines are
absolute here, and `Left` turns them into the time that is left. Four ghosts
(`late`, `crossed`, `botched`, `alone`) record that a write was overtaken, that a success was, and that a
method met no other.

What goes wrong where threads meet is part of the model, and
`ThreadsKeepTheBreaker` says that it goes no further: of two overlapping `_persist`
the older may reach the table last, and the row stays behind the entry until the next
write (`crossed`); a trip between the two halves of `record_success` leaves a
provider dead without a deadline, which no cooldown ends (`botched`); and
`is_available` raises `TypeError` if a promotion or a reset sets `tripped_until` to
`None` between its test and its comparison (`Raises`).

### RequestChain

`req[t]` is the local state of `try_chain` in thread `t`: the chain after
routing, the length taken before it (`size`, the code's `chain_len`), the index,
the attempt, and the verdict on every step passed. `Start` and `RouterReorders`
or `RouterKeeps` are the setup, `SkipVision`, `SkipOpen`, `PassBreaker`,
`SkipDegraded` and `Forward` the loop's checks in their order, and `Retry`,
`Serve`, `ProviderFails`, `ConfigFails`, `BadRequest` and `Unclassified` the ways
a call can end. The router is what its callers see of it: any order of any
non-empty part of the chain, or the chain as it was. `disturbed` is a history
variable: it marks a request during which somebody else changed the
configuration or a health entry, since what a request may claim about gating
holds for the state it saw.

### Budgets

The handler's SELECT runs outside a transaction and the ORM writes back columns
it computed from the rows it read, so adding a cost is `ReadBudgets` and, later,
`WriteBudgets`. `Dirty` is the set of rows the flush updates. Money is counted in
whole units and thresholds compared by cross-multiplication. `spent`, `edited`
and `announced` record what really happened.

### CostRefresher

`pc` is the thread's place in `_run`, `_pass` and `_scrape`; `late`, `hot` and
`lag` are what the pass derives from the time it read when it began. The
endpoint's thread goes through invalidation, the locked part of
`request_refresh` and the event one at a time. Ages saturate at the TTL.

### GatewayConfig

`providers` and `chains` are `config.raw`, `row` the two rows of the settings
table. A handler edits memory in one step, and `Save` then goes through the
sections: `Dump` is `json.dumps` of the live value and `Write` the transaction, so
that another handler's edit may come between. What follows save() (looking up
model contexts, which may save again, storing or clearing or moving the key) is
in `after`. `Restart` is `_hydrate`: a stored section is used unless it is empty or
invalid. A chain is the set of providers it names, because the properties are
about which providers are named and whether there is any.

### ChatRequest

`req[t]` is the local state of one `_serve_chat_completions`. `PromptCache` takes
no lock, so `get` and `set` are cut between the read of the table and the write
that relies on it; `overlaps` counts the insertions another thread's `set` was
under way with. The chain is one step that says which model answered. `sent` are
the status lines, `rows` the cost rows, `trouble` what went wrong on the way.

`FailRequest` is the last `except` clause of the handler, and four things reach it that
no clause before it names. A header that cannot be flushed, and a stream that breaks
with any error but a timeout or a disconnect (`RelayBreaks`: a body cut short, a TLS error), leave a second
status line and no cost row. A usage that is `null` makes the token verifier raise after
`cache.set` and before the accounting (`VerifyRaises`): a 500 and no row. A reply whose
words cannot be read for the capture (`FinishWithCapture`) is booked and gets a second
status line. A race lost in the cache is the fourth. `LinesFit` and `RowsFit` name each of
them: what `RequestsAreAccounted` promises is that there is no other way to a missing
row or a superfluous status line.

### MessageHistory

A message is its role, whether it has content, the calls it makes or answers and
its reasoning. `Normalize`, `Sanitize` and `EnsureReasoning` are the three
functions `try_chain` applies before every step, to the body the step before left
behind. `asked` is what the client sent. What `rehydrate` finds is up to the store and the threads
at it: `Found` is any call of the message, or none, so that a turn may be sent
the placeholder although its reasoning was there a moment before.

### ReasoningStore

`texts` and `stamps` are the two dicts, `keeping[k]` is where handler thread `k` is at
them. A capture writes text and time of each of its ids in two steps; `_prune` reads the clock
again, walks the times key by key (`ScanKey`, and `ScanFails` when the dict changed its size:
the `RuntimeError` that the caller swallows), pops each expired entry from one dict and
then from the other, counts the texts and chooses the oldest by the times. A lookup reads a
time and goes on to forget an entry by it, even if that was captured again meanwhile. So the
model has what goes wrong there: two prunes that evict for the same overflow, a
walk that raises and leaves the store above `max_entries`, and a text without a time, which
nothing evicts and which takes an entry's place for good.

None of this is promised away. `lone` is the thread that came while the dicts agreed and nobody
was at them, and has met nobody since; `sure` are the ids such threads captured, until
two threads meet. `StoreKeepsTheNewest` says that those are at hand until they expire or
`max_entries` later captures have come, and `LoneCapturesKeepTheBound` that one such capture
brings the store back to its bound, whatever overlaps had left in it. The cuts are at
dict operations, each of which the interpreter does without a switch.

### Intent, Routing, RouterCaches

`Extract` is the walk that looks for the newest genuine instruction, `Classify`
the ladder behind it; a conversation grows message by message so that action
properties can say what one more message does. Where the walk finds no instruction the code
classifies all user text run together (`AllUserText`): the words of one wrapper's tail if there is
nothing else, and otherwise whatever the model makes of them. `NoiseKeepsTheTask` is therefore
about conversations with an instruction: where there was none, the first
acknowledgement of the user's becomes one and may move the task. `Decide` in `Routing` is
`select_step` as one operator: blocks, candidates, ranks, target, hysteresis,
chain and log row. `RouterCaches` cuts `load_matrix` between its two queries,
the assignment and the line that reads the cache again to count its tasks (`CountTasks`: when an
edit has dropped it since, `len(None)` raises and an empty matrix is cached), and the edits of the Models page between the search and the
write. Three ghosts say what went wrong by an overlap and not by a step: `missed`
marks a matrix whose tables changed behind it, or that is the empty one of a load that failed or lost what it kept to a drop, `crossed` two upserts and `doubled` two
score edits that each looked before the other wrote.

### ProviderCredit, Pricing, ModelCatalog, ConsoleSession

Each route of a plugin is an action with what the vendor may answer; `account` is
the account itself, `creditRows` what the cost cache keeps and `known` the
payload kinds that were read since the account changed. In `Pricing` a behaviour
is one bill. In `ModelCatalog` a thread is between its clock reading and the
answer. In `ConsoleSession` `blob` is the encrypted row that everybody loads,
changes and saves; `crossed` marks that two of them overlapped.

### Settings

`SettingsStore` has the table, the caches of the two `SettingsStore` objects that
`main` builds, and the sections `Config` keeps. A set commits the row and then
updates the cache of the store it was called on; a load builds the cache from the
rows. A read of the table may fail, which is logged: the store then is `blind`,
it answers from a cache that lacks rows until a later read succeeds, and for good
once a write has marked it as loaded. `unread` are the sections that boot took
from the seed although a row was there. `SettingsPromise` has no cache: `stored`, `seen`, and
the writes that are `flying` in between. The mapping takes `seen` from the cache
of the store that owns the row when it has asked the table, and from the table
when it has not, `flying` from the handlers between commit and publication,
`raced` from the overlaps on record and `blinded` from the blind stores. The run
`Lifecycles` checks the abstract specification as a property of the detailed
one, and `LifecyclesProofs` proves it. The section written through both stores is excepted from
the promise, because the code does not keep it there.

### Runtime and ModuleInstall

`Runtime` quantifies over every graph of requirements. `passLeft` is the pass
under way, `undo` what has a disposer, `held` the effects in place. In
`ModuleInstall` the two modules run the same steps; `flight` is the record an
install leaves under the lock, `site` the directories, `image` what the image
brings along, `remover` the place of a removal, which takes no lock; `overtaken`
are the modules whose removal crossed an install.

### Stores

`AccessKeys` has the check of a presented key thread by thread and a migration
that may crash between its commit and the renaming of the file. `Credentials`
keeps for each row the master key it was encrypted under. `Alerts` cuts `fire`
at the points where another thread can run. `Conversations` serves requests of
several conversations at once: the reply is out before the capture, and the
synchronisation rebuilds rows from the requests table. A count is read (`CountStored`) and
written (`WriteCount`) in two statements, so the older of two counts may be written last; `overlapped` are
the conversations whose last counting began while another was between the two, and
`CountsAreExact` exempts them until a capture counts alone. `OperatorViews` walks the tree
one directory after the other. A lite walk is published in two assignments, the time
(`StampCache`) before the rows (`StoreRows`), and a viewer compares the time (`CheckCache`)
before it takes the rows (`TakeFromCache`): between the two it takes rows of any age under a fresh
time. `torn` marks such a page, `mixed` a cache whose last two publications
crossed, and `LiteIsRecent` is about all others. `CronSpool` has the executor and the snapshot of
the host as processes of their own. `SourcesFile` tells files from their names.
`MemoryBank` cuts retain and forget between listing, creating, adding and
counting.

## Runs

| Run | Instance | Shows |
|---|---|---|
| `Breaker` | 2 threads, 2 keys of 1 provider, weights 1 and 2, thresholds 2 and 4, 1 database error | every safety property of the breaker, and that cooldowns end |
| `ChainSafety` | 2 requests, 2 steps, text only, 1 operator step | `WalkIsSound`: gating, verdicts and exhaustion with two requests disturbing each other |
| `ChainLiveness` | 1 request, 3 steps over 2 base URLs of 1 provider, images, routing, 1 operator step | every request is answered |
| `Chat` | 2 threads, 3 requests, 2 spellings of one body, 2 models, a cache of 1 entry, streams | hits, books, registry, and that requests end |
| `Routing` | conversations of 3 messages; 4 steps over 2 providers and 2 models; 2 lookups against 2 edits by 2 threads, one model with an unlabelled row and one without; 3 plugins with 3 scrapes and 2 account changes; every pair of price rows; 2 threads at a catalog | noise, ranking, caches, credit, bills |
| `Budgets` | 2 threads, 1 budget, costs 0 and 3, caps 3 and 4 (0 by an edit), 1 edit, 1 fault | the safety properties, and that handlers finish |
| `Refresher` | 1 key, TTL 3, throttle 1, backoff 1 and 2, 2 endpoint calls, 1 fault | wake-up, data, retries, change of account |
| `Config` | 2 threads, 3 provider and 2 profile names, 2 edits, 1 failed write, any number of restarts; 2 threads inside the breaker, 2 entries, 3 methods or errors, 1 second, any number of boots | edits reach the disk and survive restarts, causes of empty chains, keys; `ThreadsKeepTheBreaker` |
| `Stores` | histories of 3 messages over 3 calls in 2 turns; 2 threads with 3 captures or lookups at a reasoning store of 2 entries and lifetime 1; 2 conversations with 2 requests; 2 trees of 2 tasks, 2 viewers with 3 looks, 1 move; 6 log rows; 2 cron ops; 3 PUTs, 1 crash; 3 key operations, 2 crashes; 2 secrets; 2 firing threads; 2 profiles with 3 facts | what is kept is what was said, access, and what pages show |
| `Lifecycles` | 2 handlers, 2 writes, 1 failed save or outage of reads, 1 restart; every graph of 3 components; 2 installs, 1 removal, 1 fault, 1 crash; 2 threads and a login at a session | the refinement, boots, installs, the session, and that they end |
| `BreakerKill` | as `Breaker` | **violated**: a killed provider is revived by a call that was in flight |
| `ConfigFallback` | 1 edit | **violated**: deleting a chain's only provider makes the next boot drop all profiles |

A property of the larger runs is a conjunction of named parts, each with its own
comment: `MessagesAreKept`, for one, is `CallsArePaired`, `NothingSaidIsLost`,
`FallOverSendsTheSame`, `ReasoningFitsTheTurn`, `StoreKeepsTheNewest`,
`LoneCapturesKeepTheBound` and the type invariants of the two modules. Beside the definitions that code mutates into stand
their plausible mistakes, marked `Mutant`, one for every part.

Each violated property states what a docstring or comment says; the line is
quoted under `findings` in `PROJECT.json`.

Why the bounds are enough to be interesting. Two threads are what each of the
races needs. Two keys of one provider let one be deleted or promoted while the
other is in use. The breaker's thresholds leave a state between each pair of
levels, and weight 2 jumps over one. In `Budgets` a cost of 3 meets a cap of 3
exactly and crosses one of 4, and 0 is the request that changes no row. The
refresher's TTL is longer than its longest backoff, which is longer than the
throttle, as in the defaults. Two edits overlap, or follow each other: a provider
is created with a key and renamed to the third name, the default profile is
deleted and another created from it. A cache of one entry is full at once. Three
messages hold an instruction, a call and its answer, or an instruction and two
kinds of noise; of three calls two are of one turn and one of another, so that a store
of two entries is full after one capture, over its bound after the next and, with a third, pruned by a
thread alone after two that met. Two viewers are what it takes to find a
cache between its time and its rows, a third look to find what they left. There is one budget, which two
threads share; `NothingInvented` and the other theorems about `Budgets` are for any number. The scores of the two models are
within the margin for one task and beyond it for the other. Three components make
every shape of graph a pass can meet: a chain, a fork, a join, a cycle, a missing
requirement. Of three methods of the breaker two overlap after one that prepared
them, or two overlap and a database error or a deletion falls between; a row that is dead
until time 1 can be promoted before or after the second passes. Bounds on edits, faults and operator steps limit how
often the environment interferes, never what the code does in answer.

### Fairness

* `Breaker`: time passes (`WF` on `Tick`), and nothing else. `CooldownEnds` claims nothing if the operator keeps interfering or the key is
  killed.
* `ChainLiveness`, `Budgets`, `Chat`: a thread that has a request takes its next step.
  Threads are scheduled by the operating system and every upstream call has a
  timeout. No fairness is assumed of clients, operators, faults or the router.
* `Refresher`: the refresher's thread and an endpoint that has begun take their
  next step, scrapes end (they have timeouts), and time passes.
* `Lifecycles`: the main thread goes on with a start or a shutdown, an install's
  thread with its install, and the command line with
  its polling, which sleeps and asks again until its deadline. That pip ends is an
  assumption about pip: it bounds its own connections and their retries, but `setup.py` reads
  its output without a timeout (`_stream_mem`, `:597`), so a pip that hangs keeps its install
  running for ever. Only uninstalling has a limit (`:676`). Nothing is assumed
  of operators, the approval of a login, handlers or faults.
* `Routing` and `Stores` state no liveness, nor does `GatewayConfig`. In `Routing`
  the lookups are interchangeable, and so are the editors: each is a thread that
  differs from the others by its name only (`MCSymmetry`). So are the threads inside
  the breaker, and the entries they make, in `MCThreads`, where nothing is assumed fair either.

### What the code does otherwise than its text says

Two of these are runs. The others are definitions in the modules, each with the
sentence it states, that TLC refutes when they are given to it as an invariant or
property of the run of their module; the counterexamples are short. Two need
another constant: `ExceededBlocks` a cost of 1 beside 3 in `Budgets`, and
`NoAnswerWithoutId` `WithoutId = TRUE` in `Stores`.

* `NoIndexError` (`request_pipeline.py:1005`): `chain_len` is taken before the
  router shortens the chain, so a failure of the last step indexes past its end.
* `GatingKeepsAChanceForImages` (`request_pipeline.py:902`): gating counts a
  healthy step that cannot take images.
* `ExceededBlocks` (`handler.py:836`): a stale sum lowers the spend of a budget
  that is already exceeded, which then neither counts nor blocks.
* `RequestsRemembered` (`cost_cache.py:709`): a refresh requested during a failing
  scrape is dropped.
* `StreamTimeoutFallsBack` (`handler.py:518`): a timeout in a stream that has begun
  reaches the client as a second status line.
* Three are seen in the ghosts of the modules and not in a definition of their own.
  `handler.py:622` says of the accounting that it "must never be able to turn a completion the upstream already
  produced (and charged for) into a failure response"; the verifier called just before it (`:614`)
  has no guard and does (`VerifyRaises`). `sse_helpers.py:34` says that `extract_sse_text` "never raises";
  a payload that is no object raises on `.get` (`FinishWithCapture`). `reasoning_store.py:14` promises a "bounded
  size", which captures that meet may exceed until one is alone, or for good where a
  text has lost its time (`LoneCapturesKeepTheBound` says how far the promise goes).
* `NoAnswerWithoutId` (`request_pipeline.py:336`): sanitizing compares ids, so a
  tool message that has none is left where it is, even with no call before it.
* `BlocksHold`, `HeadHasRoom` (`router.py`): where the chain is kept (margin, score
  floor, `keep_default`) it goes out with the steps that rules block; hysteresis keeps
  the default head without asking its context window.
* `PreambleOnlyWhenAlone` (`message_norm.py`): a preamble that follows an
  instruction is what the request is classified by.
* `LaterBootsSkip` (`main.py:127`): a boot that cannot read the settings table
  takes itself for the first one and saves the seed over the stored sections;
  one that cannot read a single section serves the seed's, and the next edit of
  anything saves it over the stored one.
* `SpecificRateWins` (`config.py:648`): a wildcard row that comes first is taken
  before the provider's own.
* `NoFieldsIsNotDrained` (`commandcode.py:521`): an answer without the credit
  fields reads as zero dollars.
* `SetUpAfterDependencies` (`runtime.py:134`): a component whose setup raised
  counts as ready for those that require it.
* `ToggleReachesConfig` (`endpoints.py:236`): the routing toggle writes the
  section's row through the live store and never the dict that `Config` reads, so
  the next save of anything writes the old section back.
* `RefusedForTheSibling` (`setup.py`): a baked memory module is refused removal
  although it is the only one that was baked, because the other's packages are a
  part of its own.
* `KeyHandedOutIsKept` (`crypto.py:59`): of two threads that create the master key one
  may go on with a key no file holds, until it reads the file again.
* `AckReachesNewest` (`alert_manager.py`): racing threads record two alerts of one
  key, and an acknowledgement marks one of them.
* `NoDuplicatedTranscripts`, `StampLeavesOthersAlone`, `WindowOnlyWidens`
  (`conv_store.py`, `work_conversations.py`): a rewritten history is stored again,
  stamps reach other conversations' rows, and a synchronisation may narrow the
  window.
* `RootsDoNotLeak`, `RecentOpsAreShown`, `SourcesNeverTorn` (`work_*.py`): the cache
  of tasks is one for all roots, the list of executed ops is cut by reverse name and not by time,
  and two PUTs can write one temporary file at once.
* `KeyHasOneOwner`, `RowHasOneScore` (`endpoints.py:2960`, `:2889`): of two edits
  at once each looks before the other writes, and no table has a constraint: a
  benchmark key gets two names, a row two scores.
* `NullPinIsNewest` (`models.py:224`, `seed_capabilities.py:190`): a model without a pin that still
  has rows without a label is ranked by those alone, while the page, which
  "mirrors" the choice, shows the newest label.
* `ExistingTableIsReused` (`lancedb_backend.py:98`): two first retains, or a listing
  that failed, overwrite a profile's table.

## Proofs

Each theorem holds for every value of the constants that satisfies the module's
named assumption. The facts about filtered sequences are lemmas of
`SelectionProofs`: `Selected` keeps exactly the elements that pass, each of them
once where the sequence has it once, and in their order; `Sorted` has the same
elements, the least key first. `RequestChain`, `Runtime`, `Routing` and `MessageHistory` use them and
not the library's `SelectSeq`, about which the provers know nothing. The library's
`FlattenSeq` is a recursive function and can be compared with a given one by the
least place where the two differ; `PiecesMakeTheWhole` of `ViewProofs` does so.

* `RequestChainProofs`, the breaker (`ThresholdAssumption`, `CooldownAssumption`,
  `KeyAssumption`, `WeightAssumption`: thresholds and weights positive, nothing about
  their order): types, `ProbeFailureReturnsToDead`,
  `OnlyKilledStaysDead`, `UnhealthyHasCause`, `WriteThrough`, `LadderNotSkipped`.
  The argument is per entry: lemmas show that each method maps a good entry to a
  good entry, and then memory and disk hold only good entries because every write
  is one of them. `WriteThrough` needs that a step persists exactly the entries
  it changed.
* `RequestChainProofs`, the chain: `WalkIsSound`. `ChainInv` ties the breaker's
  open calls to the places of the requests and says, of a request that nobody has disturbed,
  that the entry of the step in hand consents and is the last resort if it is
  degraded (`StandsOn`), and that every step behind it was tried or cannot
  become healthy by what the request does itself (`PassedForCause`, which matters where two steps
  share a breaker key); a request that is disturbed owes neither. `WalksDriveTheBreaker` maps every step of a walk
  to a step of `CircuitBreaker` or a stutter, so what is proved of the breaker holds under the chain.
* `RequestChainProofs`, threads inside the breaker (`ThreadsAssumption`: the marks for no entry and no row
  are neither): `ThreadsKeepTheBreaker`. `RowIsDue` says it field by field:
  a field of the row that differs from the entry is about to be copied by a thread that is
  on its way to the commit, unless a write was late. `AloneInv` says of a thread that met no other
  how much of its method is done (`Progress`), so that the entry it commits is
  what the operators of `BreakerHealth` make of the one that was there when it began
  (`OutcomesAreAtomic`). Then `StepsOrNothing` maps each of its
  steps to none of `CircuitBreaker` but the last, which is the method's. One boot is excepted: a
  process that dies inside a deletion has changed the configuration and not yet the
  table (`DeletionCutShort`).
* `HandlerProofs`, budgets (`BudgetAssumption`): types, `ActiveHasRoom`,
  `OvershootBounded`, `ThresholdsAnnounced`, `SpendNotInvented`. None is inductive. The strengthening
  says of each thread between its read and its write that what it read was a row
  of an active budget, below the cap (`RowsRead`), and that every threshold the
  recorded spend has reached is announced or about to be announced by a thread
  (`ThresholdsCovered`). For `SpendNotInvented`, what a budget was charged and what
  the threads still have to charge it fit together in what its requests cost
  (`DebtsFit`). What the threads owe is a sum over a set of any size: the
  invariant says that there is a function that obeys the equations of a sum
  (`IsSumOf`), and a step moves one debt and has to show it again for its own
  thread only (`OneDebtChanges`), so that no induction is needed.
* `HandlerProofs`, a chat request (`ChatAssumption`: normalising twice is
  normalising once, `None` is no model or body): `HitIsAnAnswerToThisRequest`,
  `RequestsAreAccounted`, with the exceptions named there. `Booked` says what a request has sent and booked by
  each place of the handler, and `LinesFit` and `RowsFit` what of that every way out of it leaves, `Keyed` that the body, the key, the entry and the answer in
  its hands belong together, `CacheIsHonest` the same of the table,
  and `SlackIsEarned` that a thread about to insert has room for its entry or was
  overtaken by an insertion that counted as an overlap.
* `RoutingProofs`, the refresher (`RefresherAssumption`): types, `AskedIsWoken`,
  `GoodPayloadKept`. `Awake` strengthens the second: from a request until the
  thread is past clearing its event, the event is set or about to be.
* `GatewayConfigProofs` (`ConfigAssumption`: the seed is a configuration without
  an empty chain): types, `EditsReachDisk`, `EmptyChainHasCause`,
  `KeysHaveOwners`, `RestartKeepsEdits`. `Reach` extends the second to states with handlers under
  way: a row that differs from memory and does not lag is still to be written by
  some thread. `TextCause` extends the third to texts that were rendered and not
  yet written. `KeyInv` extends the fourth to handlers between their edit and
  what they still have to do about the key. The last follows from the second and `_hydrate`.
* `LifecyclesProofs`, settings (`SettingsAssumption`: which rows are sections, a value is
  not the mark for its absence, somebody is there to write): `SettingsSpec` implements
  `SettingsPromise`. The initial states map to initial states, and there is one
  lemma for each action: a read of a store is a recovery, an oversight or
  nothing to the promise, a commit is a `Put`, a publication an `Appear`, a restart a
  restart, and everything else a stutter. `StoresInvariant` is what they need: a
  store that never read the table has an empty cache (so that loading it shows
  the table), a store is asked before anything is written through it (so that a
  commit shows nothing yet), and a row that one store owns is written through
  that store. Two more results rest on it. `LagAlwaysHasACause` is a property of the
  abstract specification, carried over to the two caches; `FlyingIsStored`
  strengthens it: an unraced write on its way carries what is stored.
  `ConfigurationIsKept` is about restarts; `ConfigInvariant` says that a section
  which differs from its row is still on its way to the table, and what boot has
  read of each section so far.
* `LifecyclesProofs`, components (`RuntimeAssumption`: the graphs of requirements
  are over the components): `LeftOutHasMissing`, `NothingLeftBehind` and
  `DependentsStopFirst` for every set of graphs, cycles and gaps included.
  `RequiredFirst` says that what a component requires precedes it in the order of
  set-up, which is why the reverse of that order is safe; `PassIsFair` says that
  a pass without progress has only gone by components that miss something; `EffectsAreTracked`
  that an effect with a disposer is still to be undone or its disposer raised.
* `LifecyclesProofs`, installers (`SetupAssumption`): `InstallsAreSound`,
  `SiblingSurvives`. `OneThread` says that a module nobody overtook has at most
  one thread, whose status is the one on record, and without one the last result;
  `AloneIsWhole` and `DoneIsWhole` that an install which met no other and no
  removal has all its packages in place once pip has ended.
* `LifecyclesProofs`, console session (`ConsoleAssumption`): `SessionIsKept`.
  `BlobsAreBacked` says that a refresh token in
  the store or in the hands of a thread is none the provider has yet to issue, `MergedFromLoaded` that what
  a thread is about to save comes from what it loaded, `NewestIsAtHand` that the
  token the provider takes is stored or about to be saved by a thread. The assumption that a token
  lives longer than the skew of 120 seconds is needed: `current_access_token` hands
  out a token it has just fetched without looking at its expiry, so with shorter
  lives `TokenOutlivesItsUse` is false.
* `LifecyclesProofs`, the composition: the three invariants hold side by side,
  which gives `ProcessesAreSound`, `InstallsAreSound`, `SessionIsKept` and
  `NothingIsPulledAway` for the specification the run `Lifecycles` checks.
* `StoresProofs`, memories (`MemoryAssumption`: finitely many facts, nobody is no profile):
  `MemoryIsKept`. `FactsAreFresh` says that a retain has a fact of its own and a
  forget one that was retained, `FactsHaveOwners` that a table holds the facts of its
  profile only, and `CountsAreTrue` that between the two counts of a forget which
  nothing crosses a table loses the fact or nothing; the counting rests on the
  library's theorems on finite sets.
* `StoresProofs`, access (`KeysAssumption`: finitely many keys in the legacy
  file; `CredentialsAssumption`): `AccessIsGuarded`. `KeysSound` says of the table
  that a secret has one row, that the row a key descends from is there with the
  same rights, and that a withdrawn secret has a row, which no migration brings
  back to life because it only adds secrets without one; `LateStayOut` says of a
  request with a withdrawn secret that it was not let in, other than to a profile
  that asks for no key. For credentials, `EnvironmentRules` says that with a
  key in the environment no row is under another, and `FileRules` that without one, and
  until a caller looks for the key file while another is making it, one caller makes
  it and nothing is encrypted before it has.

* `RoutingProofs`, the intent walk (`IntentConstants`: the mark for no task is no
  task, lists are of tasks) and the router (`RoutingConstants`: the tables have the
  shapes of the code's, the chain is not empty). For the walk, lemmas compare the newest
  instruction of a conversation before and after one message more;
  `VerdictFitsTheWords` is the part of `IntentInvariant` that the properties leave
  unsaid: a semantic verdict is one of what may have been heard. For the router everything is decided within one `Select`, so the proof follows the code:
  a rule that fires may fire, a band of steps comes out with its best first
  (`ArrangedSteps`), and the chain is the target's servers and then every other
  step with room (`ChainIsBuilt`).
* `RoutingProofs`, the tables and their caches (`TablesAssumption`: what is seeded is a
  table; `CachesConstants`): `RankingFollowsTheTables`. `LookupsHoldTheTables` says that what a
  load under way has read is what the tables say, or is marked as late; a load that finds its matrix
  dropped before it has counted the tasks marks the empty one itself;
  `EditsAreGuarded` that an upsert past its guard has its key alone or knows that it has
  not. That the page shows what is ranked needs the labels of a model to be
  finitely many, so that there is a newest (`LargestOfFinite`).
* `RoutingProofs`, the account (`CreditAssumption`): `CreditFollowsTheAccount`,
  `MeasuredPlanIsKept`. `Fair` says what a payload may tell of the account; it has
  to hold of the rows (`RowsAreFair`), of what a scrape has in hand at each of its calls
  (`ScrapeIsFair`) and of the plugin's own cache with its
  time (`CacheIsFair`), because each is the source of the next.
* `RoutingProofs`, prices and catalog (`PricingAssumption`; `CatalogAssumption`:
  the cooldown after a failure is no longer than the life of an index, 60 and 600 seconds in
  the code): `BillsAndNamesAreRight`. The prices need types alone, since a bill is a function of the rows;
  the catalog's spacing needs `FetchesLeaveTheirTime`: a fetch on its way
  began no earlier than the last that met no other, and one that ended left its time.

* `StoresProofs`, conversations (`TalkAssumption`: the null is no conversation, what is
  cut is cut once): `ConversationsAreKept`. `CallersSayAll` says that a request under way
  carries its client's whole history; `CapturesFit` that what a capture has read or is
  about to write is the history's, at its place; `NothingIsDropped` that as long as no
  capture has failed, what a transcript lacks is carried by a thread; `CountsAreUnderWay`
  that of a conversation which was last counted alone at most one thread has a count in hand, and
  that a count is still to be taken, or the one in hand, or the one in the list, is exact. The step that needs them is the write: it
  replaces rows by position over whatever another capture has stored since, and
  leaves the same rows, because both took them from one history.
* `ViewProofs`, what an operator is shown, and `StoresProofs`, which puts the parts side
  by side: `OperatorsAreToldTheTruth`.
  Tasks (`TaskAssumption`: the cache of the lite pass lives): `WalksAreTrue` says of a
  walk which nobody's move crossed that it holds the tasks of the states behind it, and `CacheIsInOrder` that the time in
  the cache is that of the walk its rows are of, unless their walk is about to store them or
  was crossed by another. Logs (`TableAssumption`: a page may ask for all rows, which is no
  number it could ask for): `CountedIsRight` ties a request between its count and its fetch to the
  rows it counted; that the pages make the whole table is a lemma on sequences, and that
  the number of pages is right one on `Ceil`. Cron spool
  (`CronAssumption`: ids are numbers): `ChecksStand` says that what was checked against the file
  is still so or the op was raced, `PagesAreFair` that a page lists no op as pending that was executed before
  its first look. Sources
  (`FileAssumption`: what is put is none of the marks for a broken file): `AloneIsSafe` says that
  while one writer is at the file, the temporary file is its own and the file itself whole.
  Alerts (`AlertAssumption`: the cooldown is no longer than the model's time):
  `CooldownsHold` keeps apart by the cooldown, as long as no two threads raced, the rows of a key and the
  firings about to become rows; `SilenceHasACause` is inductive with it.

* `ViewProofs`, message histories (`HistoryAssumption`: a turn makes finitely many calls;
  `ClientsAssumption`: a message a client sends back has the calls of one turn, and the reasoning of that turn or
  none): `MessagesAreKept`, for every conversation and every number of fall-overs.
  Both steps of the preparation leave alone what they made (`Normalized`,
  `Sanitized`), so a second preparation changes the reasoning only; that as much
  is said as before is a count over the positions a selection keeps
  (`SelectedCount`).
* `ViewProofs`, the reasoning store (`StoreAssumption`: the mark for no thread is no thread, calls belong to
  turns): `ReasoningIsKept`, for any threads and limits. `StoreTypes` says among other things that a time on record is
  that of the last capture, `LonePhase` of a thread that has the store to itself that nothing was captured since it read the
  clock, that the dicts differ by the entry in its hand at most, and that what it is
  about to forget is spent: expired, or with `max_entries` captures at least as late (`Spent`). `SureIsKept` and
  `AtRest` carry both to the time when nobody is there. `StoresProofs` puts this part
  beside the others for `MessagesStayKept`.

Every invariant named here that is stronger than the property it serves was
first checked by TLC, under the configuration of its module's run.

Only model-checked: liveness, because the prover has no rule for the fairness of the
specifications (`CooldownEnds`, `RequestsAnswered`, `RequestsEnd`, `HandlersFinish`,
`RefreshesComeThrough`, `EverythingEnds`).

## What is left out

* Inside the part of a configuration handler that edits memory threads do not
  interleave; nor do walks of a chain inside the breaker's methods: `RequestChain` takes them
  for steps, which `ThreadsKeepTheBreaker` justifies where they do not meet.
* A disposer that raises during a reload (one that raises during a shutdown is modelled).
* Jitter of the refresher, its unused `_refresh_all` flag, changes of TTL other
  than the refresh they cause; changes of a budget's scope.
* What a text says: which message is a wrapper, a preamble or an echo, and which
  task its words have, is given with the message; scores, prices and windows are
  constants. Embeddings and distances are any order of the candidates.
* The scraping of pages and the wire formats of upstreams: an answer is one of
  the payloads the parser can make of it.
* The request estimator, the llama.cpp plugin, the token verifier, the
  first-boot wizard, workspace and fleet views, search and export of
  conversations, and the pages: they keep no state and change none.

## Seen while modelling

Behaviours that no text contradicts and that no property is about:

* Chain and handler: a call in flight when its provider is deleted makes the
  health row again; the failover event names a step that may then be skipped; a
  cache whose `set` raises after the upstream answered loses answer and cost row;
  a cost row refused inside an `except` clause leaves the client without a reply;
  the prompt cache's key ignores the temperature.
* Budgets and refresher: two requests finishing together lose one increment; a
  request that cost nothing may write an older sum into `api_keys.total_spend`;
  a key-scoped budget does not follow a rotated key; after a transient failure of
  a key without data the retry waits for the TTL and not for the backoff.
* Configuration: two overlapping saves may leave the older text on disk; a crash
  in the middle of a rename separates a provider from its key; a PUT of a profile
  that is refused for its description has already changed the chain in memory;
  deleting the last provider brings the seed's providers back; the mapping
  endpoint recreates, without a chain, a profile deleted meanwhile.
* Router: the endpoints for a manual score, for seeding and for deletion do not
  drop the cached matrix; a load that failed caches an empty one; derived tasks
  overwrite scores set by hand; config overrides settings in
  `_effective_policy`, whose docstring has it the other way; an explicitly empty
  list of profile rules falls through to the config's; an instruction right after
  an assistant's call is taken for the call's result; an embedder that fails while
  the centroids are built is out until the next invalidation.
* Plugins: an errored subscription counts as drained; a refresh under way may be
  saved over a new login, and the organisation's save over a refresh or a clear;
  a token without `expires_in` is fresh for ever; an odd answer of the catalog
  empties the index for ten minutes; the plugin path bills a prompt as misses
  where the generic one bills nothing.
* Stores: rotating a revoked key makes another live one; a crash between the
  truncation and the write of the master key leaves an empty file for ever; the
  synchronisation groups by profile and model, and the last group wins; routing
  rows of calls longer than half a minute are never stamped; a lone baked memory
  module cannot be removed though its directories are deleted before the refusal; a lookup of the
  matrix that an edit drops just before its last line returns `None` to its caller.

## Plan

What could be added: the edits of a configuration handler cut between their
assignments, and the embeddings behind the semantic classifier.

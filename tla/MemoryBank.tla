----------------------------- MODULE MemoryBank -----------------------------
(* The memory plugin: one table of facts per profile, made on demand, which  *)
(* request threads add to, search and delete from without a lock of the      *)
(* gateway's, and the harness that puts recalled facts into a chat request.  *)
EXTENDS Naturals, Sequences, FiniteSets

CONSTANTS
  Banks,                  \* profiles
  Facts, Tagged,          \* what is stored, in the order of their ids; Tagged carry the tag
  Minds,                  \* request threads
  MaxMindOps, MaxMemoryFaults

ASSUME MemoryAssumption == "nobody" \notin Banks /\ IsFiniteSet(Facts)

NoTable == [exists |-> FALSE, facts |-> {}]

VARIABLES
  memoryActive,        \* get_memory() is not None
  memoryTables,        \* the tables of the database
  minds,         \* the threads
  owner,         \* the profile each stored fact was retained for
  kept,          \* facts whose retain was answered and that nobody forgot since
  gone,          \* facts whose forget, which no other crossed, was answered "deleted"
  overwritten,   \* facts in a table that a retain made anew
  mindOpsLeft, memoryFaultsLeft

memoryVars == <<memoryActive, memoryTables, minds, owner, kept, gone, overwritten, mindOpsLeft, memoryFaultsLeft>>
memoryBounds == <<mindOpsLeft, memoryFaultsLeft>>

Thinking == [at |-> "idle"]
Unused == {f \in Facts : owner[f] = "nobody" /\ \A m \in Minds : minds[m].at = "idle" \/ minds[m].fact # f}

(* init_memory: the module may be missing or disabled, and boot goes on. *)
MemoryInit ==
  /\ memoryActive \in BOOLEAN
  /\ memoryTables = [p \in Banks |-> NoTable]
  /\ minds = [m \in Minds |-> Thinking]
  /\ owner = [f \in Facts |-> "nobody"] /\ kept = {} /\ gone = {} /\ overwritten = {}
  /\ mindOpsLeft = MaxMindOps /\ memoryFaultsLeft = MaxMemoryFaults

Begin(m, what, p, f, seen) ==
  /\ memoryActive /\ minds[m] = Thinking /\ mindOpsLeft > 0 /\ mindOpsLeft' = mindOpsLeft - 1
  /\ minds' = [minds EXCEPT ![m] = [at |-> what, bank |-> p, fact |-> f, listed |-> seen, before |-> 0, crossed |-> FALSE]]

Done(m) == minds' = [minds EXCEPT ![m] = Thinking]

(* The thread goes on, and the others at work on its table are crossed. *)
GoesOn(m, at) ==
  minds' = [n \in Minds |-> IF n = m THEN [minds[m] EXCEPT !.at = at]
                            ELSE IF minds[n].at # "idle" /\ minds[n].bank = minds[m].bank THEN [minds[n] EXCEPT !.crossed = TRUE]
                            ELSE minds[n]]

(* _table_names: an error of the database reads as no tables at all. *)
Listing(p, ok) ==
  /\ ok \/ memoryFaultsLeft > 0
  /\ memoryFaultsLeft' = IF ok THEN memoryFaultsLeft ELSE memoryFaultsLeft - 1

-----------------------------------------------------------------------------
(* retain *)

(* The text is embedded, or that fails and the request is answered 400; then *)
(* the tables are listed.                                                    *)
RetainBegins(m, p, f, ok) ==
  /\ f \in Unused /\ \A g \in Unused : f <= g
  /\ Listing(p, ok)
  /\ Begin(m, "make", p, f, ok /\ memoryTables[p].exists)
  /\ UNCHANGED <<memoryActive, memoryTables, owner, kept, gone, overwritten>>

\* Mutant: the table is always made.
MakeTableAlways(m) ==
  LET p == minds[m].bank IN
  /\ minds[m].at = "make"
  /\ memoryTables' = [memoryTables EXCEPT ![p] = [exists |-> TRUE, facts |-> {}]]
  /\ GoesOn(m, "add")
  /\ UNCHANGED <<memoryActive, owner, kept, gone, overwritten, memoryBounds>>

(* _table: a table that was listed is opened, else it is made with           *)
(* mode="overwrite", whatever was put into it since it was looked for.       *)
MakeTable(m) ==
  LET p == minds[m].bank IN
  /\ minds[m].at = "make"
  /\ memoryTables' = IF minds[m].listed THEN memoryTables ELSE [memoryTables EXCEPT ![p] = [exists |-> TRUE, facts |-> {}]]
  /\ overwritten' = IF minds[m].listed THEN overwritten ELSE overwritten \cup memoryTables[p].facts
  /\ GoesOn(m, "add")
  /\ UNCHANGED <<memoryActive, owner, kept, gone, memoryBounds>>

(* The row is added; the answer is its id. *)
AddFact(m) ==
  LET p == minds[m].bank  f == minds[m].fact IN
  /\ minds[m].at = "add"
  /\ memoryTables' = [memoryTables EXCEPT ![p].facts = @ \cup {f}]
  /\ owner' = [owner EXCEPT ![f] = p] /\ kept' = kept \cup {f}
  /\ Done(m)
  /\ UNCHANGED <<memoryActive, gone, overwritten, memoryBounds>>

(* add fails, also because the table was made anew under the open handle. *)
AddFails(m) ==
  /\ minds[m].at = "add" /\ memoryFaultsLeft > 0 /\ memoryFaultsLeft' = memoryFaultsLeft - 1
  /\ Done(m)
  /\ UNCHANGED <<memoryActive, memoryTables, owner, kept, gone, overwritten, mindOpsLeft>>

-----------------------------------------------------------------------------
(* forget *)

ForgetBegins(m, p, f, ok) ==
  /\ owner[f] # "nobody"
  /\ Listing(p, ok)
  /\ IF ok /\ memoryTables[p].exists THEN Begin(m, "count", p, f, TRUE)
     ELSE memoryActive /\ minds[m] = Thinking /\ mindOpsLeft > 0 /\ mindOpsLeft' = mindOpsLeft - 1 /\ UNCHANGED minds
  /\ UNCHANGED <<memoryActive, memoryTables, owner, kept, gone, overwritten>>

CountBefore(m) ==
  /\ minds[m].at = "count"
  /\ minds' = [minds EXCEPT ![m].at = "delete", ![m].before = Cardinality(memoryTables[minds[m].bank].facts)]
  /\ UNCHANGED <<memoryActive, memoryTables, owner, kept, gone, overwritten, memoryBounds>>

DeleteFact(m) ==
  LET p == minds[m].bank  f == minds[m].fact IN
  /\ minds[m].at = "delete"
  /\ memoryTables' = [memoryTables EXCEPT ![p].facts = @ \ {f}]
  /\ kept' = IF owner[f] = p THEN kept \ {f} ELSE kept
  /\ GoesOn(m, "recount")
  /\ UNCHANGED <<memoryActive, owner, gone, overwritten, memoryBounds>>

\* Mutant: every delete that raises nothing counts as one.
CountAfterAlways(m) ==
  /\ minds[m].at = "recount"
  /\ gone' = IF minds[m].crossed THEN gone ELSE gone \cup {minds[m].fact}
  /\ Done(m)
  /\ UNCHANGED <<memoryActive, memoryTables, owner, kept, overwritten, memoryBounds>>

(* "deleted" is answered when the table has fewer rows than before. *)
CountAfter(m) ==
  LET p == minds[m].bank IN
  /\ minds[m].at = "recount"
  /\ gone' = IF Cardinality(memoryTables[p].facts) < minds[m].before /\ ~minds[m].crossed THEN gone \cup {minds[m].fact} ELSE gone
  /\ Done(m)
  /\ UNCHANGED <<memoryActive, memoryTables, owner, kept, overwritten, memoryBounds>>

-----------------------------------------------------------------------------
(* The plugin is switched on by a reload, or off. *)
Switch ==
  /\ memoryFaultsLeft > 0 /\ memoryFaultsLeft' = memoryFaultsLeft - 1
  /\ memoryActive' = ~memoryActive
  /\ UNCHANGED <<memoryTables, minds, owner, kept, gone, overwritten, mindOpsLeft>>

MemoryNext ==
  \/ \E m \in Minds :
       \/ MakeTable(m) \/ AddFact(m) \/ AddFails(m) \/ CountBefore(m) \/ DeleteFact(m) \/ CountAfter(m)
       \/ \E p \in Banks, f \in Facts, ok \in BOOLEAN : RetainBegins(m, p, f, ok) \/ ForgetBegins(m, p, f, ok)
  \/ Switch

MemorySpec == MemoryInit /\ [][MemoryNext]_memoryVars

-----------------------------------------------------------------------------
(* recall and the harness: what a request of profile p gets, for a search    *)
(* that finds any k facts of its table.                                      *)

\* Mutant: the filter is left to the caller.
FilteredNot(p, tag, ok) == memoryTables[p].facts

(* The where clause; a filter the database refuses is dropped. *)
Filtered(p, tag, ok) == IF tag /\ ok THEN memoryTables[p].facts \cap Tagged ELSE memoryTables[p].facts

Recall(p, tag, ok, k) ==
  IF ~memoryActive \/ ~memoryTables[p].exists THEN {{}}
  ELSE LET from == Filtered(p, tag, ok) IN
       {s \in SUBSET from : Cardinality(s) = IF Cardinality(from) < k THEN Cardinality(from) ELSE k}

\* Mutant: the block takes the place of the system prompt.
InjectedOver(messages, block) ==
  IF block = {} THEN messages
  ELSE <<[role |-> "system", text |-> "", block |-> block]>> \o (IF messages # <<>> /\ messages[1].role = "system" THEN Tail(messages) ELSE messages)

(* inject_memory_context: the block is merged into a leading system prompt,  *)
(* or a message of its own before all others.                                *)
Injected(messages, block) ==
  IF block = {} THEN messages
  ELSE IF messages # <<>> /\ messages[1].role = "system" THEN <<[messages[1] EXCEPT !.block = block]>> \o Tail(messages)
  ELSE <<[role |-> "system", text |-> "", block |-> block]>> \o messages

Requests ==
  LET say(role, text) == [role |-> role, text |-> text, block |-> {}] IN
  {<<say("user", "u")>>, <<say("system", "s"), say("user", "u")>>}

-----------------------------------------------------------------------------
(* A fact that was retained can be recalled until it is forgotten, whatever  *)
(* else goes on in its table and in the others.  Only a retain that did not  *)
(* find the table, because it was not there yet or could not be listed, can  *)
(* lose it (retain, _table).                                                 *)
FactsAreKept ==
  \A f \in kept : f \in overwritten \/ f \in memoryTables[owner[f]].facts

(* A request sees the facts of its own profile and of no other; with a tag,  *)
(* only the tagged ones, unless the database refuses the filter (recall).    *)
RecallIsOwnAndFiltered ==
  \A p \in Banks, tag, ok \in BOOLEAN : \A s \in Recall(p, tag, ok, 2) :
    \A f \in s : owner[f] = p /\ (tag /\ ok => f \in Tagged)

(* The harness adds to a request and takes nothing from it: every message of *)
(* the client is there, in its order and with its text, at most one message  *)
(* is put before them (inject_memory_context).                               *)
InjectionKeepsTheRequest ==
  \A p \in Banks, r \in Requests : \A s \in Recall(p, FALSE, TRUE, 2) :
    LET out == Injected(r, s) IN
    \E cut \in 0..1 : /\ Len(out) = Len(r) + cut
                      /\ \A i \in DOMAIN r : out[i + cut].text = r[i].text /\ out[i + cut].role = r[i].role

(* A forget that nothing crosses tells the truth: a fact said to be deleted  *)
(* is in no table (forget).                                                  *)
DeletedIsGone ==
  \A f \in gone : \A p \in Banks : f \notin memoryTables[p].facts

(* "mode="overwrite" is only used when the schema actually differs; adding   *)
(* rows to an existing table reuses it".                                     *)
ExistingTableIsReused == overwritten = {}

(* Facts that were acknowledged are recalled by their profile and by no      *)
(* other, a request keeps its messages when facts are put into it, and a     *)
(* fact said to be deleted is in no table (LanceDBMemoryBackend, harness).   *)
MemoryIsKept ==
  FactsAreKept /\ RecallIsOwnAndFiltered /\ InjectionKeepsTheRequest /\ DeletedIsGone
=============================================================================

------------------------------- MODULE MCStores -------------------------------
(* Model values and bounds for what the gateway keeps: the messages of a     *)
(* conversation, their reasoning, captured conversations, the task tree,     *)
(* log tables, the cron spool, the sources file, access keys, secrets,       *)
(* alerts and memories.  The parts share no state, so each                   *)
(* behaviour runs one of them while the others rest.                         *)
EXTENDS MessageHistory, Conversations, OperatorViews, CronSpool,
        SourcesFile, AccessKeys, Credentials, Alerts, MemoryBank, TLC

CONSTANTS
  i1, i2, i3, u1, u2, MaxMessages, WithoutId,
  root1, root2, task1, task2, view1, view2, keep1, keep2

(* Trees, tasks and viewers are alike, and the run checks invariants only.   *)
StoresSymmetry ==
  Permutations(Roots) \cup Permutations(Tasks) \cup Permutations(Viewers)

VARIABLE part

storesVars ==
  <<part, historyVars, storeVars, convVars, taskVars, logVars, cronVars, fileVars,
    accessVars, secretVars, alertVars, memoryVars>>

Parts ==
  {"history", "reasoning", "talks", "tasks", "logs", "cron", "file", "keys", "secrets",
   "alerts", "memory"}
Others(own) ==
  /\ own # "history" => UNCHANGED historyVars
  /\ own # "reasoning" => UNCHANGED storeVars
  /\ own # "talks" => UNCHANGED convVars
  /\ own # "tasks" => UNCHANGED taskVars
  /\ own # "logs" => UNCHANGED logVars
  /\ own # "cron" => UNCHANGED cronVars
  /\ own # "file" => UNCHANGED fileVars
  /\ own # "keys" => UNCHANGED accessVars
  /\ own # "secrets" => UNCHANGED secretVars
  /\ own # "alerts" => UNCHANGED alertVars
  /\ own # "memory" => UNCHANGED memoryVars

-----------------------------------------------------------------------------
(* Message histories *)

MCTurnOf == [i \in CallIds |-> IF i = i3 THEN u2 ELSE u1]

Plain(role, text) ==
  [role |-> role, text |-> text, calls |-> <<>>, answers |-> NoId, reasoning |-> NoReasoning]
Calling(calls, text, r) == [Plain("assistant", text) EXCEPT !.calls = calls, !.reasoning = r]
Answering(i) == [Plain("tool", TRUE) EXCEPT !.answers = i]

MCMessages ==
  {[Plain("user", TRUE) EXCEPT !.answers = i1, !.calls = <<i2>>],
   Calling(<<i1>>, TRUE, NoReasoning), Calling(<<i1, i2>>, FALSE, NoReasoning), Calling(<<i2, i1>>, TRUE, u1),
   Calling(<<i3>>, FALSE, NoReasoning), Answering(i1), Answering(i2), Answering(i3)}
  \cup (IF WithoutId THEN {Answering(NoId)} ELSE {})

MCHistories == BoundedSeq(MCMessages, MaxMessages) \ {<<>>}

-----------------------------------------------------------------------------
(* The work layer *)

(* A text beyond MESSAGE_CAP is stored as its head. *)
CappedTexts == [x \in Texts |-> IF x = "long" THEN "head" ELSE x]

Pers == {-1, 0, 1, 2, 3, 9, -99, -50}
PageNumbers == {-1, 0, 1, 2, 4, -99}
JunkValue == -99
AllValue == -50

-----------------------------------------------------------------------------

StoresInit ==
  /\ part \in Parts
  /\ HistoryInit /\ ReasoningInit /\ ConvInit /\ TasksInit /\ FileInit /\ SecretsInit /\ AlertsInit
  /\ LogInit /\ (part # "logs" => rowsNow = 0)
  /\ CronInit /\ (part # "cron" => hostJobs = {} /\ snapshot = {})
  /\ AccessInit /\ (part # "keys" => legacyFile = {})
  /\ MemoryInit /\ (part # "memory" => ~memoryActive)

StoresNext ==
  /\ UNCHANGED part
  /\ \/ part = "history" /\ Others("history") /\ HistoryNext
     \/ part = "reasoning" /\ Others("reasoning") /\ ReasoningNext
     \/ part = "talks" /\ Others("talks") /\ ConvNext
     \/ part = "tasks" /\ Others("tasks") /\ TasksNext
     \/ part = "logs" /\ Others("logs") /\ LogNext
     \/ part = "cron" /\ Others("cron") /\ CronNext
     \/ part = "file" /\ Others("file") /\ FileNext
     \/ part = "keys" /\ Others("keys") /\ AccessNext
     \/ part = "secrets" /\ Others("secrets") /\ SecretsNext
     \/ part = "alerts" /\ Others("alerts") /\ AlertsNext
     \/ part = "memory" /\ Others("memory") /\ MemoryNext

StoresSpec == StoresInit /\ [][StoresNext]_storesVars

-----------------------------------------------------------------------------
(* What each model of the chain is sent, fall-over after fall-over, is the   *)
(* conversation: every call is answered and every answer called for, nothing *)
(* that was said is dropped, a fall-over changes nothing but the reasoning,  *)
(* and the reasoning a turn gets is its own; what a thread captured with the *)
(* store to itself is at hand until it expires or newer turns take its place *)
(* (normalize_messages_for_cache, sanitize_messages,                         *)
(* ensure_thinking_reasoning_content, ReasoningStore).                       *)
MessagesAreKept == HistoryIsKept /\ ReasoningIsKept

(* What an operator is shown is so: tasks that stay where they are, rows no  *)
(* older than the cache allows, all pages and the whole tail of a log, every *)
(* cron op and why it failed, a sources file that is somebody's, and no      *)
(* alert kept silent without a cause (work_tasks, work_cron, work_sources,   *)
(* paginate, AlertManager.fire).                                             *)
OperatorsAreToldTheTruth ==
  /\ TasksTypeOK /\ CronTypeOK /\ FileTypeOK /\ AlertsTypeOK
  /\ SteadyTasksAreShown /\ LiteIsRecent
  /\ PagesMakeTheWholeLog /\ LineFitsTheRows /\ TailIsWhole
  /\ FailuresHaveACause /\ OpsAreShown
  /\ SourcesAreWhole
  /\ QuietPeriodHolds /\ SilenceHasACause

(* A key that was revoked stays out, through rotations, migrations and       *)
(* crashes in them; a secret has one row; a rotated key has the rights of    *)
(* the old one; and a stored credential can be decrypted (key_manager,       *)
(* credential_store, crypto).                                                *)
AccessIsGuarded ==
  /\ AccessTypeOK /\ SecretsTypeOK
  /\ RevokedStaysOut /\ OneRowPerSecret /\ RotationKeepsRights
  /\ CredentialsReadBack
=============================================================================

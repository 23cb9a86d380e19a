------------------------------- MODULE Intent -------------------------------
(* What a request is about: the walk over the conversation that finds the    *)
(* newest genuine instruction (message_norm.py) and the ladder that turns it *)
(* into a task (classify_task_detail in router.py), with the embedding       *)
(* classifier of task_classifier.py behind it.                               *)
(* A message is its role, the kind of text the structural tests see in it,   *)
(* and the task its words would be classified as.  The kinds of a user's     *)
(* message: an instruction; a wrapper with and without an instruction after  *)
(* it; a harness preamble with and without one; a continuation and thanks    *)
(* (a continuation with a casual word in it); an echo of tool output and a   *)
(* result with an explicit marker; and a blank.                              *)
EXTENDS Naturals, Sequences, FiniteSets, FiniteSetsExt

CONSTANTS
  IntentTasks,  \* the tasks an instruction may be about
  Agentic, Research, Casual, CodeGeneration,
  Nothing,      \* what a continuation or a blank says
  IntentLists,  \* the intents a profile may declare, in order; <<>> is none
  IntentMessages, \* the messages a conversation is made of
  MaxConversation \* bound: messages of a conversation

AllTasks == IntentTasks \cup {Agentic, Research, Casual, CodeGeneration}

ASSUME IntentConstants ==
  /\ MaxConversation \in Nat \ {0}
  /\ Nothing \notin AllTasks
  /\ \A l \in IntentLists : l \in Seq(AllTasks)

VARIABLES
  conversation, \* the messages the client sends, the whole history each time
  intents,      \* what the profile declares
  centroids,    \* the tasks the classifier has a centroid for; {} without an embedder
  verdict       \* the classification of the last request

intentVars == <<conversation, intents, centroids, verdict>>

IsUser(m) == m.role = "user"

\* A delimited block the client injected, and one with an instruction left
\* when the blocks are stripped.
IsClientContext(m) == m.kind \in {"wrapped", "wrapper"}
HasContextTail(m) == m.kind = "wrapped"

\* A long generic text, and one with an instruction after the blank line.
IsPreambleLike(m) == m.kind \in {"preamble", "preambleTask"}
HasPreambleTail(m) == m.kind = "preambleTask"

\* An acknowledgement; an empty text counts as one.
IsContinuation(m) == m.kind \in {"continuation", "thanks", "blank"}

HasToolCalls(m) == m.role = "assistant" /\ m.kind = "calls"
HasResultMarker(m) == m.kind = "result"
LooksLikeOutput(m) == m.kind = "echo"

\* A user's message that is really a tool's output: by its marker, by its
\* place right after the assistant's call, or by its shape.
IsToolResult(c, i) ==
  \/ HasResultMarker(c[i])
  \/ i > 1 /\ HasToolCalls(c[i - 1])
  \/ LooksLikeOutput(c[i])

\* Mutant: a wrapper is taken for an instruction
IsInstructionOrWrapper(c, i) ==
  /\ IsUser(c[i])
  /\ ~IsToolResult(c, i)
  /\ IsPreambleLike(c[i]) => HasPreambleTail(c[i])
  /\ ~IsContinuation(c[i])

\* A message at which the backward walk ends.
IsInstruction(c, i) ==
  /\ IsUser(c[i])
  /\ ~IsToolResult(c, i)
  /\ IsClientContext(c[i]) => HasContextTail(c[i])
  /\ IsPreambleLike(c[i]) => HasPreambleTail(c[i])
  /\ ~IsContinuation(c[i])

IsBarePreamble(c, i) ==
  IsUser(c[i]) /\ ~IsToolResult(c, i) /\ IsPreambleLike(c[i]) /\ ~HasPreambleTail(c[i])

\* What the walk remembers for the case that nothing genuine survives.
IsFirstUserText(c, i) ==
  IsUser(c[i]) /\ ~IsClientContext(c[i]) /\ ~IsPreambleLike(c[i]) /\ c[i].kind # "blank"

Newest(S) == IF S = {} THEN 0 ELSE Max(S)
Oldest(S) == IF S = {} THEN 0 ELSE Min(S)

\* Mutant: the oldest instruction is the intent
ExtractOldest(c) ==
  LET found == Oldest({i \in DOMAIN c : IsInstruction(c, i)})
  IN [source |-> IF found > 0 THEN "last_instruction" ELSE "first_user_fallback",
      at |-> found,
      preamble |-> FALSE]

\* _extract_intent_text: where the intent is, and whether the walk passed a
\* bare preamble before it got there.
Extract(c) ==
  LET found == Newest({i \in DOMAIN c : IsInstruction(c, i)})
      preambles == {i \in DOMAIN c : IsBarePreamble(c, i) /\ i > found}
      fallback == Oldest({i \in DOMAIN c : IsFirstUserText(c, i)})
  IN [source |-> CASE found > 0 -> "last_instruction"
                   [] found = 0 /\ preambles # {} -> "preamble"
                   [] OTHER -> "first_user_fallback",
      at |-> CASE found > 0 -> found
               [] found = 0 /\ preambles # {} -> Oldest(preambles)
               [] OTHER -> fallback,
      preamble |-> preambles # {}]

\* The messages all user text is gathered from: a wrapper gives the instruction
\* after it, everything else its text, a tool's result and a preamble too.
UserText(c) == {i \in DOMAIN c : IsUser(c[i]) /\ c[i].kind \notin {"wrapper", "blank"}}

\* The text that takes the place of an instruction when there is none: what
\* the one instruction after a wrapper says, or, for a preamble or several
\* texts run together, whatever the classifier makes of them.
AllUserText(c) ==
  IF UserText(c) = {} THEN {Nothing}
  ELSE IF \E i \in UserText(c) : UserText(c) = {i} /\ HasContextTail(c[i])
       THEN {c[i].says : i \in UserText(c)}
       ELSE IntentTasks \cup {Nothing}

\* What the words the classifier is shown may be about.
Heard(c) == LET at == Extract(c).at IN IF at = 0 THEN AllUserText(c) ELSE {c[at].says}

\* The words of the whole conversation, without wrappers and the system prompt.
SoundsCasual(c) == \E i \in DOMAIN c : c[i].role # "system" /\ c[i].kind = "thanks"

HasAgentPrompt(c) == c # <<>> /\ c[1].role = "system" /\ c[1].kind = "agent"

\* Mutant: the best guess of the embedder is taken however unsure it is
ClassifyUngated(c, cents, heard, manyTools, long) ==
  [task |-> IF cents # {} THEN heard ELSE CodeGeneration, path |-> "semantic", counted |-> FALSE]

\* The first rung that applies decides.  The embedder is sure of a text when
\* it has a centroid for what the text says; the tokens are only counted, and
\* only reported, on the rung that uses them.
Classify(c, cents, heard, manyTools, long) ==
  LET d(task, path) == [task |-> task, path |-> path, counted |-> path = "token_count"]
  IN CASE Extract(c).preamble -> d(Agentic, "preamble")
       [] ~Extract(c).preamble /\ heard \in cents -> d(heard, "semantic")
       [] OTHER ->
            IF HasAgentPrompt(c) THEN d(Agentic, "agentic_prompt")
            ELSE IF manyTools THEN d(Agentic, "tool_count")
            ELSE IF long THEN d(Research, "token_count")
            ELSE IF SoundsCasual(c) THEN d(Casual, "casual")
            ELSE d(CodeGeneration, "default")

Declared == {intents[i] : i \in DOMAIN intents}

\* The tasks the embedder ranked for this text, if it was shown one.
Scored(c, cents) ==
  IF Extract(c).preamble \/ (Extract(c).at = 0 /\ UserText(c) = {}) THEN {} ELSE cents

\* Mutant: without a score for a declared task the verdict stands
NarrowedIfScored(d, scored) ==
  IF intents = <<>> \/ d.task \in Declared \/ scored \cap Declared = {} THEN {d}
  ELSE {[d EXCEPT !.task = t, !.path = "intent_narrowed"] : t \in scored \cap Declared}

\* _narrow_to_intents: a task outside the declaration gives way to the best
\* ranked declared one, or to the first declared.
Narrowed(d, scored) ==
  IF intents = <<>> \/ d.task \in Declared THEN {d}
  ELSE IF scored \cap Declared # {}
       THEN {[d EXCEPT !.task = t, !.path = "intent_narrowed"] : t \in scored \cap Declared}
       ELSE {[d EXCEPT !.task = intents[1], !.path = "intent_declared"]}

Unclassified == [task |-> CodeGeneration, path |-> "none", counted |-> FALSE]

IntentInit ==
  /\ conversation = <<>>
  /\ intents \in IntentLists
  /\ centroids = {}
  /\ verdict = Unclassified

\* get_semantic_classifier and _build_centroids: the first request that finds
\* a working embedder builds the centroids; a task whose exemplars could not
\* be embedded has none from then on.
BuildCentroids ==
  /\ centroids = {}
  /\ \E built \in SUBSET IntentTasks \ {{}} : centroids' = built
  /\ UNCHANGED <<conversation, intents, verdict>>

\* The router module is installed or removed: the classifier is dropped.
InvalidateClassifier ==
  /\ centroids # {}
  /\ centroids' = {}
  /\ UNCHANGED <<conversation, intents, verdict>>

\* The client sends the conversation again with one message more.
Ask ==
  /\ Len(conversation) < MaxConversation
  /\ \E m \in IntentMessages, manyTools \in BOOLEAN, long \in BOOLEAN :
       /\ m.role = "system" => conversation = <<>>
       /\ conversation' = Append(conversation, m)
       /\ \E heard \in Heard(conversation') :
            verdict' \in Narrowed(Classify(conversation', centroids, heard, manyTools, long),
                                 Scored(conversation', centroids))
  /\ UNCHANGED <<intents, centroids>>

IntentNext == BuildCentroids \/ InvalidateClassifier \/ Ask

IntentSpec == IntentInit /\ [][IntentNext]_intentVars

-----------------------------------------------------------------------------

\* Every verdict names a task and the rung it came from.
ITypeOK ==
  /\ conversation \in Seq(IntentMessages)
  /\ centroids \subseteq IntentTasks
  /\ verdict.task \in AllTasks
  /\ intents \in IntentLists
  /\ verdict.counted \in BOOLEAN

LastOf(c) == c[Len(c)]

\* A message that carries no intent: what the assistant and the tools say,
\* results sent in the user's name, wrappers, continuations and blanks.
IsNoise(m) == ~IsUser(m) \/ m.kind \in {"wrapper", "continuation", "thanks", "echo", "result", "blank"}

\* Once the classifier has recognised an instruction, nothing but another
\* instruction (or a preamble) moves the task: a tool's output that sounds
\* like a task, an acknowledgement, an attachment or a longer tool list leave
\* the request where it was (router.py: classify_task_detail, message_norm.py:
\* _extract_intent_text).  A verdict over all user text, for want of a message
\* to classify, is no such recognition: the first acknowledgement or echo of
\* the user's takes its place.
NoiseKeepsTheTask ==
  /\ conversation' # conversation
  /\ Extract(conversation).at # 0
  /\ verdict.path = "semantic" /\ verdict.task \in centroids
  /\ IsNoise(LastOf(conversation'))
  => verdict'.task = verdict.task

\* A new instruction is heard at once, whatever was said before, if the
\* classifier knows its task and the profile is for it, unless it follows a call the assistant made:
\* there it is taken for the call's result.
InstructionIsHeard ==
  LET m == LastOf(conversation')
  IN /\ conversation' # conversation
     /\ IsUser(m) /\ m.kind \in {"instruction", "wrapped", "preambleTask"}
     /\ m.says \in centroids
     /\ intents = <<>> \/ m.says \in Declared
     /\ ~(conversation # <<>> /\ HasToolCalls(LastOf(conversation)))
     => verdict'.task = m.says

\* A profile that declares its intents is never routed for another task,
\* whatever rung of the ladder the request stopped at.
StaysWithinIntents ==
  verdict.path # "none" /\ intents # <<>> => verdict.task \in Declared

\* "When the ONLY candidate is a preamble, it is returned with
\* meta["preamble"] = True" (message_norm.py, _extract_intent_text): a
\* conversation with a genuine instruction is not classified as a preamble.
PreambleOnlyWhenAlone ==
  verdict.path = "preamble"
    => \A i \in DOMAIN conversation : ~IsInstruction(conversation, i)
=============================================================================

---------------------------- MODULE MessageHistory ----------------------------
(***************************************************************************)
(* What try_chain makes of the conversation a client sends before each     *)
(* provider of the chain sees it: normalize_messages_for_cache,            *)
(* sanitize_messages (tool calls paired with their answers) and            *)
(* ensure_thinking_reasoning_content, which fills in what clients strip    *)
(* from the ReasoningStore.  A fall-over prepares the already prepared     *)
(* body again.  A message is its role, whether it has content, the tool    *)
(* calls it makes or answers, and its reasoning_content.                   *)
(***************************************************************************)
EXTENDS Integers, Sequences, FiniteSets, Selection, ReasoningStore

CONSTANTS
  Histories,       \* the conversations clients send
  ThinkingModels, PlainModels,   \* models by supports_thinking
  NoId, NoReasoning, EmptyReasoning

ASSUME HistoryAssumption ==
  /\ NoId \notin CallIds /\ {NoReasoning, EmptyReasoning} \cap Turns = {}
  /\ NoReasoning # EmptyReasoning

VARIABLES
  asked,      \* the conversation as the client sent it
  outgoing,   \* body["messages"] as the provider receives it
  target      \* the model it is sent to

historyVars == <<asked, outgoing, target>>

AllModels == ThinkingModels \cup PlainModels
Reasoning == Turns \cup {NoReasoning, EmptyReasoning}
Message == [role : {"system", "user", "assistant", "tool"}, text : BOOLEAN,
            calls : Seq(CallIds), answers : CallIds \cup {NoId}, reasoning : Reasoning]

\* A message makes the calls of one turn, and has that turn's reasoning or none.
OfOneTurn(msg) ==
  \A k \in DOMAIN msg.calls :
    /\ \A j \in DOMAIN msg.calls : TurnOf[msg.calls[j]] = TurnOf[msg.calls[k]]
    /\ msg.reasoning \in {NoReasoning, EmptyReasoning, TurnOf[msg.calls[k]]}

\* Clients send back turns as the gateway gave them, with or without reasoning.
ASSUME ClientsAssumption ==
  /\ Histories \subseteq Seq(Message)
  /\ \A h \in Histories : \A n \in DOMAIN h : h[n].role = "assistant" => OfOneTurn(h[n])

HistoryInit == asked = <<>> /\ outgoing = <<>> /\ target \in PlainModels

-----------------------------------------------------------------------------
(* Preparing a conversation for a provider.                                *)

IsCall(msg) == msg.role = "assistant" /\ msg.calls # <<>>

\* normalize_messages_for_cache: only the fields a role may carry survive.
NormalizeMessage(msg) ==
  [msg EXCEPT !.calls = IF msg.role = "assistant" THEN @ ELSE <<>>,
              !.answers = IF msg.role = "tool" THEN @ ELSE NoId,
              !.reasoning = IF msg.role = "assistant" THEN @ ELSE NoReasoning]

Normalize(h) == [n \in DOMAIN h |-> NormalizeMessage(h[n])]

Declared(h) == UNION {{h[n].calls[k] : k \in DOMAIN h[n].calls} :
                        n \in {d \in DOMAIN h : IsCall(h[d])}}
Referenced(h) == {h[n].answers : n \in {d \in DOMAIN h : h[d].role = "tool"}} \ {NoId}

Dropped == [role |-> "gone"]

\* Mutant: only the calls nobody answered are removed, not the orphaned answers.
RemovedDangling(h) == Declared(h) \ Referenced(h)

Removed(h) == (Declared(h) \ Referenced(h)) \cup (Referenced(h) \ Declared(h))

\* Mutant: a call message whose calls all go is dropped with its content.
RepairAndDrop(msg, removed) ==
  IF msg.role = "tool" /\ msg.answers \in removed
  THEN [msg EXCEPT !.role = "user", !.answers = NoId]
  ELSE IF ~IsCall(msg) THEN msg
  ELSE LET kept == Selected(msg.calls, {k \in DOMAIN msg.calls : msg.calls[k] \notin removed}) IN
       IF kept # <<>> THEN [msg EXCEPT !.calls = kept] ELSE Dropped

\* An orphaned answer becomes a user message; a call message keeps the calls that
\* are answered, and goes when it has neither such calls nor content.
Repair(msg, removed) ==
  IF msg.role = "tool" /\ msg.answers \in removed
  THEN [msg EXCEPT !.role = "user", !.answers = NoId]
  ELSE IF ~IsCall(msg) THEN msg
  ELSE LET kept == Selected(msg.calls, {k \in DOMAIN msg.calls : msg.calls[k] \notin removed}) IN
       IF kept # <<>> \/ msg.text THEN [msg EXCEPT !.calls = kept] ELSE Dropped

Sanitize(h) ==
  LET repaired == [n \in DOMAIN h |-> Repair(h[n], Removed(h))]
  IN Selected(repaired, {n \in DOMAIN h : repaired[n] # Dropped})

\* The call of the message whose reasoning the lookups came upon first, if any.  What
\* they come upon is up to the captures and lookups of other threads meanwhile.
Found(msg) == {NoId} \cup {msg.calls[k] : k \in DOMAIN msg.calls}

\* rehydrate, then the empty placeholder.
WithReasoning(msg, found) ==
  IF ~IsCall(msg) \/ msg.reasoning # NoReasoning THEN msg
  ELSE [msg EXCEPT !.reasoning = IF found = NoId THEN EmptyReasoning ELSE TurnOf[found]]

EnsureReasoning(h, model, found) ==
  IF model \in ThinkingModels THEN [n \in DOMAIN h |-> WithReasoning(h[n], found[n])] ELSE h

Lookups(h) ==
  {found \in [DOMAIN h -> CallIds \cup {NoId}] : \A n \in DOMAIN h : found[n] \in Found(h[n])}

\* What a provider may be sent.
PreparedRequests(h, model) ==
  LET clean == Sanitize(Normalize(h))
  IN {EnsureReasoning(clean, model, found) : found \in Lookups(clean)}

Forward(h, model) == outgoing' \in PreparedRequests(h, model) /\ target' = model

\* A request with conversation h goes to the first provider of its chain.
SendFirst(h, model) == asked = <<>> /\ asked' = h /\ Forward(h, model)

\* The provider failed; the next one gets the body as the first step left it.
SendNext(model) ==
  /\ asked # <<>> /\ model # target
  /\ Forward(outgoing, model) /\ UNCHANGED asked

\* A provider answers, or the chain is at its end.
RequestOver ==
  /\ asked # <<>> /\ asked' = <<>> /\ outgoing' = <<>>
  /\ UNCHANGED target

HistoryNext ==
  \/ \E h \in Histories, model \in AllModels : SendFirst(h, model)
  \/ \E model \in AllModels : SendNext(model)
  \/ RequestOver

HistorySpec == HistoryInit /\ [][HistoryNext]_historyVars

-----------------------------------------------------------------------------
(* Properties.                                                             *)

\* The type of the conversations.
HTypeOK == target \in AllModels /\ asked \in Seq(Message) /\ outgoing \in Seq(Message)

\* No provider sees a tool call without an answer or an answer without its call,
\* also after a fall-over has prepared the conversation a second time.
CallsArePaired == Declared(outgoing) = Referenced(outgoing)

\* Only calls and answers without a partner go: everything anybody said is still
\* there, in its order, and an answer that lost its call is kept as a user message.
NothingSaidIsLost ==
  LET said(h) == Cardinality({n \in DOMAIN h : h[n].text})
      paired == Declared(Normalize(asked)) \cap Referenced(Normalize(asked))
  IN said(outgoing) = said(asked) /\ paired = Declared(outgoing)

\* A thinking model gets a reasoning_content on every tool-calling turn, and it is
\* the one of that turn or the empty placeholder, never that of another turn.
ReasoningFitsTheTurn ==
  \A n \in DOMAIN outgoing : IsCall(outgoing[n]) =>
    /\ target \in ThinkingModels => outgoing[n].reasoning # NoReasoning
    /\ outgoing[n].reasoning \in {NoReasoning, EmptyReasoning, TurnOf[outgoing[n].calls[1]]}

\* A provider further down the chain gets the conversation the first one would
\* have got, but for reasoning_content: preparing twice changes nothing more.
FallOverSendsTheSame ==
  LET bare(h) == [n \in DOMAIN h |-> [h[n] EXCEPT !.reasoning = NoReasoning]]
  IN asked # <<>> => bare(outgoing) = bare(Sanitize(Normalize(asked)))

\* sanitize_messages says it prevents the provider error 'missing field
\* tool_call_id' (tool msg without id): no tool message without an id goes out.
NoAnswerWithoutId ==
  \A n \in DOMAIN outgoing : outgoing[n].role = "tool" => outgoing[n].answers # NoId

\* What a provider is sent of a conversation.
HistoryIsKept ==
  /\ HTypeOK
  /\ CallsArePaired /\ NothingSaidIsLost /\ FallOverSendsTheSame
  /\ ReasoningFitsTheTurn
=============================================================================

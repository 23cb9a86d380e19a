---------------------------- MODULE RoutingProofs ---------------------------
(***************************************************************************)
(* What is proved of what decides where a request goes and what it costs   *)
(* (MCRouting): the intent walk, the router's choice, the tables it ranks  *)
(* by and their caches, the accounts behind its credit verdict, the price  *)
(* rows and the model catalog, each by itself, and then the properties of  *)
(* the run that puts them side by side.                                    *)
(***************************************************************************)
EXTENDS MCRouting, CostRefresher, SelectionProofs, TLAPS

-----------------------------------------------------------------------------
(* The intent walk: which message of a conversation a request is about, and  *)
(* what one message more does to it.                                         *)

(* The positions the backward walk tells apart.                              *)
Instructions(c) == {i \in DOMAIN c : IsInstruction(c, i)}
BarePreambles(c) == {i \in DOMAIN c : IsBarePreamble(c, i)}
FirstTexts(c) == {i \in DOMAIN c : IsFirstUserText(c, i)}

(* A verdict of the embedder is about what the conversation says now.        *)
VerdictFitsTheWords ==
  verdict.path = "semantic" => ~Extract(conversation).preamble /\ verdict.task \in Heard(conversation)

IntentInvariant == ITypeOK /\ StaysWithinIntents /\ VerdictFitsTheWords

LEMMA NewestIsReached ==
  ASSUME NEW n \in Nat, NEW S, S \subseteq 1..n
  PROVE  /\ S = {} => Newest(S) = 0 /\ Oldest(S) = 0
         /\ S # {} => /\ Newest(S) \in S /\ \A i \in S : i <= Newest(S)
                      /\ Oldest(S) \in S /\ \A i \in S : Oldest(S) <= i
<1>1. CASE S = {}
  BY <1>1 DEF Newest, Oldest
<1>2. CASE S # {}
  <2>1. /\ \E x \in S : \A y \in S : x <= y
        /\ \E x \in S : \A y \in S : y <= x
    BY <1>2, BoundsAreReached
  <2>2. \E x \in S : \A y \in S : x >= y
    BY <2>1
  <2>3. Max(S) \in S /\ \A i \in S : Max(S) >= i
    BY <2>2 DEF Max
  <2>4. Min(S) \in S /\ \A i \in S : Min(S) <= i
    BY <2>1 DEF Min
  <2> QED BY <1>2, <2>3, <2>4 DEF Newest, Oldest
<1> QED BY <1>1, <1>2

(* One message more leaves what is said of the others as it was.             *)
LEMMA OneMessageMore ==
  ASSUME NEW c \in Seq(IntentMessages), NEW m \in IntentMessages
  PROVE  LET e == Append(c, m)
             k == Len(c) + 1
         IN /\ e \in Seq(IntentMessages) /\ Len(e) = k /\ e[k] = m /\ LastOf(e) = m
            /\ \A i \in DOMAIN c : e[i] = c[i]
            /\ Instructions(e) = Instructions(c) \cup {i \in {k} : IsInstruction(e, i)}
            /\ BarePreambles(e) = BarePreambles(c) \cup {i \in {k} : IsBarePreamble(e, i)}
            /\ FirstTexts(e) = FirstTexts(c) \cup {i \in {k} : IsFirstUserText(e, i)}
<1> DEFINE e == Append(c, m)
           k == Len(c) + 1
<1>1. /\ e \in Seq(IntentMessages) /\ Len(e) = k /\ e[k] = m /\ k \in Nat \ {0}
      /\ \A i \in 1..Len(c) : e[i] = c[i]
      /\ DOMAIN c = 1..Len(c) /\ DOMAIN e = 1..k /\ Len(c) \in Nat
  OBVIOUS
<1> HIDE DEF e
<1>2. DOMAIN e = DOMAIN c \cup {k} /\ k \notin DOMAIN c
  BY <1>1
<1>3. \A i \in DOMAIN c : e[i] = c[i] /\ (i > 1 => e[i - 1] = c[i - 1])
  BY <1>1
<1>4. \A i \in DOMAIN c : /\ IsInstruction(e, i) <=> IsInstruction(c, i)
                          /\ IsBarePreamble(e, i) <=> IsBarePreamble(c, i)
                          /\ IsFirstUserText(e, i) <=> IsFirstUserText(c, i)
  BY <1>3 DEF IsInstruction, IsBarePreamble, IsFirstUserText, IsToolResult
<1>5. LastOf(e) = m
  BY <1>1 DEF LastOf
<1>6. /\ Instructions(e) = Instructions(c) \cup {i \in {k} : IsInstruction(e, i)}
      /\ BarePreambles(e) = BarePreambles(c) \cup {i \in {k} : IsBarePreamble(e, i)}
      /\ FirstTexts(e) = FirstTexts(c) \cup {i \in {k} : IsFirstUserText(e, i)}
  BY <1>2, <1>4 DEF Instructions, BarePreambles, FirstTexts
<1> QED BY <1>1, <1>3, <1>5, <1>6 DEF e

(* Where the walk ends (_extract_intent_text).                               *)
LEMMA WhereTheWalkEnds ==
  ASSUME NEW c \in Seq(IntentMessages)
  PROVE  /\ Newest(Instructions(c)) \in 0..Len(c)
         /\ Extract(c).preamble \in BOOLEAN
         /\ ~Extract(c).preamble <=> \A i \in BarePreambles(c) : i <= Newest(Instructions(c))
         /\ ~Extract(c).preamble =>
              Extract(c).at = IF Instructions(c) # {} THEN Newest(Instructions(c)) ELSE Oldest(FirstTexts(c))
         /\ Extract(c).at # 0 => Extract(c).at \in DOMAIN c
<1> DEFINE I == Instructions(c)
           B == BarePreambles(c)
           F == FirstTexts(c)
           found == Newest(I)
           preambles == {i \in B : i > found}
<1>1. Len(c) \in Nat /\ DOMAIN c = 1..Len(c) /\ I \subseteq 1..Len(c) /\ B \subseteq 1..Len(c) /\ F \subseteq 1..Len(c)
  BY DEF Instructions, BarePreambles, FirstTexts
<1>2. /\ I = {} => found = 0
      /\ I # {} => found \in I
      /\ F = {} => Oldest(F) = 0
      /\ F # {} => Oldest(F) \in F
      /\ preambles # {} => Oldest(preambles) \in preambles
  <2>1. preambles \subseteq 1..Len(c)
    BY <1>1
  <2> HIDE DEF I, F, preambles
  <2> QED BY <1>1, <2>1, NewestIsReached
<1>3. preambles = {i \in DOMAIN c : IsBarePreamble(c, i) /\ i > found}
  BY DEF BarePreambles
<1>4. Extract(c).preamble = (preambles # {})
  BY <1>3 DEF Extract, Instructions
<1>5. Extract(c).at = CASE found > 0 -> found
                        [] found = 0 /\ preambles # {} -> Oldest(preambles)
                        [] OTHER -> Oldest(F)
  BY <1>3 DEF Extract, Instructions, FirstTexts
<1> HIDE DEF I, B, F, found, preambles
<1>6. found \in 0..Len(c) /\ (found > 0 <=> I # {})
  <2>1. CASE I = {}
    <3>1. found = 0
      BY <1>2, <2>1
    <3> QED BY <1>1, <2>1, <3>1
  <2>2. CASE I # {}
    <3>1. found \in 1..Len(c)
      BY <1>1, <1>2, <2>2
    <3> QED BY <1>1, <2>2, <3>1
  <2> QED BY <2>1, <2>2
<1>7. preambles = {} <=> \A i \in B : i <= found
  <2>1. B \subseteq Int /\ found \in Int
    BY <1>1, <1>6
  <2>2. \A i : i \in preambles <=> i \in B /\ i > found
    BY DEF preambles
  <2>3. \A i \in B : ~(i > found) <=> i <= found
    BY <2>1
  <2> QED BY <2>2, <2>3
<1>8. Extract(c).at = IF I # {} THEN found ELSE IF preambles # {} THEN Oldest(preambles) ELSE Oldest(F)
  BY <1>5, <1>6
<1>9. preambles \subseteq DOMAIN c
  BY <1>3
<1>10. Extract(c).at # 0 => Extract(c).at \in DOMAIN c
  BY <1>1, <1>2, <1>8, <1>9
<1> QED BY <1>4, <1>6, <1>7, <1>8, <1>10 DEF I, B, F, found

(* Noise is passed over.                                                     *)
LEMMA NoiseIsPassed ==
  ASSUME NEW c \in Seq(IntentMessages), NEW m \in IntentMessages, IsNoise(m),
         ~Extract(c).preamble, Extract(c).at # 0
  PROVE  ~Extract(Append(c, m)).preamble /\ Heard(Append(c, m)) = {c[Extract(c).at].says}
<1> DEFINE e == Append(c, m)
           k == Len(c) + 1
<1>1. /\ e \in Seq(IntentMessages) /\ Len(e) = k /\ e[k] = m
      /\ \A i \in DOMAIN c : e[i] = c[i]
      /\ Instructions(e) = Instructions(c) \cup {i \in {k} : IsInstruction(e, i)}
      /\ BarePreambles(e) = BarePreambles(c) \cup {i \in {k} : IsBarePreamble(e, i)}
      /\ FirstTexts(e) = FirstTexts(c) \cup {i \in {k} : IsFirstUserText(e, i)}
      /\ Len(c) \in Nat /\ DOMAIN c = 1..Len(c)
  BY OneMessageMore
<1> HIDE DEF e
<1>2. ~IsInstruction(e, k)
  BY <1>1 DEF IsNoise, IsInstruction, IsToolResult, HasResultMarker, LooksLikeOutput, IsClientContext, HasContextTail, IsContinuation
<1>3. ~IsBarePreamble(e, k)
  BY <1>1 DEF IsNoise, IsBarePreamble, IsPreambleLike
<1>4. Instructions(e) = Instructions(c) /\ BarePreambles(e) = BarePreambles(c)
  BY <1>1, <1>2, <1>3
<1>5. Extract(c).at # 0 /\ Extract(c).at \in DOMAIN c
  BY WhereTheWalkEnds
<1>6. /\ \A i \in BarePreambles(c) : i <= Newest(Instructions(c))
      /\ Extract(c).at = IF Instructions(c) # {} THEN Newest(Instructions(c)) ELSE Oldest(FirstTexts(c))
  BY WhereTheWalkEnds
<1>7. ~Extract(e).preamble
  BY <1>1, <1>4, <1>6, WhereTheWalkEnds
<1>8. Extract(e).at = IF Instructions(c) # {} THEN Newest(Instructions(c)) ELSE Oldest(FirstTexts(e))
  BY <1>1, <1>4, <1>7, WhereTheWalkEnds
<1>9. Instructions(c) = {} => Oldest(FirstTexts(e)) = Oldest(FirstTexts(c))
  <2> SUFFICES ASSUME Instructions(c) = {} PROVE Oldest(FirstTexts(e)) = Oldest(FirstTexts(c))
    OBVIOUS
  <2>1. FirstTexts(c) \subseteq 1..Len(c) /\ FirstTexts(e) \subseteq 1..k /\ k \in Nat
    BY <1>1 DEF FirstTexts
  <2>2. FirstTexts(c) # {}
    BY <1>5, <1>6, <2>1, <1>1, NewestIsReached
  <2>3. Oldest(FirstTexts(c)) \in FirstTexts(c) /\ \A i \in FirstTexts(c) : Oldest(FirstTexts(c)) <= i
    BY <1>1, <2>1, <2>2, NewestIsReached
  <2>4. FirstTexts(e) # {}
    BY <1>1, <2>2
  <2>5. Oldest(FirstTexts(e)) \in FirstTexts(e) /\ \A i \in FirstTexts(e) : Oldest(FirstTexts(e)) <= i
    BY <2>1, <2>4, NewestIsReached
  <2>6. Oldest(FirstTexts(e)) <= Oldest(FirstTexts(c)) /\ Oldest(FirstTexts(c)) <= Len(c)
    BY <1>1, <2>1, <2>3, <2>5
  <2>7. Oldest(FirstTexts(e)) \in FirstTexts(c)
    <3>1. Oldest(FirstTexts(e)) \in FirstTexts(c) \/ Oldest(FirstTexts(e)) = k
      BY <1>1, <2>5
    <3>2. Oldest(FirstTexts(c)) \in 1..Len(c) /\ Oldest(FirstTexts(e)) \in 1..k
      BY <2>1, <2>3, <2>5
    <3>3. Oldest(FirstTexts(e)) # k
      BY <1>1, <2>6, <3>2
    <3> QED BY <3>1, <3>3
  <2> QED BY <1>1, <2>1, <2>3, <2>6, <2>7
<1>10. Extract(e).at = Extract(c).at
  BY <1>6, <1>8, <1>9
<1>11. Heard(e) = {c[Extract(c).at].says}
  BY <1>1, <1>5, <1>10 DEF Heard
<1> QED BY <1>7, <1>11 DEF e

(* A new instruction is where the walk ends.                                 *)
LEMMA InstructionEndsTheWalk ==
  ASSUME NEW c \in Seq(IntentMessages), NEW m \in IntentMessages,
         IsUser(m), m.kind \in {"instruction", "wrapped", "preambleTask"},
         ~(c # <<>> /\ HasToolCalls(LastOf(c)))
  PROVE  ~Extract(Append(c, m)).preamble /\ Heard(Append(c, m)) = {m.says}
<1> DEFINE e == Append(c, m)
           k == Len(c) + 1
<1>1. /\ e \in Seq(IntentMessages) /\ Len(e) = k /\ e[k] = m
      /\ \A i \in DOMAIN c : e[i] = c[i]
      /\ Instructions(e) = Instructions(c) \cup {i \in {k} : IsInstruction(e, i)}
      /\ BarePreambles(e) = BarePreambles(c) \cup {i \in {k} : IsBarePreamble(e, i)}
      /\ Len(c) \in Nat /\ DOMAIN c = 1..Len(c)
  BY OneMessageMore
<1> HIDE DEF e
<1>2. ~IsToolResult(e, k)
  <2>1. ASSUME k > 1 PROVE ~HasToolCalls(e[k - 1])
    <3>1. k - 1 = Len(c) /\ Len(c) \in DOMAIN c /\ c # <<>>
      BY <1>1, <2>1
    <3> QED BY <1>1, <3>1 DEF LastOf
  <2> QED BY <1>1, <2>1 DEF IsToolResult, HasResultMarker, LooksLikeOutput
<1>3. IsInstruction(e, k)
  BY <1>1, <1>2 DEF IsInstruction, IsClientContext, HasContextTail, IsPreambleLike, HasPreambleTail, IsContinuation
<1>4. k \in Instructions(e) /\ Instructions(e) \subseteq 1..k /\ BarePreambles(e) \subseteq 1..k /\ k \in Nat
  BY <1>1, <1>3 DEF Instructions, BarePreambles
<1>5. Newest(Instructions(e)) = k
  <2>1. Newest(Instructions(e)) \in Instructions(e) /\ k <= Newest(Instructions(e))
    BY <1>4, NewestIsReached
  <2> QED BY <1>4, <2>1
<1>6. \A i \in BarePreambles(e) : i <= Newest(Instructions(e))
  BY <1>4, <1>5
<1>7. ~Extract(e).preamble /\ Extract(e).at = k
  BY <1>1, <1>4, <1>5, <1>6, WhereTheWalkEnds
<1>8. Heard(e) = {m.says}
  BY <1>1, <1>4, <1>7 DEF Heard
<1> QED BY <1>7, <1>8 DEF e

(* The ladder: what a verdict may be before it is narrowed.                  *)
Rungs == {"preamble", "semantic", "agentic_prompt", "tool_count", "token_count", "casual", "default"}
Verdicts == [task : AllTasks, path : Rungs, counted : BOOLEAN]

LEMMA VerdictsAreTasks ==
  ASSUME NEW c \in Seq(IntentMessages), NEW cents, cents \subseteq IntentTasks,
         NEW heard, NEW manyTools, NEW long,
         NEW D, D = Classify(c, cents, heard, manyTools, long)
  PROVE  /\ D \in Verdicts
         /\ ~Extract(c).preamble /\ heard \in cents => D.path = "semantic"
         /\ D.path = "semantic" => ~Extract(c).preamble /\ D.task = heard
<1> DEFINE d(task, path) == [task |-> task, path |-> path, counted |-> path = "token_count"]
<1>1. \A t, p : d(t, p).task = t /\ d(t, p).path = p
  OBVIOUS
<1>2. \A t \in AllTasks : \A p \in Rungs : d(t, p) \in Verdicts
  BY DEF Verdicts
<1>3. Extract(c).preamble \in BOOLEAN
  BY WhereTheWalkEnds
<1>4. \/ Extract(c).preamble /\ D = d(Agentic, "preamble")
      \/ ~Extract(c).preamble /\ heard \in cents /\ D = d(heard, "semantic")
      \/ ~Extract(c).preamble /\ heard \notin cents
         /\ \E t \in {Agentic, Research, Casual, CodeGeneration} :
            \E p \in Rungs \ {"semantic"} : D = d(t, p)
  <2>1. CASE Extract(c).preamble
    BY <2>1 DEF Classify
  <2>2. CASE ~Extract(c).preamble /\ heard \in cents
    BY <2>2 DEF Classify
  <2>3. CASE ~Extract(c).preamble /\ heard \notin cents
    <3>1. D = IF HasAgentPrompt(c) THEN d(Agentic, "agentic_prompt")
              ELSE IF manyTools THEN d(Agentic, "tool_count")
              ELSE IF long THEN d(Research, "token_count")
              ELSE IF SoundsCasual(c) THEN d(Casual, "casual")
              ELSE d(CodeGeneration, "default")
      BY <2>3 DEF Classify
    <3> HIDE DEF d
    <3>2. {"agentic_prompt", "tool_count", "token_count", "casual", "default"} \subseteq Rungs \ {"semantic"}
      BY DEF Rungs
    <3> QED BY <2>3, <3>1, <3>2
  <2> QED BY <1>3, <2>1, <2>2, <2>3
<1> HIDE DEF d
<1>5. D \in Verdicts
  <2>1. "preamble" \in Rungs /\ "semantic" \in Rungs /\ cents \subseteq AllTasks
        /\ {Agentic, Research, Casual, CodeGeneration} \subseteq AllTasks
    BY DEF Rungs, AllTasks
  <2> QED BY <1>2, <1>4, <2>1
<1>8. ~Extract(c).preamble /\ heard \in cents => D.path = "semantic"
  BY <1>1, <1>4
<1>9. D.path = "semantic" => ~Extract(c).preamble /\ D.task = heard
  BY <1>1, <1>4
<1> QED BY <1>5, <1>8, <1>9

LEMMA NarrowingIsSound ==
  ASSUME intents \in IntentLists, NEW d \in Verdicts,
         NEW scored, scored \subseteq AllTasks, NEW v \in Narrowed(d, scored)
  PROVE  /\ v.task \in AllTasks /\ v.counted \in BOOLEAN
         /\ intents # <<>> => v.task \in Declared
         /\ intents = <<>> \/ d.task \in Declared => v = d
         /\ v.path = "semantic" => v = d
<1>1. intents \in Seq(AllTasks)
  BY IntentConstants
<1>2. CASE intents = <<>> \/ d.task \in Declared
  <2>1. v = d
    BY <1>2 DEF Narrowed
  <2>2. d.task \in AllTasks /\ d.counted \in BOOLEAN
    BY DEF Verdicts
  <2> QED BY <1>2, <2>1, <2>2
<1>3. ASSUME ~(intents = <<>> \/ d.task \in Declared)
      PROVE  \E t \in AllTasks \cap Declared : \E p \in {"intent_narrowed", "intent_declared"} :
               v.task = t /\ v.path = p /\ v.counted = d.counted
  <2>1. \A t, p : LET r == [d EXCEPT !.task = t, !.path = p] IN r.task = t /\ r.path = p /\ r.counted = d.counted
    BY DEF Verdicts
  <2>2. intents[1] \in AllTasks \cap Declared
    BY <1>1, <1>3 DEF Declared
  <2>3. CASE scored \cap Declared # {}
    <3>1. v \in {[d EXCEPT !.task = t, !.path = "intent_narrowed"] : t \in scored \cap Declared}
      BY <1>3, <2>3 DEF Narrowed
    <3>2. PICK t \in scored \cap Declared : v = [d EXCEPT !.task = t, !.path = "intent_narrowed"]
      BY <3>1
    <3>3. t \in AllTasks \cap Declared /\ v.task = t /\ v.path = "intent_narrowed" /\ v.counted = d.counted
      BY <2>1, <3>2
    <3> QED BY <3>3
  <2>4. CASE scored \cap Declared = {}
    <3>1. v = [d EXCEPT !.task = intents[1], !.path = "intent_declared"]
      BY <1>3, <2>4 DEF Narrowed
    <3> QED BY <2>1, <2>2, <3>1
  <2> QED BY <2>3, <2>4
<1>4. CASE ~(intents = <<>> \/ d.task \in Declared)
  <2>1. d.counted \in BOOLEAN
    BY DEF Verdicts
  <2>2. PICK t \in AllTasks \cap Declared, p \in {"intent_narrowed", "intent_declared"} :
          v.task = t /\ v.path = p /\ v.counted = d.counted
    BY <1>3, <1>4
  <2> QED BY <1>4, <2>1, <2>2
<1> QED BY <1>2, <1>4

LEMMA IntentStarts == IntentInit => IntentInvariant
<1> SUFFICES ASSUME IntentInit PROVE IntentInvariant
  OBVIOUS
<1>1. Unclassified.path = "none" /\ Unclassified.task = CodeGeneration /\ Unclassified.counted = FALSE
  BY DEF Unclassified
<1>2. <<>> \in Seq(IntentMessages)
  OBVIOUS
<1> QED BY <1>1, <1>2 DEF IntentInit, IntentInvariant, ITypeOK, StaysWithinIntents, VerdictFitsTheWords, AllTasks

LEMMA IntentStays ==
  ASSUME IntentInvariant, [IntentNext]_intentVars
  PROVE  IntentInvariant' /\ NoiseKeepsTheTask /\ InstructionIsHeard
<1>1. ITypeOK /\ StaysWithinIntents /\ VerdictFitsTheWords
  BY DEF IntentInvariant
<1>2. CASE UNCHANGED <<conversation, intents, verdict>> /\ (centroids' = {} \/ centroids' \in SUBSET IntentTasks)
  <2>1. IntentInvariant'
    BY <1>1, <1>2 DEF IntentInvariant, ITypeOK, StaysWithinIntents, VerdictFitsTheWords, Declared
  <2> QED BY <1>2, <2>1 DEF NoiseKeepsTheTask, InstructionIsHeard
<1>3. CASE Ask
  <2>1. PICK m \in IntentMessages, manyTools \in BOOLEAN, long \in BOOLEAN, heard \in Heard(conversation') :
          /\ conversation' = Append(conversation, m)
          /\ verdict' \in Narrowed(Classify(conversation', centroids, heard, manyTools, long),
                                   Scored(conversation', centroids))
    BY <1>3 DEF Ask
  <2>2. UNCHANGED <<intents, centroids>> /\ conversation \in Seq(IntentMessages) /\ centroids \subseteq IntentTasks /\ intents \in IntentLists
    BY <1>1, <1>3 DEF Ask, ITypeOK
  <2> DEFINE e == Append(conversation, m)
  <2>3. e \in Seq(IntentMessages) /\ LastOf(e) = m /\ conversation' = e
    BY <2>1, <2>2, OneMessageMore
  <2> HIDE DEF e
  <2>11. PICK d : d = Classify(e, centroids, heard, manyTools, long)
    OBVIOUS
  <2>4. /\ d \in Verdicts
        /\ ~Extract(e).preamble /\ heard \in centroids => d.path = "semantic"
        /\ d.path = "semantic" => ~Extract(e).preamble /\ d.task = heard
    <3>1. e \in Seq(IntentMessages) /\ centroids \subseteq IntentTasks
      BY <2>2, <2>3
    <3>2. d \in Verdicts
      BY <3>1, <2>11, VerdictsAreTasks
    <3>3. ~Extract(e).preamble /\ heard \in centroids => d.path = "semantic"
      BY <3>1, <2>11, VerdictsAreTasks
    <3>4. d.path = "semantic" => ~Extract(e).preamble /\ d.task = heard
      BY <3>1, <2>11, VerdictsAreTasks
    <3> QED BY <3>2, <3>3, <3>4
  <2>5. Scored(e, centroids) \subseteq AllTasks
    BY <2>2 DEF Scored, AllTasks
  <2>6. verdict' \in Narrowed(d, Scored(e, centroids))
    BY <2>1, <2>3, <2>11
  <2>7. /\ verdict'.task \in AllTasks /\ verdict'.counted \in BOOLEAN
        /\ intents # <<>> => verdict'.task \in Declared
        /\ intents = <<>> \/ d.task \in Declared => verdict' = d
        /\ verdict'.path = "semantic" => verdict' = d
    BY <2>2, <2>4, <2>5, <2>6, NarrowingIsSound
  <2>8. Declared' = Declared
    BY <2>2 DEF Declared
  <2>9. IntentInvariant'
    <3>1. ITypeOK'
      BY <2>2, <2>3, <2>7 DEF ITypeOK
    <3>2. StaysWithinIntents'
      BY <2>2, <2>7, <2>8 DEF StaysWithinIntents
    <3>3. VerdictFitsTheWords'
      BY <2>1, <2>3, <2>4, <2>7 DEF VerdictFitsTheWords
    <3> QED BY <3>1, <3>2, <3>3 DEF IntentInvariant
  <2>10. NoiseKeepsTheTask
    <3> SUFFICES ASSUME Extract(conversation).at # 0, verdict.path = "semantic", verdict.task \in centroids, IsNoise(m)
                 PROVE  verdict'.task = verdict.task
      BY <2>3 DEF NoiseKeepsTheTask
    <3> DEFINE said == conversation[Extract(conversation).at].says
    <3>1. ~Extract(conversation).preamble /\ verdict.task = said
      BY <1>1 DEF VerdictFitsTheWords, Heard
    <3>2. ~Extract(e).preamble /\ Heard(e) = {said}
      BY <2>2, <3>1, NoiseIsPassed DEF e
    <3>3. heard = verdict.task
      BY <2>1, <2>3, <3>1, <3>2
    <3>4. d.task = verdict.task
      BY <2>4, <3>2, <3>3
    <3>5. intents = <<>> \/ d.task \in Declared
      BY <1>1, <3>4 DEF StaysWithinIntents
    <3> QED BY <2>7, <3>4, <3>5
  <2>12. InstructionIsHeard
    <3> SUFFICES ASSUME IsUser(m), m.kind \in {"instruction", "wrapped", "preambleTask"}, m.says \in centroids,
                        intents = <<>> \/ m.says \in Declared,
                        ~(conversation # <<>> /\ HasToolCalls(LastOf(conversation)))
                 PROVE  verdict'.task = m.says
      BY <2>3 DEF InstructionIsHeard
    <3>1. ~Extract(e).preamble /\ Heard(e) = {m.says}
      BY <2>2, InstructionEndsTheWalk DEF e
    <3>2. heard = m.says
      BY <2>1, <2>3, <3>1
    <3>3. d.task = m.says
      BY <2>4, <3>1, <3>2
    <3> QED BY <2>7, <3>3
  <2> QED BY <2>9, <2>10, <2>12
<1>4. CASE BuildCentroids \/ InvalidateClassifier \/ UNCHANGED intentVars
  BY <1>1, <1>2, <1>4 DEF BuildCentroids, InvalidateClassifier, intentVars, ITypeOK
<1> QED BY <1>3, <1>4 DEF IntentNext

-----------------------------------------------------------------------------
(* The router: every request that is decided is decided soundly for the      *)
(* settings and standings of that moment.                                    *)

(* The settings and standings the router reads are well-formed.              *)
SettingsAreRouting ==
  /\ standing \in [RProviders -> Standings]
  /\ profileRules \in RuleLists \cup {Unset} /\ globalRules \in RuleLists \cup {Unset}
  /\ policySetting \in Policies /\ floor \in Floors

RequestIsSound ==
  /\ routed # IdleRequest => routed.out.chain # <<>>
  /\ ReorderingKeepsTheSteps /\ HeadIsTheBestServer /\ NoFlapping /\ LogTellsTheHead

RoutingInvariant == SettingsAreRouting /\ RequestIsSound

(* The rules in force are rules, and so are those that match.                *)
LEMMA RulesMatch ==
  ASSUME SettingsAreRouting, NEW action, NEW task
  PROVE  Matching(action, task) \in Seq(RRules)
<1>1. EffectiveRules \in Seq(RRules)
  BY RoutingConstants DEF EffectiveRules, SettingsAreRouting
<1> QED BY <1>1, SelectedType DEF Matching

(* The rule that fires may (_resolve_prefer).                                *)
LEMMA PreferredMayFire ==
  ASSUME SettingsAreRouting, NEW c, NEW task
  PROVE  LET rule == Prefer(c, task) IN rule = Unset \/ (rule \in RRules /\ MayFire(rule, c, task))
<1> DEFINE rules == Matching("prefer", task)
           firing == {i \in DOMAIN rules : MayFire(rules[i], c, task)}
<1>1. rules \in Seq(RRules) /\ Len(rules) \in Nat /\ firing \subseteq 1..Len(rules)
  BY RulesMatch
<1>2. firing # {} => Min(firing) \in firing
  <2> HIDE DEF firing
  <2> QED BY <1>1, BoundsAreReached DEF Min
<1>3. Prefer(c, task) = IF firing = {} THEN Unset ELSE rules[Min(firing)]
  BY DEF Prefer
<1> HIDE DEF rules
<1>4. firing # {} => rules[Min(firing)] \in RRules /\ MayFire(rules[Min(firing)], c, task)
  BY <1>1, <1>2
<1> QED BY <1>3, <1>4

(* The candidates are the steps the gate and the rules let through.          *)
LEMMA CandidatesAreOpen ==
  ASSUME NEW task
  PROVE  LET P == {i \in Live : ~Blocked(task, StaticChain[i])}
             c == Candidates(task)
         IN /\ c \in Seq(RSteps)
            /\ Range(c) = {StaticChain[i] : i \in P}
            /\ c = <<>> <=> P = {}
            /\ P # {} => \E i \in P : c[1] = StaticChain[i] /\ \A j \in P : i <= j
<1> DEFINE P == {i \in Live : ~Blocked(task, StaticChain[i])}
           c == Candidates(task)
<1>1. StaticChain \in Seq(RSteps) /\ P \subseteq DOMAIN StaticChain
  BY RoutingConstants DEF Live
<1>2. c = Selected(StaticChain, P)
  BY DEF Candidates
<1> HIDE DEF P, c
<1>3. c \in Seq(RSteps)
  BY <1>1, <1>2, SelectedType
<1>4. /\ \A n \in DOMAIN c : \E i \in P : c[n] = StaticChain[i]
      /\ \A i \in P : \E n \in DOMAIN c : c[n] = StaticChain[i]
  BY <1>1, <1>2, SelectedElements
<1>5. Range(c) = {StaticChain[i] : i \in P}
  BY <1>4 DEF Range
<1>6. c = <<>> <=> P = {}
  <2>1. c = <<>> => DOMAIN c = {}
    OBVIOUS
  <2>2. c # <<>> => 1 \in DOMAIN c
    BY <1>3
  <2> QED BY <1>4, <2>1, <2>2
<1>7. P # {} => \E i \in P : c[1] = StaticChain[i] /\ \A j \in P : i <= j
  BY <1>1, <1>2, FirstSelected
<1> QED BY <1>3, <1>5, <1>6, <1>7 DEF P, c

(* A model that is chosen is one of the chain's, and without explore another *)
(* than the head's only beyond the margin (_choose_target_model).            *)
LEMMA TargetsBeatTheDefault ==
  ASSUME SettingsAreRouting, NEW c \in Seq(RSteps), c # <<>>, NEW task \in RTasks, NEW policy, NEW size,
         NEW m \in ChooseTarget(c, task, policy, size)
  PROVE  /\ m \in Models(c)
         /\ policy # "explore" /\ m # c[1].model
              => ScoreModel(m, task, policy) > ScoreModel(c[1].model, task, policy) + Hysteresis
<1> DEFINE fitting == {n \in Models(c) : FitsContext(n, size)}
           score(n) == ScoreModel(n, task, policy)
           best == {n \in fitting : \A k \in fitting : score(k) <= score(n)}
           top == score(CHOOSE n \in best : TRUE)
           pool == {n \in fitting : score(n) + Hysteresis >= top}
           default == c[1].model
<1>1. default \in Models(c) /\ \A n \in Models(c) : n \in RModels
  <2>1. 1 \in DOMAIN c /\ \A i \in DOMAIN c : c[i] \in RSteps
    OBVIOUS
  <2>2. \A r \in RSteps : r.model \in RModels
    BY DEF RSteps
  <2> QED BY <2>1, <2>2 DEF Models
<1>2. \A n \in RModels : ScoreModel(n, task, policy) \in Int
  <2>1. \A x \in Int : (15 * x) \div 100 \in Int /\ (30 * x) \div 100 \in Int
    OBVIOUS
  <2>2. \A n \in RModels : Capability[task][n] \in Int /\ Cheapness[n] \in Int
    <3>1. Capability[task] \in [RModels -> Nat] /\ Cheapness \in [RModels -> 0 .. 100]
      BY RoutingConstants
    <3>2. \A n \in RModels : Cheapness[n] \in 0 .. 100
      BY <3>1
    <3>3. \A n \in RModels : Capability[task][n] \in Nat
      BY <3>1
    <3>4. ASSUME NEW n \in RModels PROVE Cheapness[n] \in Int
      <4>1. Cheapness[n] \in 0 .. 100
        BY <3>2
      <4>2. \A x \in 0 .. 100 : x \in Int
        OBVIOUS
      <4> QED BY <4>1, <4>2
    <3>5. \A n \in RModels : Capability[task][n] \in Int
      BY <3>3
    <3> QED BY <3>4, <3>5
  <2>3. \A x \in Int : (BiasOf(policy) * x) \div 100 \in Int
    BY <2>1 DEF BiasOf
  <2>4. ASSUME NEW n \in RModels PROVE ScoreModel(n, task, policy) \in Int
    <3> DEFINE a == Capability[task][n]
               b == (BiasOf(policy) * Cheapness[n]) \div 100
    <3>1. a \in Int /\ b \in Int
      BY <2>2, <2>3
    <3>2. ScoreModel(n, task, policy) = a + b + 5
      BY DEF ScoreModel, HealthyBonus
    <3> HIDE DEF a, b
    <3> QED BY <3>1, <3>2
  <2> QED BY <2>4
<1>3. \/ policy = "explore" /\ m \in pool
      \/ m \in {IF n # default /\ top <= score(default) + Hysteresis THEN default ELSE n : n \in best}
  BY DEF ChooseTarget
<1>4. CASE policy = "explore" /\ m \in pool
  BY <1>4
<1>5. CASE m \in {IF n # default /\ top <= score(default) + Hysteresis THEN default ELSE n : n \in best}
  <2>1. PICK n \in best : m = IF n # default /\ top <= score(default) + Hysteresis THEN default ELSE n
    BY <1>5
  <2>2. n \in Models(c) /\ score(n) = top
    <3>1. (CHOOSE k \in best : TRUE) \in best
      BY <2>1
    <3>2. score(CHOOSE k \in best : TRUE) <= score(n) /\ score(n) <= score(CHOOSE k \in best : TRUE)
      BY <2>1, <3>1
    <3>3. (CHOOSE k \in best : TRUE) \in RModels /\ n \in RModels
      BY <1>1, <2>1, <3>1
    <3>4. top \in Int /\ score(n) \in Int
      BY <1>2, <3>3
    <3> QED BY <2>1, <3>2, <3>4
  <2>3. score(n) \in Int /\ score(default) \in Int /\ Hysteresis \in Int
    BY <1>1, <1>2, <2>2 DEF Hysteresis
  <2> HIDE DEF score, top, best, fitting, default
  <2>4. m # default => m = n /\ ~(top <= score(default) + Hysteresis)
    BY <2>1
  <2>5. m # default => score(m) > score(default) + Hysteresis
    BY <2>2, <2>3, <2>4
  <2>6. m \in Models(c)
    BY <1>1, <2>1, <2>2
  <2> QED BY <2>5, <2>6 DEF score, default
<1> QED BY <1>3, <1>4, <1>5

(* The steps for the target: one for every provider that serves it.          *)
LEMMA TargetsServeIt ==
  ASSUME NEW c \in Seq(RSteps), NEW target
  PROVE  LET t == TargetSteps(c, target) IN
         /\ t \in Seq(RSteps)
         /\ \A k \in DOMAIN t : /\ t[k].model = target
                                /\ \E i \in DOMAIN c : c[i].model = target /\ c[i].provider = t[k].provider
         /\ \A i \in DOMAIN c : c[i].model = target => \E k \in DOMAIN t : t[k].provider = c[i].provider
<1> DEFINE first == {i \in DOMAIN c : /\ c[i].model = target
                                      /\ \A j \in 1 .. i - 1 : c[j].model = target => c[j].provider # c[i].provider}
           n == Cardinality(first)
           t == TargetSteps(c, target)
<1>1. Len(c) \in Nat /\ DOMAIN c = 1..Len(c) /\ first \subseteq 1..Len(c)
  OBVIOUS
<1>2. n \in Nat
  BY <1>1, IntervalCardinality, FS_Subset, FS_CardinalityType
<1>3. t = [k \in 1..n |-> [c[Position(first, k)] EXCEPT !.spelled = "registry"]]
  BY DEF TargetSteps
<1>4. \A k \in 1..n : Position(first, k) \in first
  <2> HIDE DEF first
  <2> QED BY <1>1, RanksAreReached
<1>5. \A i \in first : \E k \in 1..n : Position(first, k) = i
  <2> HIDE DEF first
  <2> QED BY <1>1, PositionsInOrder
<1>6. \A i \in first : i \in DOMAIN c /\ c[i].model = target
  OBVIOUS
<1>7. ASSUME NEW i \in DOMAIN c, c[i].model = target
      PROVE  \E j \in first : c[j].provider = c[i].provider
  <2> DEFINE same == {j \in 1..Len(c) : c[j].model = target /\ c[j].provider = c[i].provider}
  <2>1. same \subseteq 1..Len(c) /\ same # {}
    BY <1>1, <1>7
  <2>2. PICK j \in same : \A k \in same : j <= k
    <3> HIDE DEF same
    <3> QED BY <1>1, <2>1, BoundsAreReached
  <2>3. ASSUME NEW k \in 1 .. j - 1, c[k].model = target, c[k].provider = c[j].provider PROVE FALSE
    <3>1. k \in 1..Len(c) /\ k < j
      BY <1>1, <2>2
    <3>2. k \in same
      BY <2>2, <2>3, <3>1
    <3>3. j <= k /\ j \in Int /\ k \in Int
      BY <2>2, <3>2
    <3> QED BY <3>1, <3>3
  <2>4. j \in first
    BY <1>1, <2>2, <2>3
  <2> QED BY <2>2, <2>4
<1> HIDE DEF first, t, n, Position
<1>8. \A r \in RSteps : LET q == [r EXCEPT !.spelled = "registry"] IN
        q \in RSteps /\ q.model = r.model /\ q.provider = r.provider
  BY DEF RSteps
<1>9. \A k \in 1..n : /\ t[k] \in RSteps /\ t[k].model = c[Position(first, k)].model
                      /\ t[k].provider = c[Position(first, k)].provider
  <2>1. \A k \in 1..n : c[Position(first, k)] \in RSteps
    BY <1>4, <1>6
  <2>2. \A k \in 1..n : t[k] = [c[Position(first, k)] EXCEPT !.spelled = "registry"]
    BY <1>3
  <2> QED BY <1>8, <2>1, <2>2
<1>10. t \in Seq(RSteps) /\ DOMAIN t = 1..n
  BY <1>2, <1>3, <1>9
<1>11. \A k \in DOMAIN t : /\ t[k].model = target
                           /\ \E i \in DOMAIN c : c[i].model = target /\ c[i].provider = t[k].provider
  BY <1>4, <1>6, <1>9, <1>10
<1>12. \A i \in DOMAIN c : c[i].model = target => \E k \in DOMAIN t : t[k].provider = c[i].provider
  BY <1>5, <1>7, <1>9, <1>10
<1> QED BY <1>10, <1>11, <1>12 DEF t

(* A band is its steps, the best of them first.                              *)
LEMMA ArrangedSteps ==
  ASSUME NEW s \in Seq(RSteps), NEW preferred
  PROVE  LET a == Arrange(s, preferred) IN
         /\ a \in Seq(RSteps) /\ Len(a) = Len(s)
         /\ \A n \in DOMAIN s : \E i \in DOMAIN s : a[n] = s[i]
         /\ \A i \in DOMAIN s : \E n \in DOMAIN s : a[n] = s[i]
         /\ s # <<>> => \A i \in DOMAIN s : StepRank(a[1], preferred) <= StepRank(s[i], preferred)
<1> DEFINE key == [i \in DOMAIN s |-> StepRank(s[i], preferred)]
<1>1. key \in [DOMAIN s -> Int]
  BY DEF StepRank, HealthRank, CreditRank
<1>2. \A i \in DOMAIN s : key[i] = StepRank(s[i], preferred)
  OBVIOUS
<1>3. Arrange(s, preferred) = Sorted(s, key)
  BY DEF Arrange
<1> HIDE DEF key
<1>4. /\ Sorted(s, key) \in Seq(RSteps) /\ Len(Sorted(s, key)) = Len(s)
      /\ \A n \in DOMAIN s : \E i \in DOMAIN s : Sorted(s, key)[n] = s[i]
      /\ \A i \in DOMAIN s : \E n \in DOMAIN s : Sorted(s, key)[n] = s[i]
      /\ s # <<>> => \E j \in DOMAIN s : Sorted(s, key)[1] = s[j] /\ \A i \in DOMAIN s : key[j] <= key[i]
  BY <1>1, SortedElements
<1>5. s # <<>> => \A i \in DOMAIN s : StepRank(Sorted(s, key)[1], preferred) <= StepRank(s[i], preferred)
  BY <1>2, <1>4
<1> QED BY <1>3, <1>4, <1>5

(* The chain that is built: the target's servers, the best first, and then   *)
(* every other step that has room.                                           *)
LEMMA ChainIsBuilt ==
  ASSUME NEW c \in Seq(RSteps), NEW target \in Models(c), NEW preferred, NEW size
  PROVE  LET b == BuildChain(c, target, preferred, size) IN
         /\ b \in Seq(RSteps) /\ b # <<>>
         /\ b[1].model = target
         /\ \A i \in DOMAIN c : c[i].model = target => StepRank(b[1], preferred) <= StepRank(c[i], preferred)
         /\ \A k \in DOMAIN b : \E i \in DOMAIN c : /\ Plain(b[k]) = Plain(c[i])
                                                    /\ c[i].model = target \/ FitsContext(c[i].model, size)
         /\ \A i \in DOMAIN c : c[i].model = target \/ FitsContext(c[i].model, size)
                                  => \E k \in DOMAIN b : Plain(b[k]) = Plain(c[i])
<1> DEFINE t == TargetSteps(c, target)
           P == {i \in DOMAIN c : c[i] \notin Range(t) /\ FitsContext(c[i].model, size)}
           f == Selected(c, P)
           x == Arrange(t, preferred)
           y == Arrange(f, preferred)
           b == x \o y
<1>1. BuildChain(c, target, preferred, size) = b
  BY DEF BuildChain
<1>2. /\ t \in Seq(RSteps)
      /\ \A k \in DOMAIN t : /\ t[k].model = target
                             /\ \E i \in DOMAIN c : c[i].model = target /\ c[i].provider = t[k].provider
      /\ \A i \in DOMAIN c : c[i].model = target => \E k \in DOMAIN t : t[k].provider = c[i].provider
  BY TargetsServeIt
<1> HIDE DEF t
<1>3. P \subseteq DOMAIN c
  OBVIOUS
<1>4. /\ f \in Seq(RSteps)
      /\ \A n \in DOMAIN f : \E i \in P : f[n] = c[i]
      /\ \A i \in P : \E n \in DOMAIN f : f[n] = c[i]
  <2> HIDE DEF P
  <2> QED BY <1>3, SelectedType, SelectedElements
<1> HIDE DEF f
<1>5. /\ x \in Seq(RSteps) /\ Len(x) = Len(t)
      /\ \A n \in DOMAIN t : \E i \in DOMAIN t : x[n] = t[i]
      /\ \A i \in DOMAIN t : \E n \in DOMAIN t : x[n] = t[i]
      /\ t # <<>> => \A i \in DOMAIN t : StepRank(x[1], preferred) <= StepRank(t[i], preferred)
  BY <1>2, ArrangedSteps
<1>6. /\ y \in Seq(RSteps) /\ Len(y) = Len(f)
      /\ \A n \in DOMAIN f : \E i \in DOMAIN f : y[n] = f[i]
      /\ \A i \in DOMAIN f : \E n \in DOMAIN f : y[n] = f[i]
  BY <1>4, ArrangedSteps
<1> HIDE DEF x, y
<1>7. /\ DOMAIN t = DOMAIN x /\ DOMAIN f = DOMAIN y
      /\ DOMAIN x = 1..Len(x) /\ DOMAIN y = 1..Len(y) /\ Len(x) \in Nat /\ Len(y) \in Nat
  BY <1>2, <1>4, <1>5, <1>6
<1>8. /\ b \in Seq(RSteps) /\ Len(b) = Len(x) + Len(y) /\ DOMAIN b = 1..(Len(x) + Len(y))
      /\ \A i \in 1..Len(x) : b[i] = x[i]
      /\ \A i \in 1..Len(y) : b[Len(x) + i] = y[i]
  <2>1. x \in Seq(RSteps) /\ y \in Seq(RSteps)
    BY <1>5, <1>6
  <2>2. /\ b \in Seq(RSteps) /\ Len(b) = Len(x) + Len(y)
        /\ \A i \in 1..(Len(x) + Len(y)) : b[i] = IF i <= Len(x) THEN x[i] ELSE y[i - Len(x)]
    BY ONLY <2>1, ConcatProperties
  <2>3. DOMAIN b = 1..(Len(x) + Len(y))
    BY <2>2
  <2> HIDE DEF b
  <2>4. \A i \in 1..Len(x) : i \in 1..(Len(x) + Len(y)) /\ i <= Len(x)
    BY <1>7
  <2>5. \A i \in 1..Len(y) : Len(x) + i \in 1..(Len(x) + Len(y)) /\ ~(Len(x) + i <= Len(x)) /\ (Len(x) + i) - Len(x) = i
    BY <1>7
  <2> QED BY <2>2, <2>3, <2>4, <2>5
<1> HIDE DEF b
<1>9. \A n \in DOMAIN b : (\E i \in DOMAIN x : b[n] = x[i]) \/ (\E i \in DOMAIN y : b[n] = y[i])
  <2> SUFFICES ASSUME NEW n \in DOMAIN b, n \notin DOMAIN x PROVE \E i \in DOMAIN y : b[n] = y[i]
    BY <1>7, <1>8
  <2>1. n - Len(x) \in 1..Len(y) /\ n = Len(x) + (n - Len(x))
    BY <1>7, <1>8
  <2>2. b[Len(x) + (n - Len(x))] = y[n - Len(x)]
    BY <1>8, <2>1
  <2> QED BY <1>7, <2>1, <2>2
<1>10. /\ \A i \in DOMAIN x : \E n \in DOMAIN b : b[n] = x[i]
       /\ \A i \in DOMAIN y : \E n \in DOMAIN b : b[n] = y[i]
  <2>1. \A i \in DOMAIN x : i \in DOMAIN b /\ b[i] = x[i]
    BY <1>7, <1>8
  <2>2. \A i \in DOMAIN y : Len(x) + i \in DOMAIN b /\ b[Len(x) + i] = y[i]
    BY <1>7, <1>8
  <2> QED BY <2>1, <2>2
<1>11. PICK q \in DOMAIN c : c[q].model = target
  BY DEF Models
<1>12. t # <<>> /\ 1 \in DOMAIN x /\ b[1] = x[1] /\ b # <<>>
  <2>1. DOMAIN t # {}
    BY <1>2, <1>11
  <2>2. Len(x) # 0
    BY <1>7, <2>1
  <2>3. 1 \in DOMAIN x /\ 1 \in DOMAIN b
    BY <1>7, <1>8, <2>2
  <2> QED BY <1>7, <1>8, <2>1, <2>3
<1>13. b[1].model = target
  <2>1. PICK i \in DOMAIN t : x[1] = t[i]
    BY <1>5, <1>7, <1>12
  <2> QED BY <1>2, <1>12, <2>1
<1>14. \A r, s \in RSteps : r.provider = s.provider => StepRank(r, preferred) = StepRank(s, preferred)
  BY DEF StepRank
<1>15. ASSUME NEW i \in DOMAIN c, c[i].model = target
       PROVE  StepRank(b[1], preferred) <= StepRank(c[i], preferred)
  <2>1. PICK k \in DOMAIN t : t[k].provider = c[i].provider
    BY <1>2, <1>15
  <2>2. t[k] \in RSteps /\ c[i] \in RSteps
    BY <1>2
  <2>3. StepRank(t[k], preferred) = StepRank(c[i], preferred)
    BY <1>14, <2>1, <2>2
  <2> QED BY <1>5, <1>12, <2>3
<1>16. ASSUME NEW k \in DOMAIN b
       PROVE  \E i \in DOMAIN c : Plain(b[k]) = Plain(c[i]) /\ (c[i].model = target \/ FitsContext(c[i].model, size))
  <2>1. CASE \E i \in DOMAIN x : b[k] = x[i]
    <3>1. PICK j \in DOMAIN t : b[k] = t[j]
      BY <1>5, <1>7, <2>1
    <3>2. PICK i \in DOMAIN c : c[i].model = target /\ c[i].provider = t[j].provider
      BY <1>2
    <3> QED BY <1>2, <3>1, <3>2 DEF Plain
  <2>2. CASE \E i \in DOMAIN y : b[k] = y[i]
    <3>1. PICK i \in P : b[k] = c[i]
      BY <1>4, <1>6, <1>7, <2>2
    <3> QED BY <3>1
  <2> QED BY <1>9, <2>1, <2>2
<1>17. ASSUME NEW i \in DOMAIN c, c[i].model = target \/ FitsContext(c[i].model, size)
       PROVE  \E k \in DOMAIN b : Plain(b[k]) = Plain(c[i])
  <2>1. CASE c[i].model = target
    <3>1. PICK j \in DOMAIN t : t[j].provider = c[i].provider
      BY <1>2, <2>1
    <3>2. Plain(t[j]) = Plain(c[i])
      BY <1>2, <2>1, <3>1 DEF Plain
    <3>3. PICK n \in DOMAIN x : x[n] = t[j]
      BY <1>5, <1>7
    <3> QED BY <1>10, <3>2, <3>3
  <2>2. CASE c[i].model # target
    <3>1. c[i] \notin Range(t)
      BY <1>2, <2>2 DEF Range
    <3>2. i \in P
      BY <1>17, <2>2, <3>1
    <3>3. PICK n \in DOMAIN f : f[n] = c[i]
      BY <1>4, <3>2
    <3>4. PICK k \in DOMAIN y : y[k] = f[n]
      BY <1>6, <1>7
    <3> QED BY <1>10, <3>3, <3>4
  <2> QED BY <2>1, <2>2
<1> QED BY <1>1, <1>8, <1>12, <1>13, <1>15, <1>16, <1>17

(* What is read of the settings stays while they do.                         *)
LEMMA ReadingsRest ==
  ASSUME UNCHANGED <<standing, profileRules, globalRules, policySetting, floor>>
  PROVE  /\ SettingsAreRouting => SettingsAreRouting'
         /\ Live' = Live
         /\ \A task, step : Blocked(task, step)' <=> Blocked(task, step)
         /\ \A task : Candidates(task)' = Candidates(task) /\ PolicyFor(task)' = PolicyFor(task)
         /\ \A p : HealthRank(p)' = HealthRank(p) /\ CreditRank(p)' = CreditRank(p)
<1>1. EffectiveRules' = EffectiveRules
  BY DEF EffectiveRules
<1>2. \A action, task : Matching(action, task)' = Matching(action, task)
  BY <1>1 DEF Matching
<1>3. \A task, step : Blocked(task, step)' <=> Blocked(task, step)
  BY <1>2 DEF Blocked
<1>4. Live' = Live
  BY DEF Live
<1>5. \A task : Candidates(task)' = Candidates(task)
  BY <1>3, <1>4 DEF Candidates
<1>6. \A task : PolicyFor(task)' = PolicyFor(task)
  BY <1>2 DEF PolicyFor
<1>7. \A p : HealthRank(p)' = HealthRank(p) /\ CreditRank(p)' = CreditRank(p)
  BY DEF HealthRank, CreditRank
<1>8. SettingsAreRouting => SettingsAreRouting'
  BY DEF SettingsAreRouting
<1> QED BY <1>3, <1>4, <1>5, <1>6, <1>7, <1>8

LEMMA RoutingStarts == RoutingInit => RoutingInvariant
<1> SUFFICES ASSUME RoutingInit PROVE RoutingInvariant
  OBVIOUS
<1>1. SettingsAreRouting
  BY RoutingConstants DEF RoutingInit, SettingsAreRouting, Standings, Policies
<1>2. RequestIsSound
  BY DEF RoutingInit, RequestIsSound, ReorderingKeepsTheSteps, HeadIsTheBestServer, NoFlapping, LogTellsTheHead, Reordered
<1> QED BY <1>1, <1>2 DEF RoutingInvariant

(* The choice: a request that is decided is decided soundly (select_step).   *)
LEMMA SelectIsSound ==
  ASSUME RoutingInvariant, Select
  PROVE  RequestIsSound'
<1>1. PICK task \in RTasks, close \in BOOLEAN, size \in Sizes, counted \in BOOLEAN :
       LET c == Candidates(task)
           tokens == IF counted THEN size ELSE 0
           rule == IF c = <<>> THEN Unset ELSE Prefer(c, task)
           fired == rule # Unset
           mandate == fired /\ rule.model # Star /\ FitsContext(rule.model, tokens)
           dropped == fired /\ rule.model # Star /\ ~FitsContext(rule.model, tokens)
           preferred == IF fired /\ ~dropped THEN rule.provider ELSE Star
           gated == close /\ ~mandate
           choice == IF mandate THEN {rule.model}
                     ELSE IF gated \/ c = <<>> THEN {}
                     ELSE ChooseTarget(c, task, PolicyFor(task), tokens)
       IN \E target \in IF choice = {} THEN {Unset} ELSE choice :
            routed' = [phase |-> "routed", task |-> task, known |-> tokens, rule |-> rule,
                       preferred |-> preferred, target |-> target,
                       out |-> Decide(task, gated, tokens, target, fired, preferred)]
  BY DEF Select
<1> DEFINE c == Candidates(task)
           tokens == IF counted THEN size ELSE 0
           rule == IF c = <<>> THEN Unset ELSE Prefer(c, task)
           fired == rule # Unset
           mandate == fired /\ rule.model # Star /\ FitsContext(rule.model, tokens)
           dropped == fired /\ rule.model # Star /\ ~FitsContext(rule.model, tokens)
           preferred == IF fired /\ ~dropped THEN rule.provider ELSE Star
           gated == close /\ ~mandate
           choice == IF mandate THEN {rule.model}
                     ELSE IF gated \/ c = <<>> THEN {}
                     ELSE ChooseTarget(c, task, PolicyFor(task), tokens)
<1>2. PICK target \in IF choice = {} THEN {Unset} ELSE choice :
            routed' = [phase |-> "routed", task |-> task, known |-> tokens, rule |-> rule,
                       preferred |-> preferred, target |-> target,
                       out |-> Decide(task, gated, tokens, target, fired, preferred)]
  BY <1>1
<1>3. SettingsAreRouting /\ UNCHANGED <<standing, profileRules, globalRules, policySetting, floor>>
  BY DEF RoutingInvariant, Select
<1> DEFINE d == Decide(task, gated, tokens, target, fired, preferred)
           open == {i \in Live : ~Blocked(task, StaticChain[i])}
<1>4. /\ routed' # IdleRequest
      /\ routed'.task = task /\ routed'.known = tokens /\ routed'.rule = rule
      /\ routed'.preferred = preferred /\ routed'.target = target /\ routed'.out = d
  <2> HIDE DEF d, tokens, rule, preferred
  <2>1. routed'.task = task /\ routed'.known = tokens /\ routed'.rule = rule
        /\ routed'.preferred = preferred /\ routed'.target = target /\ routed'.out = d /\ routed'.phase = "routed"
    BY <1>2 DEF d
  <2> QED BY <2>1 DEF IdleRequest
<1>5. /\ c \in Seq(RSteps)
      /\ Range(c) = {StaticChain[i] : i \in open}
      /\ c = <<>> <=> open = {}
      /\ open # {} => \E i \in open : c[1] = StaticChain[i] /\ \A j \in open : i <= j
  BY CandidatesAreOpen
<1>6. choice # {} => c # <<>> /\ target \in Models(c) /\ target \in choice
  <2> SUFFICES ASSUME choice # {} PROVE c # <<>> /\ target \in Models(c)
    BY <1>2
  <2>1. CASE mandate
    <3>1. c # <<>> /\ rule = Prefer(c, task) /\ rule # Unset /\ rule.model # Star /\ target = rule.model
      BY <1>2, <2>1
    <3>2. MayFire(rule, c, task)
      BY <1>3, <3>1, PreferredMayFire
    <3>3. PICK i \in DOMAIN c : Targets(rule, c[i])
      BY <3>2 DEF MayFire, Serves
    <3>4. rule.model = c[i].model
      BY <3>1, <3>3 DEF Targets
    <3> QED BY <3>1, <3>4 DEF Models
  <2>2. CASE ~mandate
    <3>1. c # <<>> /\ choice = ChooseTarget(c, task, PolicyFor(task), tokens)
      BY <2>2
    <3>2. target \in ChooseTarget(c, task, PolicyFor(task), tokens)
      BY <1>2, <3>1
    <3> QED BY <1>3, <1>5, <3>1, <3>2, TargetsBeatTheDefault
  <2> QED BY <2>1, <2>2
<1>7. c # <<>> /\ ~fired /\ PolicyFor(task) # "explore" /\ target # c[1].model /\ choice # {}
        => ScoreModel(target, task, PolicyFor(task)) > ScoreModel(c[1].model, task, PolicyFor(task)) + Hysteresis
  <2> SUFFICES ASSUME c # <<>>, ~fired, PolicyFor(task) # "explore", target # c[1].model, choice # {}
               PROVE  ScoreModel(target, task, PolicyFor(task)) > ScoreModel(c[1].model, task, PolicyFor(task)) + Hysteresis
    OBVIOUS
  <2>1. target \in ChooseTarget(c, task, PolicyFor(task), tokens)
    BY <1>2
  <2> QED BY <1>3, <1>5, <2>1, TargetsBeatTheDefault
<1>8. choice = {} => target = Unset
  BY <1>2
<1> DEFINE built == BuildChain(c, target, preferred, tokens)
<1>9. \/ d.chain = StaticChain /\ d.kept /\ (d.head = Unset \/ (c # <<>> /\ d.head = c[1]))
      \/ c # <<>> /\ choice # {} /\ d.chain = built /\ ~d.kept /\ d.head = built[1]
  <2> HIDE DEF choice, fired, gated, c, tokens, preferred
  <2> DEFINE b == BuildChain(c, target, preferred, tokens)
  <2>1. d = CASE c = <<>> -> Static
              [] c # <<>> /\ target = Unset ->
                   [Static EXCEPT !.action = IF gated THEN "margin_gate" ELSE "below_min_score", !.head = c[1]]
              [] c # <<>> /\ target # Unset /\ b[1] = c[1] /\ ~fired ->
                   [Static EXCEPT !.action = "keep_default", !.head = b[1]]
              [] OTHER ->
                   [chain |-> b, kept |-> FALSE, head |-> b[1],
                    action |-> IF fired THEN "prefer" ELSE IF PolicyFor(task) = "explore" THEN "explore" ELSE "reorder"]
    BY DEF Decide, c
  <2> HIDE DEF d, b
  <2>2. \A x, h : LET r == [Static EXCEPT !.action = x, !.head = h] IN
          r.chain = StaticChain /\ r.kept /\ r.head = h
    BY DEF Static
  <2>3. Static.chain = StaticChain /\ Static.kept /\ Static.head = Unset
    BY DEF Static
  <2>4. CASE c = <<>>
    BY <2>1, <2>3, <2>4
  <2>5. CASE c # <<>> /\ target = Unset
    <3>1. d = [Static EXCEPT !.action = IF gated THEN "margin_gate" ELSE "below_min_score", !.head = c[1]]
      BY <2>1, <2>5
    <3> QED BY <2>2, <2>5, <3>1
  <2>6. CASE c # <<>> /\ target # Unset /\ b[1] = c[1] /\ ~fired
    <3>1. d = [Static EXCEPT !.action = "keep_default", !.head = b[1]]
      BY <2>1, <2>6
    <3> QED BY <2>2, <2>6, <3>1
  <2>7. CASE c # <<>> /\ target # Unset /\ ~(b[1] = c[1] /\ ~fired)
    <3>1. d = [chain |-> b, kept |-> FALSE, head |-> b[1],
               action |-> IF fired THEN "prefer" ELSE IF PolicyFor(task) = "explore" THEN "explore" ELSE "reorder"]
      BY <2>1, <2>7
    <3>2. d.chain = b /\ ~d.kept /\ d.head = b[1]
      BY <3>1
    <3> QED BY <1>8, <2>7, <3>2 DEF b
  <2> QED BY <2>4, <2>5, <2>6, <2>7
<1> HIDE DEF d, built, choice, tokens, rule, preferred, fired, open, c
<1>10. /\ Live' = Live
       /\ \A t, step : Blocked(t, step)' <=> Blocked(t, step)
       /\ \A t : Candidates(t)' = Candidates(t) /\ PolicyFor(t)' = PolicyFor(t)
       /\ \A p : HealthRank(p)' = HealthRank(p) /\ CreditRank(p)' = CreditRank(p)
       /\ standing' = standing
  BY <1>3, ReadingsRest
<1>11. /\ StaticChain \in Seq(RSteps) /\ StaticChain # <<>>
       /\ open \subseteq Live /\ Live \subseteq 1..Len(StaticChain) /\ Len(StaticChain) \in Nat
       /\ DOMAIN StaticChain = 1..Len(StaticChain)
  BY RoutingConstants DEF open, Live
<1>12. CASE d.chain = StaticChain /\ d.kept /\ (d.head = Unset \/ (c # <<>> /\ d.head = c[1]))
  <2>1. ~Reordered'
    BY <1>4, <1>12 DEF Reordered
  <2>2. LogTellsTheHead'
    <3> SUFFICES ASSUME d.head # Unset, \A i \in Live : ~Blocked(task, StaticChain[i])
                 PROVE  LET alive == {i \in DOMAIN StaticChain : standing[StaticChain[i].provider] # "dead"}
                        IN Plain(StaticChain[Min(alive)]) = Plain(c[1])
      BY <1>4, <1>10, <1>12 DEF LogTellsTheHead, Plain
    <3>1. open = Live
      BY DEF open
    <3>2. PICK i \in open : c[1] = StaticChain[i] /\ \A j \in open : i <= j
      BY <1>5, <1>12
    <3>3. Min(Live) \in Live /\ \A j \in Live : Min(Live) <= j
      BY <1>11, <3>1, <3>2, BoundsAreReached DEF Min
    <3>4. Min(Live) = i
      <4>1. i <= Min(Live) /\ Min(Live) <= i /\ i \in Int /\ Min(Live) \in Int
        <5>1. i \in Live /\ Min(Live) \in Live /\ i <= Min(Live) /\ Min(Live) <= i
          BY <3>1, <3>2, <3>3
        <5>2. Live \subseteq Int
          BY <1>11
        <5> QED BY <5>1, <5>2
      <4> DEFINE m == Min(Live)
      <4> HIDE DEF m
      <4>2. i <= m /\ m <= i /\ i \in Int /\ m \in Int
        BY <4>1 DEF m
      <4>3. m = i
        BY <4>2
      <4> QED BY <4>3 DEF m
    <3> QED BY <3>2, <3>4 DEF Live
  <2> QED BY <1>4, <1>11, <1>12, <2>1, <2>2 DEF RequestIsSound, ReorderingKeepsTheSteps, HeadIsTheBestServer, NoFlapping
<1>13. CASE c # <<>> /\ choice # {} /\ d.chain = built /\ ~d.kept /\ d.head = built[1]
  <2>1. target \in Models(c)
    BY <1>6, <1>13
  <2>2. /\ built \in Seq(RSteps) /\ built # <<>>
        /\ built[1].model = target
        /\ \A i \in DOMAIN c : c[i].model = target => StepRank(built[1], preferred) <= StepRank(c[i], preferred)
        /\ \A k \in DOMAIN built : \E i \in DOMAIN c :
             Plain(built[k]) = Plain(c[i]) /\ (c[i].model = target \/ FitsContext(c[i].model, tokens))
        /\ \A i \in DOMAIN c : c[i].model = target \/ FitsContext(c[i].model, tokens)
                                 => \E k \in DOMAIN built : Plain(built[k]) = Plain(c[i])
    <3>1. c \in Seq(RSteps) /\ built = BuildChain(c, target, preferred, tokens)
      BY <1>5 DEF built
    <3> QED BY ONLY <2>1, <3>1, ChainIsBuilt
  <2>3. /\ \A i \in DOMAIN c : c[i] \in Range(StaticChain) /\ standing[c[i].provider] # "dead" /\ ~Blocked(task, c[i])
        /\ \A s \in Range(StaticChain) : standing[s.provider] # "dead" /\ ~Blocked(task, s) => \E i \in DOMAIN c : c[i] = s
    <3>1. \A i \in open : i \in DOMAIN StaticChain /\ standing[StaticChain[i].provider] # "dead" /\ ~Blocked(task, StaticChain[i])
      BY DEF open, Live
    <3>2. \A i \in DOMAIN c : \E j \in open : c[i] = StaticChain[j]
      BY <1>5 DEF Range
    <3>3. \A j \in open : \E i \in DOMAIN c : c[i] = StaticChain[j]
      BY <1>5 DEF Range
    <3>4. \A i \in DOMAIN c : c[i] \in Range(StaticChain) /\ standing[c[i].provider] # "dead" /\ ~Blocked(task, c[i])
      <4> SUFFICES ASSUME NEW i \in DOMAIN c
                   PROVE  c[i] \in Range(StaticChain) /\ standing[c[i].provider] # "dead" /\ ~Blocked(task, c[i])
        OBVIOUS
      <4>1. PICK j \in open : c[i] = StaticChain[j]
        BY <3>2
      <4> QED BY <3>1, <4>1 DEF Range
    <3>5. ASSUME NEW s \in Range(StaticChain), standing[s.provider] # "dead", ~Blocked(task, s)
          PROVE  \E i \in DOMAIN c : c[i] = s
      <4>1. PICK j \in DOMAIN StaticChain : s = StaticChain[j]
        BY DEF Range
      <4>2. j \in open
        BY <3>5, <4>1 DEF open, Live
      <4> QED BY <3>3, <4>1, <4>2
    <3> QED BY <3>4, <3>5
  <2>4. c = Candidates(task)
    BY DEF c
  <2>5. ReorderingKeepsTheSteps'
    <3> DEFINE kept == {t \in Range(StaticChain) :
                          /\ standing[t.provider] # "dead"
                          /\ ~Blocked(task, t)
                          /\ t.model = target \/ FitsContext(t.model, tokens)}
    <3>2. ASSUME NEW s \in Range(built) PROVE \E t \in kept : Plain(s) = Plain(t)
      <4>1. PICK k \in DOMAIN built : s = built[k]
        BY DEF Range
      <4>2. PICK i \in DOMAIN c : Plain(built[k]) = Plain(c[i]) /\ (c[i].model = target \/ FitsContext(c[i].model, tokens))
        BY <2>2
      <4>3. c[i] \in kept
        BY <2>3, <4>2
      <4> QED BY <4>1, <4>2, <4>3
    <3>3. ASSUME NEW t \in kept PROVE \E s \in Range(built) : Plain(s) = Plain(t)
      <4>1. PICK i \in DOMAIN c : c[i] = t
        BY <2>3
      <4>2. PICK k \in DOMAIN built : Plain(built[k]) = Plain(c[i])
        BY <2>2, <4>1
      <4> QED BY <4>1, <4>2 DEF Range
    <3>1. {Plain(s) : s \in Range(built)} = {Plain(s) : s \in kept}
      <4> HIDE DEF kept
      <4> QED BY <3>2, <3>3
    <3> QED BY <1>4, <1>10, <1>13, <3>1 DEF ReorderingKeepsTheSteps, Plain
  <2>6. HeadIsTheBestServer'
    <3> SUFFICES ASSUME NEW s \in Range(c), s.model = target
                 PROVE  \/ s.provider = preferred /\ built[1].provider = preferred
                        \/ s.provider # preferred /\ built[1].provider = preferred
                        \/ HealthRank(built[1].provider) + CreditRank(built[1].provider)
                             <= HealthRank(s.provider) + CreditRank(s.provider)
      BY <1>4, <1>10, <1>13, <2>2, <2>4 DEF HeadIsTheBestServer
    <3>1. StepRank(built[1], preferred) <= StepRank(s, preferred)
      BY <2>2 DEF Range
    <3>2. \A p : HealthRank(p) \in 0..4 /\ CreditRank(p) \in 0..1
      BY DEF HealthRank, CreditRank
    <3> QED BY <3>1, <3>2 DEF StepRank
  <2>7. NoFlapping'
    <3>1. rule = Unset /\ PolicyFor(task) # "explore" /\ target # c[1].model
            => ScoreModel(target, task, PolicyFor(task)) > ScoreModel(c[1].model, task, PolicyFor(task)) + Hysteresis
      BY <1>7, <1>13 DEF fired
    <3> QED BY <1>4, <1>10, <2>4, <3>1 DEF NoFlapping
  <2>8. LogTellsTheHead'
    <3>1. \A k \in DOMAIN built : standing[built[k].provider] # "dead"
      <4>1. \A r, s : Plain(r) = Plain(s) => r.provider = s.provider
        BY DEF Plain
      <4> QED BY <2>2, <2>3, <4>1
    <3>2. {i \in DOMAIN built : standing[built[i].provider] # "dead"} = DOMAIN built
      BY <3>1
    <3>3. Len(built) \in Nat /\ DOMAIN built = 1..Len(built) /\ 1 \in DOMAIN built
      BY <2>2
    <3>4. Min(DOMAIN built) = 1
      <4>1. Min(DOMAIN built) \in DOMAIN built /\ \A j \in DOMAIN built : Min(DOMAIN built) <= j
        BY <3>3, BoundsAreReached DEF Min
      <4> QED BY <3>3, <4>1
    <3> QED BY <1>4, <1>10, <1>13, <3>2, <3>4 DEF LogTellsTheHead, Plain
  <2> QED BY <1>4, <1>13, <2>2, <2>5, <2>6, <2>7, <2>8 DEF RequestIsSound
<1> QED BY <1>9, <1>12, <1>13

LEMMA RoutingStays ==
  ASSUME RoutingInvariant, [RoutingNext]_routingVars
  PROVE  RoutingInvariant'
<1>1. SettingsAreRouting /\ RequestIsSound
  BY DEF RoutingInvariant
<1>2. CASE Select
  <2>1. SettingsAreRouting'
    BY <1>1, <1>2, ReadingsRest DEF Select
  <2> QED BY <1>2, <2>1, SelectIsSound DEF RoutingInvariant
<1>3. SettingsAreRouting' /\ routed' = IdleRequest => RoutingInvariant'
  BY DEF RoutingInvariant, RequestIsSound, ReorderingKeepsTheSteps, HeadIsTheBestServer, NoFlapping, LogTellsTheHead, Reordered
<1>4. CASE RequestDone \/ StandingChanges \/ SetRules \/ SetPolicy \/ ClearProfile
  <2>1. routed' = IdleRequest
    BY <1>4 DEF RequestDone, StandingChanges, SetRules, SetPolicy, ClearProfile
  <2>2. SettingsAreRouting'
    BY <1>1, <1>4 DEF RequestDone, StandingChanges, SetRules, SetPolicy, ClearProfile, SettingsAreRouting
  <2> QED BY <1>3, <2>1, <2>2
<1>5. CASE UNCHANGED routingVars
  <2>1. UNCHANGED <<standing, profileRules, globalRules, policySetting, floor>> /\ routed' = routed
    BY <1>5 DEF routingVars
  <2>2. SettingsAreRouting'
    BY <1>1, <2>1, ReadingsRest
  <2>3. RequestIsSound'
    BY <1>1, <2>1, ReadingsRest
    DEF RequestIsSound, ReorderingKeepsTheSteps, HeadIsTheBestServer, NoFlapping, LogTellsTheHead, Reordered, Plain
  <2> QED BY <2>2, <2>3 DEF RoutingInvariant
<1> QED BY <1>2, <1>4, <1>5 DEF RoutingNext

-----------------------------------------------------------------------------
(* The accounts: every fetch, scrape and top-up leaves the kept rows fair to *)
(* the account they speak of.                                                *)
Readings ==
  [is : {"data"}, credits : SUBSET (0..(MaxCredits + FullPlan)), pct : SUBSET (0..100), month : SUBSET Nat,
   since : Nat, stored : Nat, odd : BOOLEAN]
Errors == [is : {"error"}, error : {"auth_failed", "api_error"}]
Payloads == Readings \cup Errors \cup {NoPayload}
Owed(k) == IF k = "balance" THEN credits ELSE credits + planLeft

AccountTypes ==
  /\ vendor \in Vendors /\ credits \in 0..MaxCredits /\ planLeft \in {0, FullPlan}
  /\ spent \in [Days -> Nat] /\ access \subseteq {"key", "session", "cookie"}
  /\ plan \in {"go", "budget", "none"} /\ (vendor = "deepseek" => plan = "none")
  /\ creditTime \in Nat

(* What a payload may say of the account, as one kind of it.                 *)
Fair(k, p) ==
  /\ p \in Payloads
  /\ k = "balance" /\ p.is = "data" => p.pct = {}
  /\ k = "subscription" => /\ vendor = "deepseek" => p = NoPayload
                           /\ p.is = "data" => \A n \in p.month : n <= Sum(spent)
                           /\ vendor = "opencode" /\ plan = "none" /\ p.is = "data" => p.pct = {}

(* The rows are fair, and what is known of the account is in them.           *)
RowsAreFair ==
  /\ DOMAIN creditRows = PayloadKinds
  /\ \A k \in PayloadKinds : Fair(k, creditRows[k])
  /\ vendor = "deepseek" /\ Balance.is = "data" => Balance.stored - Balance.since < BalanceTTL
  /\ known \subseteq PayloadKinds
  /\ \A k \in known : /\ creditRows[k].is = "data"
                      /\ k = "balance" \/ vendor = "commandcode" => creditRows[k].credits = {Owed(k)}

ConsoleSteps == {"go", "budget", "budgetV1", "enrich", "summary", "all", "30d"}
Measured == {"enrich", "summary", "all", "30d", "plan"}

(* What a scrape has in hand at each of its calls.                           *)
ScrapeIsFair ==
  \/ scrape = NoScrape
  \/ /\ scrape = [at |-> scrape.at, kind |-> scrape.kind, got |-> scrape.got, days |-> scrape.days,
                  token |-> scrape.token, clean |-> scrape.clean]
     /\ scrape.clean \in BOOLEAN
     /\ \/ scrape.at \in ConsoleSteps /\ vendor = "opencode" /\ scrape.kind = "subscription"
        \/ scrape.at = "billing" /\ scrape.kind = IF vendor = "commandcode" THEN "subscription" ELSE "balance"
        \/ scrape.at = "plan" /\ vendor = "commandcode" /\ scrape.kind = "subscription"
           /\ (scrape.clean /\ ~scrape.got.odd => scrape.got.credits = {credits + planLeft})
     /\ scrape.at \in Measured => Fair("subscription", scrape.got) /\ scrape.got \in Readings /\ scrape.got.month = {}
     /\ scrape.at \in {"all", "30d"} => /\ DOMAIN scrape.days \subseteq Days
                                        /\ \A d \in DOMAIN scrape.days : scrape.days[d] \in Nat /\ scrape.days[d] <= spent[d]
     /\ scrape.at \notin {"all", "30d"} => DOMAIN scrape.days = {}

(* The plugin's own cache of a balance has the time it was asked for.        *)
CacheIsFair ==
  /\ balanceCache = [reading |-> balanceCache.reading, at |-> balanceCache.at] /\ balanceCache.at \in Nat
  /\ balanceCache.at <= creditTime
  /\ Fair("balance", balanceCache.reading)
  /\ balanceCache.reading.is = "data" => balanceCache.reading.since = balanceCache.at

CreditInvariant == AccountTypes /\ RowsAreFair /\ ScrapeIsFair /\ CacheIsFair

LEMMA CreditStarts == CreditInit => CreditInvariant
<1> SUFFICES ASSUME CreditInit PROVE CreditInvariant
  OBVIOUS
<1>1. AccountTypes
  BY CreditAssumption DEF CreditInit, AccountTypes, Vendors, Days
<1>2. \A k \in PayloadKinds : Fair(k, NoPayload)
  BY DEF Fair, Payloads, NoPayload
<1>3. NoPayload.is # "data"
  BY DEF NoPayload
<1>4. RowsAreFair
  BY <1>2, <1>3 DEF CreditInit, RowsAreFair, Balance, PayloadKinds
<1>5. ScrapeIsFair
  BY DEF CreditInit, ScrapeIsFair
<1>6. CacheIsFair
  BY <1>2, <1>3 DEF CreditInit, CacheIsFair, PayloadKinds
<1> QED BY <1>1, <1>4, <1>5, <1>6 DEF CreditInvariant

(* A percentage of the plan.                                                 *)
LEMMA PercentIsOne ==
  ASSUME planLeft \in {0, FullPlan}
  PROVE  PctUsed \in 0..100
<1>1. FullPlan \in Nat /\ FullPlan > 0
  BY CreditAssumption
<1>2. CASE planLeft = FullPlan
  <2>1. (FullPlan - planLeft) * 100 = 0
    BY <1>1, <1>2
  <2>2. 0 \div FullPlan = 0
    BY <1>1
  <2> QED BY <2>1, <2>2 DEF PctUsed
<1>3. CASE planLeft = 0
  <2>1. (FullPlan - planLeft) * 100 = 100 * FullPlan
    BY <1>1, <1>3
  <2>2. (100 * FullPlan) \div FullPlan = 100
    BY <1>1
  <2> QED BY <2>1, <2>2 DEF PctUsed
<1> QED BY <1>2, <1>3

(* The payloads the fetches put together.                                    *)
LEMMA PayloadsAreSound ==
  ASSUME AccountTypes
  PROVE  /\ Reading \in Readings /\ Reading.month = {} /\ Reading.pct = {}
         /\ NoPayload \in Payloads /\ NoPayload.is = "none"
         /\ \A e \in {"auth_failed", "api_error"} : Bad(e) \in Errors /\ Bad(e).is = "error"
         /\ \A P \in SUBSET (0..100) :
              LET r == [Reading EXCEPT !.pct = P, !.since = creditTime] IN
              r \in Readings /\ r.pct = P /\ r.month = {} /\ r.since = creditTime
         /\ \A a \in Answers : \A n \in 0..(MaxCredits + FullPlan) :
              /\ Money(a, n) \in Readings /\ Money(a, n).pct = {} /\ Money(a, n).month = {}
              /\ Money(a, n).since = creditTime
              /\ ~Money(a, n).odd => Money(a, n).credits = {n}
         /\ \A p \in Readings : \A P \in SUBSET (0..100) :
              /\ [p EXCEPT !.pct = P] \in Readings /\ [p EXCEPT !.pct = P].pct = P
              /\ [p EXCEPT !.pct = P].month = p.month /\ [p EXCEPT !.pct = P].odd = p.odd
              /\ [p EXCEPT !.pct = P].credits = p.credits
         /\ \A p \in Readings : \A M \in SUBSET Nat :
              /\ [p EXCEPT !.month = M] \in Readings /\ [p EXCEPT !.month = M].month = M
              /\ [p EXCEPT !.month = M].pct = p.pct
         /\ \A p \in Readings : /\ [p EXCEPT !.stored = creditTime] \in Readings
                                /\ [p EXCEPT !.stored = creditTime].stored = creditTime
                                /\ [p EXCEPT !.stored = creditTime].since = p.since
                                /\ [p EXCEPT !.stored = creditTime].pct = p.pct
                                /\ [p EXCEPT !.stored = creditTime].month = p.month
                                /\ [p EXCEPT !.stored = creditTime].credits = p.credits
         /\ \A p \in Payloads : p.is = "data" <=> p \in Readings
<1> USE CreditAssumption
<1>1. creditTime \in Nat
  BY DEF AccountTypes
<1>2. Reading \in Readings /\ Reading.month = {} /\ Reading.pct = {}
  BY DEF Reading, Readings
<1>3. /\ NoPayload \in Payloads /\ NoPayload.is = "none"
      /\ \A e \in {"auth_failed", "api_error"} : Bad(e) \in Errors /\ Bad(e).is = "error"
  BY DEF Payloads, NoPayload, Bad, Errors
<1>4. ASSUME NEW P \in SUBSET (0..100)
      PROVE  LET r == [Reading EXCEPT !.pct = P, !.since = creditTime] IN
             r \in Readings /\ r.pct = P /\ r.month = {} /\ r.since = creditTime
  BY <1>1 DEF Reading, Readings
<1>5. ASSUME NEW a \in Answers, NEW n \in 0..(MaxCredits + FullPlan)
      PROVE  /\ Money(a, n) \in Readings /\ Money(a, n).pct = {} /\ Money(a, n).month = {}
             /\ Money(a, n).since = creditTime
             /\ ~Money(a, n).odd => Money(a, n).credits = {n}
  <2> DEFINE C == {IF a = "odd" THEN 0 ELSE n}
             m(p, b) == [p EXCEPT !.credits = C, !.since = creditTime, !.odd = b]
  <2>1. C \in SUBSET (0..(MaxCredits + FullPlan)) /\ (a # "odd" => C = {n})
    OBVIOUS
  <2>2. Money(a, n) = m(Reading, a = "odd")
    BY DEF Money
  <2> HIDE DEF C
  <2>3. \A p \in Readings : \A b \in BOOLEAN :
          /\ m(p, b) \in Readings /\ m(p, b).pct = p.pct /\ m(p, b).month = p.month
          /\ m(p, b).since = creditTime /\ m(p, b).credits = C /\ m(p, b).odd = b
    BY <1>1, <2>1 DEF Readings
  <2> HIDE DEF m
  <2>4. (a = "odd") \in BOOLEAN
    OBVIOUS
  <2>5. /\ m(Reading, a = "odd") \in Readings /\ m(Reading, a = "odd").pct = {} /\ m(Reading, a = "odd").month = {}
        /\ m(Reading, a = "odd").since = creditTime /\ m(Reading, a = "odd").credits = C
        /\ m(Reading, a = "odd").odd = (a = "odd")
    BY <1>2, <2>3, <2>4
  <2> QED BY <2>1, <2>2, <2>5
<1>6. \A p \in Readings : \A P \in SUBSET (0..100) :
              /\ [p EXCEPT !.pct = P] \in Readings /\ [p EXCEPT !.pct = P].pct = P
              /\ [p EXCEPT !.pct = P].month = p.month /\ [p EXCEPT !.pct = P].odd = p.odd
              /\ [p EXCEPT !.pct = P].credits = p.credits
  BY DEF Readings
<1>7. \A p \in Readings : \A M \in SUBSET Nat :
              /\ [p EXCEPT !.month = M] \in Readings /\ [p EXCEPT !.month = M].month = M
              /\ [p EXCEPT !.month = M].pct = p.pct
  BY DEF Readings
<1>8. \A p \in Readings : /\ [p EXCEPT !.stored = creditTime] \in Readings
                                /\ [p EXCEPT !.stored = creditTime].stored = creditTime
                                /\ [p EXCEPT !.stored = creditTime].since = p.since
                                /\ [p EXCEPT !.stored = creditTime].pct = p.pct
                                /\ [p EXCEPT !.stored = creditTime].month = p.month
                                /\ [p EXCEPT !.stored = creditTime].credits = p.credits
  BY <1>1 DEF Readings
<1>9. \A p \in Payloads : p.is = "data" <=> p \in Readings
  BY DEF Payloads, Readings, Errors, NoPayload
<1> QED BY <1>2, <1>3, <1>4, <1>5, <1>6, <1>7, <1>8, <1>9

(* What a scrape keeps: the rows stay fair if the payload is.                *)
LEMMA KeepingIsFair ==
  ASSUME AccountTypes, RowsAreFair, UNCHANGED <<vendor, account, creditTime>>,
         NEW k \in PayloadKinds, NEW p, NEW clean \in BOOLEAN, Fair(k, p), Keep(k, p, clean),
         clean /\ p.is = "data" /\ ~p.odd /\ (k = "balance" \/ vendor = "commandcode") => p.credits = {Owed(k)},
         vendor = "deepseek" /\ k = "balance" /\ p.is = "data" => creditTime - p.since < BalanceTTL
  PROVE  RowsAreFair' /\ ScrapeIsFair' /\ (p.is = "data" => creditRows'[k].is = "data" /\ creditRows'[k].pct = p.pct)
<1> DEFINE q == [p EXCEPT !.stored = creditTime]
<1>1. /\ DOMAIN creditRows = PayloadKinds /\ \A j \in PayloadKinds : Fair(j, creditRows[j])
      /\ vendor = "deepseek" /\ Balance.is = "data" => Balance.stored - Balance.since < BalanceTTL
      /\ known \subseteq PayloadKinds
      /\ \A j \in known : /\ creditRows[j].is = "data"
                          /\ j = "balance" \/ vendor = "commandcode" => creditRows[j].credits = {Owed(j)}
  BY DEF RowsAreFair
<1>2. p.is = "data" => /\ q \in Readings /\ q.is = "data" /\ q.stored = creditTime /\ q.since = p.since
                       /\ q.pct = p.pct /\ q.month = p.month /\ q.credits = p.credits
  <2>1. p \in Payloads
    BY DEF Fair
  <2>2. \A x \in Readings : x.is = "data"
    BY DEF Readings
  <2> QED BY <2>1, <2>2, PayloadsAreSound
<1>3. /\ scrape' = NoScrape
      /\ p.is = "data" => creditRows' = [creditRows EXCEPT ![k] = q]
      /\ p.is = "error" /\ creditRows[k].is = "none" => creditRows' = [creditRows EXCEPT ![k] = p]
      /\ p.is # "data" /\ ~(p.is = "error" /\ creditRows[k].is = "none") => creditRows' = creditRows
      /\ known' = IF p.is # "data" THEN known ELSE IF clean /\ ~p.odd THEN known \cup {k} ELSE known \ {k}
  BY DEF Keep
<1>4. p.is = "data" => Fair(k, q) /\ (k = "subscription" => vendor # "deepseek")
  <2> SUFFICES ASSUME p.is = "data" PROVE Fair(k, q) /\ (k = "subscription" => vendor # "deepseek")
    OBVIOUS
  <2>1. k = "subscription" => vendor # "deepseek"
    BY DEF Fair, NoPayload
  <2> HIDE DEF q
  <2> QED BY <1>2, <2>1 DEF Fair, Payloads
<1> HIDE DEF q
<1>5. /\ DOMAIN creditRows' = PayloadKinds
      /\ \A j \in PayloadKinds \ {k} : creditRows'[j] = creditRows[j]
      /\ creditRows'[k] = IF p.is = "data" THEN q ELSE IF p.is = "error" /\ creditRows[k].is = "none" THEN p ELSE creditRows[k]
  BY <1>1, <1>3
<1>6. \A j, x : Fair(j, x)' <=> Fair(j, x)
  BY DEF Fair, account, Readings, Payloads, Sum
<1>7. \A j \in PayloadKinds : Fair(j, creditRows'[j])
  BY <1>1, <1>4, <1>5
<1>8. (\A j \in PayloadKinds : Fair(j, creditRows[j]))'
  BY <1>7 DEF Fair, account, Sum
<1>9. /\ credits' = credits /\ planLeft' = planLeft /\ vendor' = vendor
      /\ \A j : Owed(j)' = Owed(j)
  BY DEF account, Owed
<1>10. (vendor = "deepseek" /\ Balance.is = "data" => Balance.stored - Balance.since < BalanceTTL)'
  BY <1>1, <1>2, <1>5, <1>9 DEF Balance, PayloadKinds
<1>11. known' \subseteq PayloadKinds
  BY <1>1, <1>3
<1>12. \A j \in known' : /\ creditRows'[j].is = "data"
                         /\ j = "balance" \/ vendor = "commandcode" => creditRows'[j].credits = {Owed(j)}
  BY <1>1, <1>2, <1>3, <1>5
<1>13. RowsAreFair'
  BY <1>5, <1>8, <1>9, <1>10, <1>11, <1>12 DEF RowsAreFair
<1>14. ScrapeIsFair'
  BY <1>3 DEF ScrapeIsFair
<1> QED BY <1>2, <1>5, <1>13, <1>14

(* What a step leaves alone stays as it was.                                 *)
LEMMA AccountRests ==
  ASSUME CreditInvariant, UNCHANGED <<vendor, account, creditTime>>
  PROVE  /\ AccountTypes'
         /\ UNCHANGED balanceCache => CacheIsFair'
         /\ UNCHANGED <<creditRows, known>> => RowsAreFair'
         /\ UNCHANGED scrape => ScrapeIsFair'
<1>1. AccountTypes'
  BY DEF CreditInvariant, AccountTypes, account
<1>2. UNCHANGED balanceCache => CacheIsFair'
  BY DEF CreditInvariant, CacheIsFair, Fair, account, Sum
<1>3. UNCHANGED <<creditRows, known>> => RowsAreFair'
  BY DEF CreditInvariant, RowsAreFair, Fair, account, Sum, Owed, Balance
<1>4. UNCHANGED scrape => ScrapeIsFair'
  BY DEF CreditInvariant, ScrapeIsFair, Fair, account, Sum
<1> QED BY <1>1, <1>2, <1>3, <1>4

LEMMA FirstCallIsFair ==
  ASSUME CreditInvariant, UNCHANGED <<vendor, account, creditTime>>, NEW k, NEW at, FirstCall(k, at),
         \/ at \in {"go", "budget"} /\ vendor = "opencode" /\ k = "subscription"
         \/ at = "billing" /\ k = IF vendor = "commandcode" THEN "subscription" ELSE "balance"
  PROVE  ScrapeIsFair'
<1> DEFINE s == [at |-> at, kind |-> k, got |-> NoPayload, days |-> <<>>, token |-> "session" \in access, clean |-> TRUE]
<1>1. scrape' = s
  BY DEF FirstCall
<1>2. /\ scrape' = [at |-> scrape'.at, kind |-> scrape'.kind, got |-> scrape'.got, days |-> scrape'.days,
                    token |-> scrape'.token, clean |-> scrape'.clean]
      /\ scrape'.at = at /\ scrape'.kind = k /\ scrape'.clean = TRUE /\ scrape'.days = <<>>
  <2>1. \A b : LET x == [at |-> at, kind |-> k, got |-> NoPayload, days |-> <<>>, token |-> b, clean |-> TRUE] IN
               /\ x = [at |-> x.at, kind |-> x.kind, got |-> x.got, days |-> x.days, token |-> x.token, clean |-> x.clean]
               /\ x.at = at /\ x.kind = k /\ x.clean = TRUE /\ x.days = <<>>
    OBVIOUS
  <2> QED BY <1>1, <2>1
<1>3. DOMAIN <<>> = {}
  OBVIOUS
<1>4. vendor' = vendor
  OBVIOUS
<1>5. at \notin Measured
  BY DEF Measured
<1> QED BY <1>2, <1>3, <1>4, <1>5 DEF ScrapeIsFair, ConsoleSteps

(* A fetch begins (fetch_subscription, fetch_balance).                       *)
LEMMA FetchesBeginFairly ==
  ASSUME CreditInvariant,
         OpenCodeSubscription \/ OpenCodeBalance \/ CommandCodeSubscription \/ CommandCodeBalance \/ DeepSeekBalance
  PROVE  CreditInvariant'
<1>1. AccountTypes /\ RowsAreFair /\ ScrapeIsFair /\ CacheIsFair
  BY DEF CreditInvariant
<1>2. UNCHANGED <<vendor, account, creditTime>>
  BY DEF OpenCodeSubscription, OpenCodeBalance, CommandCodeSubscription, CommandCodeBalance, DeepSeekBalance, FetchBegins
<1>3. UNCHANGED balanceCache
  BY DEF OpenCodeSubscription, OpenCodeBalance, CommandCodeSubscription, CommandCodeBalance, DeepSeekBalance, CachedBalance
<1>4. AccountTypes' /\ CacheIsFair' /\ (UNCHANGED <<creditRows, known>> => RowsAreFair')
  BY <1>2, <1>3, AccountRests
<1>5. /\ NoPayload \in Payloads /\ NoPayload.is = "none" /\ Bad("auth_failed") \in Payloads /\ Bad("auth_failed").is = "error"
      /\ TRUE \in BOOLEAN /\ FALSE \in BOOLEAN /\ "balance" \in PayloadKinds /\ "subscription" \in PayloadKinds
  BY <1>1, PayloadsAreSound DEF Payloads, PayloadKinds
<1>6. CASE OpenCodeSubscription
  <2>1. vendor = "opencode" /\ FirstCall("subscription", IF "key" \in access THEN "go" ELSE "budget") /\ UNCHANGED <<creditRows, known>>
    BY <1>6 DEF OpenCodeSubscription, FetchBegins, Stays
  <2>2. ScrapeIsFair'
    BY <1>2, <2>1, FirstCallIsFair
  <2> QED BY <1>4, <2>1, <2>2 DEF CreditInvariant
<1>7. CASE OpenCodeBalance
  <2>1. vendor = "opencode"
    BY <1>7 DEF OpenCodeBalance, FetchBegins
  <2>2. CASE "session" \in access
    <3>1. FirstCall("balance", "billing") /\ UNCHANGED <<creditRows, known>>
      BY <1>7, <2>2 DEF OpenCodeBalance, Stays
    <3>2. ScrapeIsFair'
      BY <1>2, <2>1, <3>1, FirstCallIsFair
    <3> QED BY <1>4, <3>1, <3>2 DEF CreditInvariant
  <2>3. CASE "session" \notin access
    <3>1. PICK p \in {Bad("auth_failed"), NoPayload} : Keep("balance", p, TRUE)
      BY <1>7, <2>3 DEF OpenCodeBalance
    <3>2. Fair("balance", p) /\ p.is # "data"
      BY <1>5, <3>1 DEF Fair
    <3>3. RowsAreFair' /\ ScrapeIsFair'
      BY <1>1, <1>2, <1>5, <3>1, <3>2, KeepingIsFair
    <3> QED BY <1>4, <3>3 DEF CreditInvariant
  <2> QED BY <2>2, <2>3
<1>8. CASE CommandCodeSubscription
  <2>1. vendor = "commandcode"
    BY <1>8 DEF CommandCodeSubscription, FetchBegins
  <2>2. CASE "cookie" \in access
    <3>1. FirstCall("subscription", "billing") /\ UNCHANGED <<creditRows, known>>
      BY <1>8, <2>2 DEF CommandCodeSubscription, Stays
    <3>2. ScrapeIsFair'
      BY <1>2, <2>1, <3>1, FirstCallIsFair
    <3> QED BY <1>4, <3>1, <3>2 DEF CreditInvariant
  <2>3. CASE "cookie" \notin access
    <3>1. Keep("subscription", Bad("auth_failed"), TRUE)
      BY <1>8, <2>3 DEF CommandCodeSubscription
    <3>2. Fair("subscription", Bad("auth_failed")) /\ Bad("auth_failed").is # "data"
      BY <1>5, <2>1 DEF Fair
    <3>3. RowsAreFair' /\ ScrapeIsFair'
      BY <1>1, <1>2, <1>5, <3>1, <3>2, KeepingIsFair
    <3> QED BY <1>4, <3>3 DEF CreditInvariant
  <2> QED BY <2>2, <2>3
<1>9. CASE CommandCodeBalance
  <2>1. Keep("balance", NoPayload, TRUE)
    BY <1>9 DEF CommandCodeBalance
  <2>2. Fair("balance", NoPayload) /\ NoPayload.is # "data"
    BY <1>5 DEF Fair
  <2>3. RowsAreFair' /\ ScrapeIsFair'
    BY <1>1, <1>2, <1>5, <2>1, <2>2, KeepingIsFair
  <2> QED BY <1>4, <2>3 DEF CreditInvariant
<1>10. CASE DeepSeekBalance
  <2>1. vendor = "deepseek"
    BY <1>10 DEF DeepSeekBalance, FetchBegins
  <2>2. CASE balanceCache.reading.is = "data" /\ creditTime - balanceCache.at < BalanceTTL
    <3> DEFINE p == balanceCache.reading
    <3>1. Keep("balance", p, FALSE)
      BY <1>10, <2>2 DEF DeepSeekBalance, CachedBalance
    <3>2. Fair("balance", p) /\ p.since = balanceCache.at
      BY <1>1, <2>2 DEF CacheIsFair
    <3>3. creditTime - p.since < BalanceTTL
      BY <2>2, <3>2
    <3> HIDE DEF p
    <3>4. RowsAreFair' /\ ScrapeIsFair'
      BY <1>1, <1>2, <1>5, <3>1, <3>2, <3>3, KeepingIsFair
    <3> QED BY <1>4, <3>4 DEF CreditInvariant
  <2>3. CASE ~(balanceCache.reading.is = "data" /\ creditTime - balanceCache.at < BalanceTTL) /\ "key" \in access
    <3>1. FirstCall("balance", "billing") /\ UNCHANGED <<creditRows, known>>
      BY <1>10, <2>3 DEF DeepSeekBalance, Stays
    <3>2. ScrapeIsFair'
      BY <1>2, <2>1, <3>1, FirstCallIsFair
    <3> QED BY <1>4, <3>1, <3>2 DEF CreditInvariant
  <2>4. CASE ~(balanceCache.reading.is = "data" /\ creditTime - balanceCache.at < BalanceTTL) /\ "key" \notin access
    <3>1. Keep("balance", NoPayload, TRUE)
      BY <1>10, <2>4 DEF DeepSeekBalance
    <3>2. Fair("balance", NoPayload) /\ NoPayload.is # "data"
      BY <1>5 DEF Fair
    <3>3. RowsAreFair' /\ ScrapeIsFair'
      BY <1>1, <1>2, <1>5, <3>1, <3>2, KeepingIsFair
    <3> QED BY <1>4, <3>3 DEF CreditInvariant
  <2> QED BY <2>2, <2>3, <2>4
<1> QED BY <1>6, <1>7, <1>8, <1>9, <1>10

LEMMA GoingOnIsFair ==
  ASSUME CreditInvariant, UNCHANGED <<vendor, account, creditTime>>, scrape # NoScrape, NEW at, NEW got, GoOn(at, got),
         scrape.at \notin {"all", "30d"},
         \/ at = "budgetV1" /\ scrape.at \in ConsoleSteps
         \/ /\ at \in {"enrich", "summary", "all"} /\ scrape.at \in ConsoleSteps
            /\ Fair("subscription", got) /\ got \in Readings /\ got.month = {}
         \/ /\ at = "plan" /\ scrape.at = "billing" /\ vendor = "commandcode"
            /\ Fair("subscription", got) /\ got \in Readings /\ got.month = {}
            /\ scrape.clean /\ ~got.odd => got.credits = {credits + planLeft}
  PROVE  ScrapeIsFair'
<1>1. /\ scrape = [at |-> scrape.at, kind |-> scrape.kind, got |-> scrape.got, days |-> scrape.days,
                   token |-> scrape.token, clean |-> scrape.clean]
      /\ scrape.clean \in BOOLEAN /\ DOMAIN scrape.days = {}
      /\ scrape.at \in ConsoleSteps => vendor = "opencode" /\ scrape.kind = "subscription"
      /\ scrape.at = "billing" => scrape.kind = IF vendor = "commandcode" THEN "subscription" ELSE "balance"
  BY DEF CreditInvariant, ScrapeIsFair, ConsoleSteps
<1>2. scrape' = [scrape EXCEPT !.at = at, !.got = got]
  BY DEF GoOn
<1>3. /\ scrape' = [at |-> scrape'.at, kind |-> scrape'.kind, got |-> scrape'.got, days |-> scrape'.days,
                    token |-> scrape'.token, clean |-> scrape'.clean]
      /\ scrape'.at = at /\ scrape'.kind = scrape.kind /\ scrape'.clean = scrape.clean /\ scrape'.days = scrape.days
      /\ scrape'.got = got
  BY <1>1, <1>2
<1>4. vendor' = vendor /\ credits' = credits /\ planLeft' = planLeft /\ spent' = spent /\ plan' = plan
  BY DEF account
<1>5. /\ at \notin {"all", "30d"} => DOMAIN scrape'.days = {}
      /\ at = "all" => DOMAIN scrape'.days = {}
  BY <1>1, <1>3
<1>6. Fair("subscription", got) => (Fair("subscription", scrape.got))' 
  BY <1>3, <1>4 DEF Fair, Sum
<1>7. /\ \/ at \in ConsoleSteps /\ vendor' = "opencode" /\ scrape'.kind = "subscription"
         \/ at = "plan" /\ vendor' = "commandcode" /\ scrape'.kind = "subscription"
            /\ (scrape'.clean /\ ~scrape'.got.odd => scrape'.got.credits = {credits' + planLeft'})
      /\ at \in Measured => (Fair("subscription", scrape.got))' /\ scrape'.got \in Readings /\ scrape'.got.month = {}
  BY <1>1, <1>3, <1>4, <1>6 DEF ConsoleSteps, Measured
<1> QED BY <1>1, <1>3, <1>5, <1>7 DEF ScrapeIsFair

(* The end of a scrape whose answer is no balance of the account.            *)
LEMMA EndingIsFair ==
  ASSUME CreditInvariant, UNCHANGED <<vendor, account, creditTime>>, scrape # NoScrape, NEW p, End(p), Fair(scrape.kind, p),
         scrape.clean /\ p.is = "data" /\ ~p.odd /\ (scrape.kind = "balance" \/ vendor = "commandcode")
           => p.credits = {Owed(scrape.kind)},
         vendor = "deepseek" /\ scrape.kind = "balance" /\ p.is = "data" => creditTime - p.since < BalanceTTL
  PROVE  RowsAreFair' /\ ScrapeIsFair'
         /\ (p.is = "data" => creditRows'[scrape.kind].is = "data" /\ creditRows'[scrape.kind].pct = p.pct)
<1>1. scrape.kind \in PayloadKinds /\ scrape.clean \in BOOLEAN /\ AccountTypes /\ RowsAreFair
  BY DEF CreditInvariant, ScrapeIsFair, PayloadKinds
<1>2. Keep(scrape.kind, p, scrape.clean)
  BY DEF End
<1> QED BY <1>1, <1>2, KeepingIsFair

(* An error is fair to say of every account.                                 *)
LEMMA ErrorsAreFair ==
  ASSUME AccountTypes, NEW p, p \in Errors \/ p = NoPayload, NEW k, k = "subscription" => vendor # "deepseek"
  PROVE  Fair(k, p) /\ p.is # "data"
BY DEF Fair, Payloads, Errors, NoPayload

(* The calls about OpenCode's plan and its usage (fetch_subscription).       *)
LEMMA PlanCallsAreFair ==
  ASSUME CreditInvariant, NEW a \in Answers, AskGo(a) \/ AskBudget(a) \/ AskSummary(a)
  PROVE  /\ CreditInvariant'
         /\ MeasuredPlanIsKept
<1>1. AccountTypes /\ RowsAreFair /\ ScrapeIsFair /\ CacheIsFair
  BY DEF CreditInvariant
<1>2. UNCHANGED <<vendor, account, creditTime, balanceCache>> /\ scrape.at \in ConsoleSteps
  BY DEF AskGo, AskBudget, AskSummary, Asked, ConsoleSteps
<1>3. scrape # NoScrape /\ vendor = "opencode" /\ scrape.kind = "subscription" /\ scrape.clean \in BOOLEAN
  BY <1>1, <1>2 DEF ScrapeIsFair, ConsoleSteps, NoScrape
<1>4. AccountTypes' /\ CacheIsFair' /\ (UNCHANGED <<creditRows, known>> => RowsAreFair')
  BY <1>2, AccountRests
<1>5. PctUsed \in 0..100
  BY <1>1, PercentIsOne DEF AccountTypes
<1>6. /\ Reading \in Readings /\ Reading.month = {} /\ Reading.pct = {}
      /\ \A e \in {"auth_failed", "api_error"} : Bad(e) \in Errors /\ Bad(e).is = "error"
      /\ NoPayload \in Payloads
      /\ \A p \in Readings : p.is = "data" /\ p \in Payloads
  <2>1. \A p \in Readings : p.is = "data" /\ p \in Payloads
    BY DEF Readings, Payloads
  <2> QED BY <1>1, <2>1, PayloadsAreSound
<1>7. ASSUME NEW p \in Readings, p.month = {}, plan = "none" => p.pct = {}
      PROVE  Fair("subscription", p)
  BY <1>3, <1>6, <1>7 DEF Fair
<1>8. ASSUME NEW p \in Readings \cup Errors, Fair("subscription", p), End(p)
      PROVE  RowsAreFair' /\ ScrapeIsFair' /\ (p.is = "data" => creditRows'["subscription"].is = "data" /\ creditRows'["subscription"].pct = p.pct)
  BY <1>2, <1>3, <1>8, EndingIsFair
<1>9. ASSUME NEW e \in {"auth_failed", "api_error"}, End(Bad(e))
      PROVE  RowsAreFair' /\ ScrapeIsFair'
  <2>1. Fair("subscription", Bad(e))
    BY <1>1, <1>3, <1>6, ErrorsAreFair
  <2> QED BY <1>6, <1>8, <1>9, <2>1
<1>10. CASE AskGo(a)
  <2>1. scrape.at = "go" /\ scrape.at \notin {"enrich", "all", "30d"}
    BY <1>10 DEF AskGo, Asked
  <2>2. CASE plan = "go" /\ a = "ok"
    <3>1. /\ GoWindows \in Readings /\ GoWindows.month = {} /\ GoWindows.pct = {PctUsed}
          /\ Fair("subscription", GoWindows)
      <4>1. {PctUsed} \in SUBSET (0..100)
        BY <1>5
      <4>2. /\ GoWindows \in Readings /\ GoWindows.month = {} /\ GoWindows.pct = {PctUsed}
        BY <1>1, <4>1, PayloadsAreSound DEF GoWindows
      <4> QED BY <1>7, <2>2, <4>2
    <3>2. CASE "session" \in access
      <4>1. GoOn("enrich", GoWindows) /\ UNCHANGED <<creditRows, known>>
        BY <1>10, <2>2, <3>2 DEF AskGo, Stays
      <4>2. ScrapeIsFair'
        BY <1>2, <1>3, <2>1, <3>1, <4>1, GoingOnIsFair DEF ConsoleSteps
      <4> QED BY <1>4, <2>1, <4>1, <4>2 DEF CreditInvariant, MeasuredPlanIsKept
    <3>3. CASE "session" \notin access
      <4>1. End(GoWindows)
        BY <1>10, <2>2, <3>3 DEF AskGo
      <4> QED BY <1>4, <1>8, <2>1, <3>1, <4>1 DEF CreditInvariant, MeasuredPlanIsKept
    <3> QED BY <3>2, <3>3
  <2>3. CASE ~(plan = "go" /\ a = "ok")
    <3>1. FirstCall("subscription", "budget") /\ UNCHANGED <<creditRows, known>>
      BY <1>10, <2>3 DEF AskGo, Stays
    <3>2. ScrapeIsFair'
      BY <1>2, <1>3, <3>1, FirstCallIsFair
    <3> QED BY <1>4, <2>1, <3>1, <3>2 DEF CreditInvariant, MeasuredPlanIsKept
  <2> QED BY <2>2, <2>3
<1>11. CASE AskBudget(a)
  <2>1. scrape.at \in {"budget", "budgetV1"} /\ scrape.at \notin {"enrich", "all", "30d"}
    BY <1>11 DEF AskBudget
  <2>2. \/ End(Bad("auth_failed"))
        \/ GoOn("budgetV1", NoPayload) /\ UNCHANGED <<creditRows, known>>
        \/ PlanWindows # {} /\ End([Reading EXCEPT !.pct = PlanWindows, !.since = creditTime])
        \/ GoOn("summary", Reading) /\ UNCHANGED <<creditRows, known>>
    BY <1>11 DEF AskBudget, Stays
  <2>3. CASE End(Bad("auth_failed"))
    BY <1>4, <1>9, <2>1, <2>3 DEF CreditInvariant, MeasuredPlanIsKept
  <2>4. CASE GoOn("budgetV1", NoPayload) /\ UNCHANGED <<creditRows, known>>
    <3>1. ScrapeIsFair'
      BY <1>2, <1>3, <2>1, <2>4, GoingOnIsFair
    <3> QED BY <1>4, <2>1, <2>4, <3>1 DEF CreditInvariant, MeasuredPlanIsKept
  <2>5. CASE PlanWindows # {} /\ End([Reading EXCEPT !.pct = PlanWindows, !.since = creditTime])
    <3> DEFINE p == [Reading EXCEPT !.pct = PlanWindows, !.since = creditTime]
    <3>1. PlanWindows \in SUBSET (0..100) /\ plan = "budget"
      BY <1>5, <2>5 DEF PlanWindows
    <3>2. p \in Readings /\ p.month = {}
      BY <1>1, <3>1, PayloadsAreSound
    <3>3. End(p)
      BY <2>5
    <3> HIDE DEF p
    <3>4. Fair("subscription", p)
      BY <1>7, <3>1, <3>2
    <3> QED BY <1>4, <1>8, <2>1, <3>2, <3>3, <3>4 DEF CreditInvariant, MeasuredPlanIsKept
  <2>6. CASE GoOn("summary", Reading) /\ UNCHANGED <<creditRows, known>>
    <3>1. Fair("subscription", Reading)
      BY <1>6, <1>7
    <3>2. ScrapeIsFair'
      BY <1>2, <1>3, <1>6, <2>1, <2>6, <3>1, GoingOnIsFair
    <3> QED BY <1>4, <2>1, <2>6, <3>2 DEF CreditInvariant, MeasuredPlanIsKept
  <2> QED BY <2>2, <2>3, <2>4, <2>5, <2>6
<1>12. CASE AskSummary(a)
  <2>1. scrape.at \in {"enrich", "summary"}
    BY <1>12 DEF AskSummary
  <2>2. scrape.got \in Readings /\ Fair("subscription", scrape.got) /\ scrape.got.month = {}
    BY <1>1, <1>3, <2>1 DEF ScrapeIsFair, Measured
  <2>3. \/ GoOn("all", scrape.got) /\ UNCHANGED <<creditRows, known>>
        \/ scrape.at = "enrich" /\ End(scrape.got)
        \/ scrape.at # "enrich" /\ \E e \in {"auth_failed", "api_error"} : End(Bad(e))
    BY <1>12 DEF AskSummary, Stays
  <2>4. CASE GoOn("all", scrape.got) /\ UNCHANGED <<creditRows, known>>
    <3>1. ScrapeIsFair'
      BY <1>2, <1>3, <2>1, <2>2, <2>4, GoingOnIsFair
    <3>2. scrape'.at = "all"
      BY <1>1, <1>3, <2>4 DEF GoOn, ScrapeIsFair
    <3> QED BY <1>4, <2>4, <3>1, <3>2 DEF CreditInvariant, MeasuredPlanIsKept
  <2>5. CASE scrape.at = "enrich" /\ End(scrape.got)
    BY <1>4, <1>6, <1>8, <2>2, <2>5 DEF CreditInvariant, MeasuredPlanIsKept
  <2>6. CASE scrape.at # "enrich" /\ \E e \in {"auth_failed", "api_error"} : End(Bad(e))
    BY <1>4, <1>9, <2>1, <2>6 DEF CreditInvariant, MeasuredPlanIsKept
  <2> QED BY <2>3, <2>4, <2>5, <2>6
<1> QED BY <1>10, <1>11, <1>12

(* The month's days, in both ranges (_month_to_date).                        *)
LEMMA DaysAreFair ==
  ASSUME CreditInvariant, NEW a \in Answers, NEW reach \in SUBSET Days, AskDays(a, reach)
  PROVE  CreditInvariant' /\ MeasuredPlanIsKept
<1> DEFINE days == IF a = "ok" THEN Month(scrape.days, reach) ELSE scrape.days
<1>1. AccountTypes /\ RowsAreFair /\ ScrapeIsFair /\ CacheIsFair
  BY DEF CreditInvariant
<1>2. UNCHANGED <<vendor, account, creditTime, balanceCache>> /\ scrape.at \in {"all", "30d"}
  BY DEF AskDays, Asked
<1>3. /\ scrape # NoScrape /\ vendor = "opencode" /\ scrape.kind = "subscription" /\ scrape.clean \in BOOLEAN
      /\ scrape.got \in Readings /\ Fair("subscription", scrape.got) /\ scrape.got.month = {}
      /\ DOMAIN scrape.days \subseteq Days
      /\ \A d \in DOMAIN scrape.days : scrape.days[d] \in Nat /\ scrape.days[d] <= spent[d]
      /\ scrape = [at |-> scrape.at, kind |-> scrape.kind, got |-> scrape.got, days |-> scrape.days,
                   token |-> scrape.token, clean |-> scrape.clean]
  BY <1>1, <1>2 DEF ScrapeIsFair, ConsoleSteps, NoScrape, Measured
<1>4. AccountTypes' /\ CacheIsFair' /\ (UNCHANGED <<creditRows, known>> => RowsAreFair')
  BY <1>2, AccountRests
<1>5. spent \in [Days -> Nat]
  BY <1>1 DEF AccountTypes
<1>6. /\ DOMAIN days \subseteq Days
      /\ \A d \in DOMAIN days : days[d] \in Nat /\ days[d] <= spent[d]
  <2>1. CASE a = "ok"
    <3>1. days = Month(scrape.days, reach)
      BY <2>1
    <3>2. /\ DOMAIN days = DOMAIN scrape.days \cup reach
          /\ \A d \in DOMAIN days : days[d] = IF d \in reach THEN spent[d] ELSE scrape.days[d]
      BY <3>1 DEF Month
    <3> HIDE DEF days
    <3> QED BY <1>3, <1>5, <3>2
  <2>2. CASE a # "ok"
    BY <1>3, <2>2
  <2> QED BY <2>1, <2>2
<1>7. Sum(days) \in Nat /\ Sum(days) <= Sum(spent)
  <2> HIDE DEF days
  <2>1. DOMAIN spent = Days /\ spent[1] \in Nat /\ spent[2] \in Nat
    BY <1>5 DEF Days
  <2> QED BY <1>6, <2>1 DEF Sum, Days
<1>8. \/ scrape' = [scrape EXCEPT !.at = "30d", !.days = days] /\ UNCHANGED <<creditRows, known>>
      \/ End([scrape.got EXCEPT !.month = IF DOMAIN days = {} THEN {} ELSE {Sum(days)}])
  BY DEF AskDays, Stays
<1> HIDE DEF days
<1>9. CASE scrape' = [scrape EXCEPT !.at = "30d", !.days = days] /\ UNCHANGED <<creditRows, known>>
  <2>1. /\ scrape' = [at |-> scrape'.at, kind |-> scrape'.kind, got |-> scrape'.got, days |-> scrape'.days,
                      token |-> scrape'.token, clean |-> scrape'.clean]
        /\ scrape'.at = "30d" /\ scrape'.kind = scrape.kind /\ scrape'.clean = scrape.clean /\ scrape'.days = days
        /\ scrape'.got = scrape.got
    BY <1>3, <1>9
  <2>2. (Fair("subscription", scrape.got))'
    BY <1>2, <1>3, <2>1 DEF Fair, Sum, account
  <2>3. ScrapeIsFair'
    BY <1>2, <1>3, <1>6, <2>1, <2>2 DEF ScrapeIsFair, account, ConsoleSteps
  <2> QED BY <1>4, <1>9, <2>1, <2>3 DEF CreditInvariant, MeasuredPlanIsKept
<1>10. CASE End([scrape.got EXCEPT !.month = IF DOMAIN days = {} THEN {} ELSE {Sum(days)}])
  <2> DEFINE M == IF DOMAIN days = {} THEN {} ELSE {Sum(days)}
             p == [scrape.got EXCEPT !.month = M]
  <2>1. M \in SUBSET Nat /\ \A n \in M : n <= Sum(spent)
    BY <1>7
  <2> HIDE DEF M
  <2>2. p \in Readings /\ p.month = M /\ p.pct = scrape.got.pct
    BY <1>1, <1>3, <2>1, PayloadsAreSound
  <2>3. End(p)
    BY <1>10 DEF M
  <2> HIDE DEF p
  <2>4. p.is = "data" /\ p \in Payloads /\ scrape.got.is = "data"
    BY <1>3, <2>2 DEF Readings, Payloads
  <2>5. Fair("subscription", p)
    BY <1>3, <2>1, <2>2, <2>4 DEF Fair
  <2>6. RowsAreFair' /\ ScrapeIsFair' /\ creditRows'["subscription"].is = "data" /\ creditRows'["subscription"].pct = p.pct
    BY <1>2, <1>3, <2>3, <2>4, <2>5, EndingIsFair
  <2> QED BY <1>4, <2>2, <2>6 DEF CreditInvariant, MeasuredPlanIsKept
<1> QED BY <1>8, <1>9, <1>10

(* The calls about money, and Command Code's about its plan (fetch_balance). *)
LEMMA MoneyCallsAreFair ==
  ASSUME CreditInvariant, NEW a \in Answers,
         OpenCodeCredits(a) \/ CommandCodeCredits(a) \/ DeepSeekAnswer(a) \/ AskPlan(a)
  PROVE  CreditInvariant' /\ MeasuredPlanIsKept
<1>1. AccountTypes /\ RowsAreFair /\ ScrapeIsFair /\ CacheIsFair
  BY DEF CreditInvariant
<1>2. UNCHANGED <<vendor, account, creditTime>> /\ scrape.at \in {"billing", "plan"}
  BY DEF OpenCodeCredits, CommandCodeCredits, DeepSeekAnswer, AskPlan, Asked
<1>3. /\ scrape # NoScrape /\ scrape.clean \in BOOLEAN
      /\ scrape.at = "billing" => scrape.kind = IF vendor = "commandcode" THEN "subscription" ELSE "balance"
      /\ scrape.at = "plan" => /\ vendor = "commandcode" /\ scrape.kind = "subscription"
                               /\ scrape.clean /\ ~scrape.got.odd => scrape.got.credits = {credits + planLeft}
                               /\ scrape.got \in Readings /\ Fair("subscription", scrape.got) /\ scrape.got.month = {}
      /\ MeasuredPlanIsKept
  BY <1>1, <1>2 DEF ScrapeIsFair, ConsoleSteps, NoScrape, Measured, MeasuredPlanIsKept
<1>4. AccountTypes' /\ (UNCHANGED balanceCache => CacheIsFair') /\ (UNCHANGED <<creditRows, known>> => RowsAreFair')
  BY <1>2, AccountRests
<1>5. /\ PctUsed \in 0..100 /\ credits \in 0..(MaxCredits + FullPlan) /\ credits + planLeft \in 0..(MaxCredits + FullPlan)
      /\ creditTime \in Nat
  BY <1>1, PercentIsOne, CreditAssumption DEF AccountTypes
<1>6. /\ \A e \in {"auth_failed", "api_error"} : Bad(e) \in Errors
      /\ \A p \in Readings : p.is = "data" /\ p \in Payloads
      /\ \A n \in 0..(MaxCredits + FullPlan) :
           /\ Money(a, n) \in Readings /\ Money(a, n).pct = {} /\ Money(a, n).month = {}
           /\ Money(a, n).since = creditTime
           /\ ~Money(a, n).odd => Money(a, n).credits = {n}
  <2>1. \A p \in Readings : p.is = "data" /\ p \in Payloads
    BY DEF Readings, Payloads
  <2> QED BY <1>1, <2>1, PayloadsAreSound
<1>7. ASSUME NEW e \in {"auth_failed", "api_error"}, End(Bad(e)), vendor # "deepseek"
      PROVE  RowsAreFair' /\ ScrapeIsFair'
  <2>1. Fair(scrape.kind, Bad(e)) /\ Bad(e).is # "data"
    BY <1>1, <1>6, <1>7, ErrorsAreFair
  <2> QED BY <1>2, <1>3, <1>7, <2>1, EndingIsFair
<1>8. CASE OpenCodeCredits(a)
  <2>1. scrape.at = "billing" /\ vendor = "opencode" /\ scrape.kind = "balance" /\ UNCHANGED balanceCache
    BY <1>3, <1>8 DEF OpenCodeCredits, Asked
  <2>2. End(Money(a, credits)) \/ \E e \in {"auth_failed", "api_error"} : End(Bad(e))
    BY <1>8 DEF OpenCodeCredits
  <2>3. ASSUME End(Money(a, credits)) PROVE RowsAreFair' /\ ScrapeIsFair'
    <3> DEFINE p == Money(a, credits)
    <3>1. p \in Readings /\ p.pct = {} /\ (~p.odd => p.credits = {credits}) /\ p \in Payloads
      BY <1>5, <1>6
    <3>2. End(p)
      BY <2>3
    <3> HIDE DEF p
    <3>3. Fair("balance", p)
      BY <3>1 DEF Fair
    <3> QED BY <1>2, <1>3, <2>1, <3>1, <3>2, <3>3, EndingIsFair DEF Owed
  <2> QED BY <1>3, <1>4, <1>7, <2>1, <2>2, <2>3 DEF CreditInvariant
<1>9. CASE CommandCodeCredits(a)
  <2>1. scrape.at = "billing" /\ vendor = "commandcode" /\ scrape.kind = "subscription" /\ UNCHANGED balanceCache
    BY <1>3, <1>9 DEF CommandCodeCredits, Asked
  <2>2. \/ GoOn("plan", Money(a, credits + planLeft)) /\ UNCHANGED <<creditRows, known>>
        \/ End(Bad("auth_failed"))
    BY <1>9 DEF CommandCodeCredits, Stays
  <2>3. ASSUME GoOn("plan", Money(a, credits + planLeft)) PROVE ScrapeIsFair'
    <3> DEFINE p == Money(a, credits + planLeft)
    <3>1. p \in Readings /\ p.pct = {} /\ p.month = {} /\ (~p.odd => p.credits = {credits + planLeft}) /\ p \in Payloads
      BY <1>5, <1>6
    <3>2. GoOn("plan", p)
      BY <2>3
    <3> HIDE DEF p
    <3>3. Fair("subscription", p)
      BY <2>1, <3>1 DEF Fair
    <3> QED BY <1>2, <1>3, <2>1, <3>1, <3>2, <3>3, GoingOnIsFair
  <2> QED BY <1>3, <1>4, <1>7, <2>1, <2>2, <2>3 DEF CreditInvariant
<1>10. CASE DeepSeekAnswer(a)
  <2>1. scrape.at = "billing" /\ vendor = "deepseek" /\ scrape.kind = "balance"
    BY <1>3, <1>10 DEF DeepSeekAnswer
  <2>2. \/ End(Money(a, credits)) /\ balanceCache' = [reading |-> Money(a, credits), at |-> creditTime]
        \/ End(NoPayload) /\ UNCHANGED balanceCache
    BY <1>10 DEF DeepSeekAnswer
  <2>3. CASE End(Money(a, credits)) /\ balanceCache' = [reading |-> Money(a, credits), at |-> creditTime]
    <3> DEFINE p == Money(a, credits)
    <3>1. p \in Readings /\ p.pct = {} /\ (~p.odd => p.credits = {credits}) /\ p \in Payloads /\ p.since = creditTime
      BY <1>5, <1>6
    <3>2. End(p) /\ balanceCache' = [reading |-> p, at |-> creditTime]
      BY <2>3
    <3> HIDE DEF p
    <3>3. Fair("balance", p) /\ creditTime - p.since < BalanceTTL
      BY <1>5, <3>1, CreditAssumption DEF Fair
    <3>4. RowsAreFair' /\ ScrapeIsFair'
      BY <1>2, <1>3, <2>1, <3>1, <3>2, <3>3, EndingIsFair DEF Owed
    <3>5. CacheIsFair'
      BY <1>2, <1>5, <3>1, <3>2, <3>3 DEF CacheIsFair, Fair
    <3> QED BY <1>3, <1>4, <3>4, <3>5 DEF CreditInvariant
  <2>4. CASE End(NoPayload) /\ UNCHANGED balanceCache
    <3>1. Fair("balance", NoPayload) /\ NoPayload.is # "data"
      BY <1>1, ErrorsAreFair
    <3>2. RowsAreFair' /\ ScrapeIsFair'
      BY <1>2, <1>3, <2>1, <2>4, <3>1, EndingIsFair
    <3> QED BY <1>3, <1>4, <2>4, <3>2 DEF CreditInvariant
  <2> QED BY <2>2, <2>3, <2>4
<1>11. CASE AskPlan(a)
  <2> DEFINE P == IF a = "ok" /\ plan # "none" THEN {PctUsed} ELSE {0}
             p == [scrape.got EXCEPT !.pct = P]
  <2>1. scrape.at = "plan" /\ UNCHANGED balanceCache /\ End(p)
    BY <1>11 DEF AskPlan, Asked
  <2>2. P \in SUBSET (0..100)
    BY <1>5
  <2> HIDE DEF P
  <2>3. p \in Readings /\ p.month = {} /\ p.odd = scrape.got.odd /\ p.credits = scrape.got.credits
    <3>1. \A x \in Readings : \A X \in SUBSET (0..100) :
             /\ [x EXCEPT !.pct = X] \in Readings /\ [x EXCEPT !.pct = X].month = x.month
             /\ [x EXCEPT !.pct = X].odd = x.odd /\ [x EXCEPT !.pct = X].credits = x.credits
      BY DEF Readings
    <3>2. scrape.got \in Readings /\ scrape.got.month = {}
      BY <1>3, <2>1
    <3> QED BY <2>2, <3>1, <3>2
  <2> HIDE DEF p
  <2>4. Fair("subscription", p) /\ vendor = "commandcode" /\ scrape.kind = "subscription" /\ p.is = "data"
    BY <1>3, <1>6, <2>1, <2>3 DEF Fair
  <2>5. scrape.clean /\ ~p.odd => p.credits = {Owed("subscription")}
    BY <1>3, <2>1, <2>3 DEF Owed
  <2>6. RowsAreFair' /\ ScrapeIsFair'
    BY <1>2, <1>3, <2>1, <2>4, <2>5, EndingIsFair
  <2> QED BY <1>3, <1>4, <2>1, <2>6 DEF CreditInvariant
<1> QED BY <1>8, <1>9, <1>10, <1>11

(* The account changes under the scrape, and time passes.                    *)
LEMMA AccountsChangeFairly ==
  ASSUME CreditInvariant,
         TopUp \/ SessionChanges \/ CreditTick \/ \E d \in Days, ofPlan \in BOOLEAN : Spend(d, ofPlan)
  PROVE  CreditInvariant' /\ MeasuredPlanIsKept
<1>1. AccountTypes /\ RowsAreFair /\ ScrapeIsFair /\ CacheIsFair
  BY DEF CreditInvariant
<1>2. UNCHANGED <<vendor, plan, creditRows, balanceCache>>
  BY DEF TopUp, SessionChanges, CreditTick, Spend, AccountChanges, account
<1>3. /\ AccountTypes' /\ creditTime' >= creditTime
      /\ \A d \in Days : spent'[d] >= spent[d]
  <2>1. CASE TopUp
    BY <1>1, <2>1, CreditAssumption DEF TopUp, AccountChanges, AccountTypes
  <2>2. CASE SessionChanges
    BY <1>1, <2>2 DEF SessionChanges, AccountTypes
  <2>3. CASE CreditTick
    BY <1>1, <2>3 DEF CreditTick, AccountTypes, account
  <2>4. ASSUME NEW d \in Days, NEW ofPlan \in BOOLEAN, Spend(d, ofPlan)
        PROVE  AccountTypes' /\ creditTime' >= creditTime /\ \A e \in Days : spent'[e] >= spent[e]
    BY <1>1, <2>4, CreditAssumption DEF Spend, AccountChanges, AccountTypes
  <2> QED BY <2>1, <2>2, <2>3, <2>4
<1>4. Sum(spent') >= Sum(spent) /\ Sum(spent) \in Nat /\ Sum(spent') \in Nat
  BY <1>1, <1>3 DEF Sum, Days, AccountTypes
<1>5. ASSUME NEW k, NEW p, Fair(k, p)
      PROVE  Fair(k, p)'
  <2>1. p \in Payloads /\ p \in Payloads'
    BY <1>5 DEF Fair, Payloads, Readings, Errors, NoPayload
  <2>2. k = "subscription" /\ p.is = "data" => \A n \in p.month : n \in Nat /\ n <= Sum(spent)
    BY <1>5, <2>1 DEF Fair, Payloads, Readings, Errors, NoPayload
  <2> QED BY <1>2, <1>4, <1>5, <2>1, <2>2 DEF Fair
<1>6. CacheIsFair'
  <2>1. Fair("balance", balanceCache.reading)'
    BY <1>1, <1>2, <1>5 DEF CacheIsFair, Fair, Payloads, Readings, Errors, NoPayload
  <2>2. creditTime \in Nat /\ creditTime' \in Nat
    BY <1>1, <1>3 DEF AccountTypes
  <2> QED BY <1>1, <1>2, <1>3, <2>1, <2>2 DEF CacheIsFair
<1>7. (\A k \in PayloadKinds : Fair(k, creditRows[k]))'
  <2>1. \A k \in PayloadKinds : Fair(k, creditRows[k])
    BY <1>1 DEF RowsAreFair
  <2>2. ASSUME NEW k \in PayloadKinds PROVE Fair(k, creditRows[k])'
    <3>1. PICK p : p = creditRows[k]
      OBVIOUS
    <3>2. Fair(k, p)'
      BY <1>5, <2>1, <3>1
    <3>3. creditRows'[k] = p
      BY <1>2, <3>1
    <3> QED BY <3>2, <3>3 DEF Fair
  <2> QED BY <2>2
<1>8. \/ known' = {}
      \/ known' = known /\ credits' = credits /\ planLeft' = planLeft
  BY DEF TopUp, SessionChanges, CreditTick, Spend, AccountChanges, account
<1>9. RowsAreFair'
  <2>1. (vendor = "deepseek" /\ Balance.is = "data" => Balance.stored - Balance.since < BalanceTTL)'
    BY <1>1, <1>2 DEF RowsAreFair, Balance
  <2>2. (\A k \in known : /\ creditRows[k].is = "data"
                          /\ k = "balance" \/ vendor = "commandcode" => creditRows[k].credits = {Owed(k)})'
    BY <1>1, <1>2, <1>8 DEF RowsAreFair, Owed
  <2> QED BY <1>1, <1>2, <1>7, <1>8, <2>1, <2>2 DEF RowsAreFair
<1>10. \/ scrape' = scrape /\ ((credits' = credits /\ planLeft' = planLeft) \/ scrape = NoScrape)
       \/ scrape # NoScrape /\ scrape' = [scrape EXCEPT !.clean = FALSE]
  BY DEF TopUp, SessionChanges, CreditTick, Spend, AccountChanges, account
<1>11. CASE scrape = NoScrape
  <2>1. scrape' = NoScrape
    BY <1>10, <1>11
  <2>2. NoScrape.at = "idle"
    BY DEF NoScrape
  <2> QED BY <1>3, <1>6, <1>9, <1>11, <2>1, <2>2 DEF CreditInvariant, ScrapeIsFair, MeasuredPlanIsKept
<1>12. CASE scrape # NoScrape
  <2>1. /\ scrape = [at |-> scrape.at, kind |-> scrape.kind, got |-> scrape.got, days |-> scrape.days,
                     token |-> scrape.token, clean |-> scrape.clean]
        /\ scrape.clean \in BOOLEAN
    BY <1>1, <1>12 DEF ScrapeIsFair
  <2>2. /\ scrape' = [at |-> scrape'.at, kind |-> scrape'.kind, got |-> scrape'.got, days |-> scrape'.days,
                      token |-> scrape'.token, clean |-> scrape'.clean]
        /\ scrape'.at = scrape.at /\ scrape'.kind = scrape.kind /\ scrape'.got = scrape.got
        /\ scrape'.days = scrape.days /\ scrape'.clean \in BOOLEAN
        /\ scrape'.clean => scrape.clean /\ credits' = credits /\ planLeft' = planLeft
    BY <1>10, <1>12, <2>1
  <2>3. scrape.at \in Measured => Fair("subscription", scrape.got)' /\ scrape.got \in Readings /\ scrape.got.month = {}
    <3> SUFFICES ASSUME scrape.at \in Measured
                 PROVE  Fair("subscription", scrape.got)' /\ scrape.got \in Readings /\ scrape.got.month = {}
      OBVIOUS
    <3>1. Fair("subscription", scrape.got) /\ scrape.got \in Readings /\ scrape.got.month = {}
      BY <1>1, <1>12 DEF ScrapeIsFair
    <3>2. PICK p : p = scrape.got
      OBVIOUS
    <3>3. Fair("subscription", p)'
      BY <1>5, <3>1, <3>2
    <3>4. scrape'.got = p
      BY <2>2, <3>2
    <3> QED BY <3>1, <3>3, <3>4 DEF Fair
  <2>4. scrape.at \in {"all", "30d"} =>
          /\ DOMAIN scrape.days \subseteq Days
          /\ \A d \in DOMAIN scrape.days : scrape.days[d] \in Nat /\ scrape.days[d] <= spent'[d]
    <3>1. \A d \in Days : spent[d] \in Nat /\ spent'[d] \in Nat
      BY <1>1, <1>3 DEF AccountTypes
    <3> QED BY <1>1, <1>3, <1>12, <3>1 DEF ScrapeIsFair
  <2>5. scrape.at \notin {"all", "30d"} => DOMAIN scrape.days = {}
    BY <1>1, <1>12 DEF ScrapeIsFair
  <2>6. \/ scrape.at \in ConsoleSteps /\ vendor = "opencode" /\ scrape.kind = "subscription"
        \/ scrape.at = "billing" /\ scrape.kind = IF vendor = "commandcode" THEN "subscription" ELSE "balance"
        \/ scrape.at = "plan" /\ vendor = "commandcode" /\ scrape.kind = "subscription"
           /\ (scrape.clean /\ ~scrape.got.odd => scrape.got.credits = {credits + planLeft})
    BY <1>1, <1>12 DEF ScrapeIsFair
  <2>7. ScrapeIsFair'
    BY <1>2, <2>2, <2>3, <2>4, <2>5, <2>6 DEF ScrapeIsFair
  <2>8. MeasuredPlanIsKept
    BY <2>2 DEF MeasuredPlanIsKept
  <2> QED BY <1>3, <1>6, <1>9, <2>7, <2>8 DEF CreditInvariant
<1> QED BY <1>11, <1>12

LEMMA CreditStays ==
  ASSUME CreditInvariant, [CreditNext]_creditVars
  PROVE  CreditInvariant' /\ (MeasuredPlanIsKept \/ UNCHANGED creditVars)
<1>1. CASE OpenCodeSubscription \/ OpenCodeBalance \/ CommandCodeSubscription \/ CommandCodeBalance \/ DeepSeekBalance
  <2>1. scrape = NoScrape
    BY <1>1 DEF OpenCodeSubscription, OpenCodeBalance, CommandCodeSubscription, CommandCodeBalance, DeepSeekBalance, FetchBegins
  <2>2. MeasuredPlanIsKept
    BY <2>1 DEF MeasuredPlanIsKept, NoScrape
  <2> QED BY <1>1, <2>2, FetchesBeginFairly
<1>2. ASSUME NEW a \in Answers,
             \/ AskGo(a) \/ AskBudget(a) \/ AskSummary(a) \/ AskPlan(a)
             \/ OpenCodeCredits(a) \/ CommandCodeCredits(a) \/ DeepSeekAnswer(a)
             \/ \E reach \in SUBSET Days : AskDays(a, reach)
      PROVE  CreditInvariant' /\ MeasuredPlanIsKept
  BY <1>2, PlanCallsAreFair, MoneyCallsAreFair, DaysAreFair
<1>3. CASE TopUp \/ SessionChanges \/ CreditTick \/ \E d \in Days, ofPlan \in BOOLEAN : Spend(d, ofPlan)
  BY <1>3, AccountsChangeFairly
<1>4. CASE UNCHANGED creditVars
  <2>1. UNCHANGED <<vendor, account, creditTime, creditRows, known, scrape, balanceCache>>
    BY <1>4 DEF creditVars
  <2> QED BY <1>4, <2>1, AccountRests DEF CreditInvariant
<1> QED BY <1>1, <1>2, <1>3, <1>4 DEF CreditNext

LEMMA CreditIsFollowed ==
  ASSUME CreditInvariant
  PROVE  CreditFollowsTheAccount
<1>1. AccountTypes /\ RowsAreFair
  BY DEF CreditInvariant
<1>2. /\ Fair("balance", Balance) /\ Fair("subscription", Subscription)
      /\ \A k \in PayloadKinds : Fair(k, creditRows[k])
  BY <1>1 DEF RowsAreFair, PayloadKinds, Balance, Subscription
<1>3. \A p \in Payloads : p.is = "data" => p \in Readings
  BY <1>1, PayloadsAreSound
<1>4. CreditTypeOK
  BY <1>2, <1>3 DEF CreditTypeOK, Fair, Readings
<1>5. /\ "balance" \in known => Balance.is = "data" /\ Balance.credits = {credits}
      /\ vendor = "commandcode" /\ "subscription" \in known => Subscription.is = "data" /\ Subscription.credits = {credits + planLeft}
  BY <1>1 DEF RowsAreFair, Owed, Balance, Subscription
<1>6. credits \in Nat /\ planLeft \in Nat
  BY <1>1, CreditAssumption DEF AccountTypes
<1>7. VerdictMatchesTheAccount
  <2>1. CASE vendor = "opencode" /\ "balance" \in known
    <3>1. CreditStatus = OpenCodeStatus
      BY <2>1 DEF CreditStatus
    <3>2. Holds(Balance, 1) <=> credits > 1
      BY <1>5, <2>1 DEF Holds
    <3>3. Short(Balance, 1) <=> credits <= 1
      BY <1>5, <2>1 DEF Short
    <3>4. credits > 1 => OpenCodeStatus = "funded"
      BY <3>2 DEF OpenCodeStatus
    <3>5. credits <= 1 => OpenCodeStatus = "drained"
      <4> SUFFICES ASSUME credits <= 1 PROVE OpenCodeStatus = "drained"
        OBVIOUS
      <4>1. ~Holds(Balance, 1) /\ Short(Balance, 1)
        BY <1>6, <3>2, <3>3
      <4> QED BY <4>1 DEF OpenCodeStatus
    <3> QED BY <1>6, <2>1, <3>1, <3>4, <3>5 DEF VerdictMatchesTheAccount
  <2>2. CASE vendor = "commandcode" /\ "subscription" \in known
    <3>1. CreditStatus = CommandCodeStatus
      BY <2>2 DEF CreditStatus
    <3>2. Holds(Subscription, 5) <=> credits + planLeft > 5
      BY <1>5, <2>2 DEF Holds
    <3>3. Short(Subscription, 5) <=> credits + planLeft <= 5
      BY <1>5, <2>2 DEF Short
    <3>4. Subscription.is # "error"
      BY <1>5, <2>2
    <3> QED BY <1>6, <2>2, <3>1, <3>2, <3>3, <3>4 DEF VerdictMatchesTheAccount, CommandCodeStatus
  <2>3. CASE vendor = "deepseek" /\ "balance" \in known
    <3>1. CreditStatus = DeepSeekStatus
      BY <2>3 DEF CreditStatus
    <3>2. Holds(Balance, 1) <=> credits > 1
      BY <1>5, <2>3 DEF Holds
    <3>3. Short(Balance, 1) <=> credits <= 1
      BY <1>5, <2>3 DEF Short
    <3> QED BY <1>6, <2>3, <3>1, <3>2, <3>3 DEF VerdictMatchesTheAccount, DeepSeekStatus
  <2> QED BY <2>1, <2>2, <2>3 DEF VerdictMatchesTheAccount
<1>8. NoBarWithoutALimit
  BY <1>2 DEF NoBarWithoutALimit, Fair
<1>9. MonthCountsDaysOnce
  BY <1>2 DEF MonthCountsDaysOnce, Fair
<1>10. BalanceIsRecent
  BY <1>1 DEF BalanceIsRecent, RowsAreFair
<1> QED BY <1>4, <1>7, <1>8, <1>9, <1>10 DEF CreditFollowsTheAccount

-----------------------------------------------------------------------------
(* The price rows: which row a name resolves to, and what it bills.          *)

Rows == PriceRows \cup {NoPriceRow}
Hits(model, providers) == {i \in DOMAIN prices : prices[i].model = model /\ prices[i].provider \in providers}

(* What a bill says of what it was asked, of each of the three kinds.        *)
PriceIsResolved ==
  bill.of = "price" => /\ bill.provider \in {"p", "q"} /\ bill.model \in Names
                       /\ bill.row = ResolvePricing(bill.provider, bill.model)
PricingInvariant ==
  /\ prices \in Seq(PriceRows)
  /\ PriceIsResolved /\ PromptIsBilledOnce /\ PeakHoursOnly

(* The least of the positions that are hit.                                  *)
LEMMA FirstHit ==
  ASSUME NEW n \in Nat, NEW H, H \subseteq 1..n, H # {}
  PROVE  /\ (CHOOSE i \in H : \A j \in H : i <= j) \in H
         /\ \A j \in H : (CHOOSE i \in H : \A k \in H : i <= k) <= j
<1>1. \E i \in H : \A j \in H : i <= j
  BY BoundsAreReached
<1> QED BY <1>1

(* A row that is found carries the name and a provider that was looked for.  *)
LEMMA FoundRowsFit ==
  ASSUME prices \in Seq(PriceRows), NEW model, NEW providers
  PROVE  /\ Find(model, providers) \in Rows
         /\ Find(model, providers) # NoPriceRow =>
              /\ Find(model, providers).model = model /\ Find(model, providers).provider \in providers
         /\ Find(model, providers) = NoPriceRow <=> Hits(model, providers) = {}
<1> DEFINE H == Hits(model, providers)
           f == CHOOSE i \in H : \A j \in H : i <= j
<1>1. H \subseteq 1..Len(prices) /\ Len(prices) \in Nat /\ \A i \in 1..Len(prices) : prices[i] \in PriceRows
  BY DEF Hits
<1>2. H # {} => f \in H
  BY <1>1, FirstHit
<1>3. Find(model, providers) = IF H = {} THEN NoPriceRow ELSE prices[f]
  BY DEF Find, Hits
<1>4. NoPriceRow \notin PriceRows
  <2>1. \A r \in PriceRows : r.provider \in {"p", "q", "*"}
    BY DEF PriceRows, PriceRow
  <2>2. NoPriceRow.provider = "none"
    BY DEF NoPriceRow, PriceRow
  <2> QED BY <2>1, <2>2
<1>5. H # {} => prices[f] \in PriceRows /\ prices[f].model = model /\ prices[f].provider \in providers
  BY <1>1, <1>2 DEF Hits
<1> HIDE DEF f, H
<1>6. H = Hits(model, providers)
  BY DEF H
<1> QED BY <1>3, <1>4, <1>5, <1>6 DEF Rows

(* The first row there is (resolve_pricing).                                 *)
LEMMA FirstOfIsFirst ==
  ASSUME NEW s \in Seq(Rows)
  PROVE  /\ FirstOf(s) = NoPriceRow <=> \A i \in DOMAIN s : s[i] = NoPriceRow
         /\ FirstOf(s) # NoPriceRow =>
              \E i \in DOMAIN s : FirstOf(s) = s[i] /\ \A j \in DOMAIN s : j < i => s[j] = NoPriceRow
<1> DEFINE H == {i \in DOMAIN s : s[i] # NoPriceRow}
           f == CHOOSE i \in H : \A j \in H : i <= j
<1>1. H \subseteq 1..Len(s) /\ Len(s) \in Nat /\ DOMAIN s = 1..Len(s)
  OBVIOUS
<1>2. H # {} => f \in H /\ \A j \in H : f <= j
  BY <1>1, FirstHit
<1>3. FirstOf(s) = IF H = {} THEN NoPriceRow ELSE s[f]
  BY DEF FirstOf
<1>4. CASE H = {}
  BY <1>3, <1>4
<1>5. CASE H # {}
  <2>1. f \in DOMAIN s /\ s[f] # NoPriceRow /\ FirstOf(s) = s[f]
    BY <1>2, <1>3, <1>5
  <2>2. \A j \in DOMAIN s : j < f => s[j] = NoPriceRow
    <3> SUFFICES ASSUME NEW j \in DOMAIN s, j < f, s[j] # NoPriceRow PROVE FALSE
      OBVIOUS
    <3>1. j \in H
      OBVIOUS
    <3>2. f <= j
      BY <1>2, <1>5, <3>1
    <3>3. f \in Int /\ j \in Int
      BY <1>1, <2>1
    <3> HIDE DEF f
    <3> QED BY <3>2, <3>3
  <2> HIDE DEF f, H
  <2> QED BY <2>1, <2>2
<1> QED BY <1>4, <1>5

LEMMA FiveInARow ==
  ASSUME NEW u, NEW v, NEW w, NEW x, NEW y
  PROVE  <<u>> \o <<v, w>> \o <<x, y>> = <<u, v, w, x, y>>
<1> DEFINE S == {u, v, w, x, y}
           a == <<u>> \o <<v, w>>
           b == a \o <<x, y>>
           c == <<u, v, w, x, y>>
<1>1. <<u>> \in Seq(S) /\ <<v, w>> \in Seq(S) /\ <<x, y>> \in Seq(S) /\ c \in Seq(S)
  OBVIOUS
<1>2. /\ Len(<<u>>) = 1 /\ <<u>>[1] = u /\ Len(<<v, w>>) = 2 /\ <<v, w>>[1] = v /\ <<v, w>>[2] = w
      /\ Len(<<x, y>>) = 2 /\ <<x, y>>[1] = x /\ <<x, y>>[2] = y
      /\ Len(c) = 5 /\ c[1] = u /\ c[2] = v /\ c[3] = w /\ c[4] = x /\ c[5] = y
  OBVIOUS
<1> HIDE DEF S, c
<1>3. a \in Seq(S) /\ Len(a) = 3 /\ a[1] = u /\ a[2] = v /\ a[3] = w
  BY <1>1, <1>2, ConcatProperties
<1> HIDE DEF a
<1>4. b \in Seq(S) /\ Len(b) = 5 /\ b[1] = u /\ b[2] = v /\ b[3] = w /\ b[4] = x /\ b[5] = y
  <2> DEFINE t == <<x, y>>
  <2>1. t \in Seq(S) /\ Len(t) = 2 /\ t[1] = x /\ t[2] = y
    BY <1>1
  <2> HIDE DEF t
  <2>2. a \o t \in Seq(S) /\ Len(a \o t) = 5 /\ \A i \in 1..5 : (a \o t)[i] = IF i <= 3 THEN a[i] ELSE t[i - 3]
    <3>1. /\ a \o t \in Seq(S) /\ Len(a \o t) = Len(a) + Len(t)
          /\ \A i \in 1..(Len(a) + Len(t)) : (a \o t)[i] = IF i <= Len(a) THEN a[i] ELSE t[i - Len(a)]
      BY <1>3, <2>1, ConcatProperties
    <3>2. Len(a) = 3 /\ Len(t) = 2
      BY <1>3, <2>1
    <3> QED BY <3>1, <3>2
  <2>3. b = a \o t
    BY DEF t
  <2> HIDE DEF b
  <2> QED BY <1>3, <2>1, <2>2, <2>3
<1> HIDE DEF b
<1>5. \A i \in 1..5 : b[i] = c[i]
  BY <1>2, <1>4
<1>6. b = c
  BY <1>1, <1>2, <1>4, <1>5, SeqEqual
<1> QED BY <1>6 DEF a, b, c

(* The rows in the order in which they are looked for: the provider's own    *)
(* under the model's name, its own under the canonical names, and anybody's. *)
LEMMA RowsAreSoughtInOrder ==
  ASSUME prices \in Seq(PriceRows), NEW provider \in {"p", "q"}, NEW model \in Names
  PROVE  LET own(n) == Find(n, PricedFor(provider))
             any(n) == Find(n, AnyProvider) IN
         /\ model \in {"raw", "logical"} =>
              ResolvePricing(provider, model) =
                FirstOf(<<own(model), own("logical"), own("bench"), any("logical"), any("bench")>>)
         /\ model \notin {"raw", "logical"} => ResolvePricing(provider, model) = FirstOf(<<own(model)>>)
<1> DEFINE own(n) == Find(n, PricedFor(provider))
           any(n) == Find(n, AnyProvider)
<1>1. CASE model \in {"raw", "logical"}
  <2> DEFINE names == <<"logical", "bench">>
             a == [i \in DOMAIN names |-> own(names[i])]
             b == [i \in DOMAIN names |-> any(names[i])]
  <2>1. Canonical(model) = names
    BY <1>1 DEF Canonical
  <2>2. ResolvePricing(provider, model) = FirstOf(<<own(model)>> \o a \o b)
    BY <2>1 DEF ResolvePricing
  <2>3. DOMAIN names = 1..2 /\ names[1] = "logical" /\ names[2] = "bench"
    OBVIOUS
  <2>4. a = <<own("logical"), own("bench")>> /\ b = <<any("logical"), any("bench")>>
    BY <2>3
  <2> HIDE DEF a, b, own, any
  <2>5. <<own(model)>> \o a \o b = <<own(model), own("logical"), own("bench"), any("logical"), any("bench")>>
    BY <2>4, FiveInARow
  <2> QED BY <1>1, <2>2, <2>5 DEF own, any
<1>2. CASE model \notin {"raw", "logical"}
  <2>1. Canonical(model) = <<>>
    BY <1>2 DEF Canonical
  <2> DEFINE a == [i \in DOMAIN <<>> |-> own(<<>>[i])]
             b == [i \in DOMAIN <<>> |-> any(<<>>[i])]
  <2>2. ResolvePricing(provider, model) = FirstOf(<<own(model)>> \o a \o b)
    BY <2>1 DEF ResolvePricing
  <2>3. a = <<>> /\ b = <<>>
    OBVIOUS
  <2> HIDE DEF a, b, own, any
  <2>4. <<own(model)>> \o a \o b = <<own(model)>>
    BY <2>3
  <2> QED BY <1>2, <2>2, <2>4 DEF own, any
<1> QED BY <1>1, <1>2

(* What a model is priced at (resolve_pricing).                              *)
LEMMA PricesAreRight ==
  ASSUME prices \in Seq(PriceRows), PriceIsResolved
  PROVE  EverySpellingIsPriced /\ OwnRateBeforeOthers
<1> SUFFICES ASSUME bill.of = "price" PROVE EverySpellingIsPriced /\ OwnRateBeforeOthers
  BY DEF EverySpellingIsPriced, OwnRateBeforeOthers
<1> DEFINE own(n) == Find(n, PricedFor(bill.provider))
           any(n) == Find(n, AnyProvider)
           row == bill.row
           fits(i) == prices[i].provider \in {"*", bill.provider}
<1>1. bill.provider \in {"p", "q"} /\ bill.model \in Names /\ row = ResolvePricing(bill.provider, bill.model)
  BY DEF PriceIsResolved
<1>2. /\ AnyProvider = {"p", "q", "*"} /\ PricedFor(bill.provider) = {"*", bill.provider}
      /\ \A i \in DOMAIN prices : prices[i].provider \in {"p", "q", "*"}
  <2>1. PriceRow("p", "raw") \in PriceRows /\ PriceRow("q", "raw") \in PriceRows /\ PriceRow("*", "raw") \in PriceRows
    BY DEF PriceRows, Names
  <2>2. \A r \in PriceRows : r.provider \in {"p", "q", "*"}
    BY DEF PriceRows, PriceRow
  <2>3. \A x : PriceRow(x, "raw").provider = x
    BY DEF PriceRow
  <2>4. AnyProvider = {"p", "q", "*"}
    BY <2>1, <2>2, <2>3 DEF AnyProvider
  <2>5. \A i \in DOMAIN prices : prices[i] \in PriceRows
    OBVIOUS
  <2> QED BY <2>2, <2>4, <2>5 DEF PricedFor
<1>3. /\ \A n : own(n) \in Rows
      /\ \A n : own(n) # NoPriceRow => own(n).model = n /\ own(n).provider \in {"*", bill.provider}
      /\ \A n : own(n) = NoPriceRow <=> \A i \in DOMAIN prices : ~(prices[i].model = n /\ fits(i))
  BY <1>2, FoundRowsFit DEF Hits
<1>4. /\ \A n : any(n) \in Rows
      /\ \A n : any(n) # NoPriceRow => any(n).model = n
      /\ \A n : any(n) = NoPriceRow <=> \A i \in DOMAIN prices : prices[i].model # n
  BY <1>2, FoundRowsFit DEF Hits
<1>5. CASE bill.model \in {"raw", "logical"}
  <2> DEFINE s == <<own(bill.model), own("logical"), own("bench"), any("logical"), any("bench")>>
  <2>1. row = FirstOf(s)
    BY <1>1, <1>5, RowsAreSoughtInOrder
  <2>2. /\ s \in Seq(Rows) /\ DOMAIN s = 1..5
        /\ s[1] = own(bill.model) /\ s[2] = own("logical") /\ s[3] = own("bench")
        /\ s[4] = any("logical") /\ s[5] = any("bench")
    <3> HIDE DEF own, any
    <3> QED BY <1>3, <1>4
  <2> HIDE DEF s
  <2>3. /\ row = NoPriceRow <=> \A i \in 1..5 : s[i] = NoPriceRow
        /\ row # NoPriceRow => \E i \in 1..5 : row = s[i] /\ \A j \in 1..5 : j < i => s[j] = NoPriceRow
    BY <2>1, <2>2, FirstOfIsFirst
  <2> HIDE DEF own, any, row
  <2>4. row = NoPriceRow <=> /\ own(bill.model) = NoPriceRow /\ own("logical") = NoPriceRow /\ own("bench") = NoPriceRow
                             /\ any("logical") = NoPriceRow /\ any("bench") = NoPriceRow
    <3>1. 1..5 = {1, 2, 3, 4, 5}
      OBVIOUS
    <3> QED BY <2>2, <2>3, <3>1
  <2>5. row # NoPriceRow /\ row.provider \notin {"*", bill.provider} =>
          own(bill.model) = NoPriceRow /\ own("logical") = NoPriceRow /\ own("bench") = NoPriceRow
    <3> SUFFICES ASSUME row # NoPriceRow, row.provider \notin {"*", bill.provider}
                 PROVE  own(bill.model) = NoPriceRow /\ own("logical") = NoPriceRow /\ own("bench") = NoPriceRow
      OBVIOUS
    <3>1. PICK i \in 1..5 : row = s[i] /\ \A j \in 1..5 : j < i => s[j] = NoPriceRow
      BY <2>3
    <3>2. i # 1 /\ i # 2 /\ i # 3
      BY <1>3, <2>2, <3>1
    <3>3. 1 \in 1..5 /\ 2 \in 1..5 /\ 3 \in 1..5 /\ 1 < i /\ 2 < i /\ 3 < i
      BY <3>2
    <3> QED BY <2>2, <3>1, <3>3
  <2>6. row # NoPriceRow <=>
          \E i \in DOMAIN prices :
            \/ prices[i].model = bill.model /\ prices[i].provider \in {"*", bill.provider}
            \/ bill.model \in {"raw", "logical"} /\ prices[i].model \in {"logical", "bench"}
    BY <1>3, <1>4, <1>5, <2>4
  <2>7. EverySpellingIsPriced
    BY <2>6 DEF EverySpellingIsPriced, row
  <2>8. row # NoPriceRow /\ row.provider \notin {"*", bill.provider} =>
          \A i \in DOMAIN prices : fits(i) => prices[i].model # bill.model /\ prices[i].model \notin {"logical", "bench"}
    BY <1>3, <2>5
  <2>9. OwnRateBeforeOthers
    BY <2>8 DEF OwnRateBeforeOthers, row
  <2> QED BY <2>7, <2>9
<1>6. CASE bill.model \notin {"raw", "logical"}
  <2> DEFINE s == <<own(bill.model)>>
  <2>1. row = FirstOf(s)
    BY <1>1, <1>6, RowsAreSoughtInOrder
  <2>2. s \in Seq(Rows) /\ DOMAIN s = {1} /\ s[1] = own(bill.model)
    <3> HIDE DEF own, any
    <3> QED BY <1>3
  <2> HIDE DEF s
  <2>3. row = own(bill.model)
    BY <2>1, <2>2, FirstOfIsFirst
  <2> HIDE DEF own, any, row
  <2>4. row # NoPriceRow <=>
          \E i \in DOMAIN prices :
            \/ prices[i].model = bill.model /\ prices[i].provider \in {"*", bill.provider}
            \/ bill.model \in {"raw", "logical"} /\ prices[i].model \in {"logical", "bench"}
    BY <1>3, <1>6, <2>3
  <2>5. row # NoPriceRow => row.provider \in {"*", bill.provider}
    BY <1>3, <2>3
  <2> QED BY <2>4, <2>5 DEF EverySpellingIsPriced, OwnRateBeforeOthers, row
<1> QED BY <1>5, <1>6

(* The tokens of a prompt (read_cache_hit_tokens).                           *)
LEMMA TokensAreBilledOnce ==
  ASSUME NEW prompt \in 0..MaxTokens, NEW h \in 0..MaxTokens, NEW fields \in SUBSET FieldSet,
         NEW withMiss \in BOOLEAN, NEW junk \in BOOLEAN, NEW hitField \in FieldSet \cup {"none"},
         BillTokens(prompt, h, fields, withMiss, junk, hitField)
  PROVE  PromptIsBilledOnce'
<1> DEFINE hits == [f \in FieldSet |-> IF f \in fields THEN h ELSE IF junk THEN JunkField ELSE NoField]
           miss0 == IF withMiss THEN prompt - h ELSE NoField
           usage == [prompt |-> prompt, hits |-> hits, miss |-> miss0]
           hit == CacheHit(usage, hitField)
           miss == CacheMiss(usage, hit)
           order == (IF hitField = "none" THEN <<>> ELSE <<hitField>>) \o Fields
           read == {i \in DOMAIN order : hits[order[i]] >= 0}
           first == CHOOSE i \in read : \A j \in read : i <= j
<1>0. MaxTokens \in Nat
  BY PricingAssumption
<1>1. prompt \in Nat /\ h \in Nat /\ h <= prompt /\ (withMiss => fields # {})
  BY <1>0 DEF BillTokens
<1>2. /\ FieldSet = {Fields[1], Fields[2], Fields[3]} /\ DOMAIN Fields = 1..3 /\ Fields \in Seq(FieldSet) /\ Len(Fields) = 3
  <2>1. DOMAIN Fields = 1..3 /\ 1..3 = {1, 2, 3} /\ Len(Fields) = 3
    BY DEF Fields
  <2>2. FieldSet = {Fields[1], Fields[2], Fields[3]}
    BY <2>1 DEF FieldSet
  <2>3. Fields \in Seq({Fields[1], Fields[2], Fields[3]})
    BY DEF Fields
  <2> QED BY <2>1, <2>2, <2>3
<1>3. /\ order \in Seq(FieldSet) /\ \A f \in FieldSet : \E i \in DOMAIN order : order[i] = f
  <2>1. CASE hitField = "none"
    <3>1. order = <<>> \o Fields
      BY <2>1
    <3> HIDE DEF order
    <3>2. order = Fields
      BY <1>2, <3>1, ConcatEmptySeq
    <3> QED BY <1>2, <3>2
  <2>2. CASE hitField # "none"
    <3> DEFINE t == <<hitField>>
    <3>1. t \in Seq(FieldSet) /\ Len(t) = 1
      BY <2>2
    <3>2. order = t \o Fields
      BY <2>2
    <3> HIDE DEF t, order
    <3>3. /\ order \in Seq(FieldSet) /\ Len(order) = 4
          /\ \A i \in 1..4 : order[i] = IF i <= 1 THEN t[i] ELSE Fields[i - 1]
      <4>1. /\ t \o Fields \in Seq(FieldSet) /\ Len(t \o Fields) = Len(t) + Len(Fields)
            /\ \A i \in 1..(Len(t) + Len(Fields)) : (t \o Fields)[i] = IF i <= Len(t) THEN t[i] ELSE Fields[i - Len(t)]
        <5>1. Fields \in Seq(FieldSet) /\ t \in Seq(FieldSet)
          BY <1>2, <3>1
        <5> QED BY ONLY <5>1, ConcatProperties
      <4>2. Len(t) = 1 /\ Len(Fields) = 3
        BY <1>2, <3>1
      <4> QED BY <3>2, <4>1, <4>2
    <3>4. order[2] = Fields[1] /\ order[3] = Fields[2] /\ order[4] = Fields[3]
      BY <3>3
    <3> QED BY <1>2, <3>3, <3>4
  <2> QED BY <2>1, <2>2
<1>4. \A f \in FieldSet : hits[f] \in Int /\ (hits[f] >= 0 <=> f \in fields) /\ (f \in fields => hits[f] = h)
  BY <1>1 DEF JunkField, NoField
<1>5. hit = IF read = {} THEN 0 ELSE hits[order[first]]
  <2> HIDE DEF hits, order
  <2>1. usage.hits = hits
    OBVIOUS
  <2> HIDE DEF usage
  <2> QED BY <2>1 DEF CacheHit, order
<1>6. miss0 # NoField <=> withMiss
  BY <1>1 DEF NoField
<1>7. miss = IF miss0 # NoField THEN miss0 ELSE IF prompt > hit THEN prompt - hit ELSE 0
  BY DEF CacheMiss
<1>8. bill' = [of |-> "tokens", prompt |-> prompt, cached |-> IF fields = {} THEN 0 ELSE h,
               hit |-> hit, miss |-> miss, pluginMiss |-> IF hit = 0 /\ miss = 0 THEN prompt ELSE miss]
  BY DEF BillTokens, PluginMiss
<1> HIDE DEF hits, order
<1>9. hit = IF fields = {} THEN 0 ELSE h
  <2>1. CASE fields = {}
    <3>1. read = {}
      BY <1>3, <1>4, <2>1
    <3> QED BY <1>5, <2>1, <3>1
  <2>2. CASE fields # {}
    <3>1. read # {}
      <4>1. PICK f \in fields : TRUE
        BY <2>2
      <4>2. PICK i \in DOMAIN order : order[i] = f
        BY <1>3, <4>1
      <4>3. i \in read
        BY <1>4, <4>1, <4>2
      <4> QED BY <4>3
    <3>2. read \subseteq 1..Len(order) /\ Len(order) \in Nat
      BY <1>3
    <3>3. first \in read
      BY <3>1, <3>2, FirstHit
    <3>4. order[first] \in FieldSet /\ hits[order[first]] >= 0
      BY <1>3, <3>3
    <3> HIDE DEF first, read
    <3> QED BY <1>4, <1>5, <2>2, <3>1, <3>4
  <2> QED BY <2>1, <2>2
<1> HIDE DEF hit, miss, miss0
<1>10. miss0 = IF withMiss THEN prompt - h ELSE NoField
  BY DEF miss0
<1>11. hit \in Nat /\ miss \in Nat /\ hit + miss = prompt
  <2>1. CASE withMiss
    <3>1. miss = prompt - h /\ hit = h
      BY <1>1, <1>6, <1>7, <1>9, <1>10, <2>1
    <3> QED BY <1>1, <3>1
  <2>2. CASE ~withMiss
    <3>1. miss = (IF prompt > hit THEN prompt - hit ELSE 0) /\ hit \in Nat /\ hit <= prompt
      BY <1>1, <1>6, <1>7, <1>9, <2>2
    <3> QED BY <1>1, <3>1
  <2> QED BY <2>1, <2>2
<1>12. /\ bill'.hit = bill'.cached /\ bill'.prompt = prompt /\ bill'.hit = hit /\ bill'.miss = miss
       /\ bill'.pluginMiss = IF hit = 0 /\ miss = 0 THEN prompt ELSE miss
  BY <1>8, <1>9
<1> QED BY <1>11, <1>12 DEF PromptIsBilledOnce

LEMMA PricingStarts == PricingInit => PricingInvariant
<1> SUFFICES ASSUME PricingInit PROVE PricingInvariant
  OBVIOUS
<1>1. prices \in Seq(PriceRows)
  BY PricingAssumption DEF PricingInit
<1>2. bill.of = "nothing"
  BY DEF PricingInit, NoBill
<1> QED BY <1>1, <1>2 DEF PricingInvariant, PriceIsResolved, PromptIsBilledOnce, PeakHoursOnly

LEMMA PricingStays ==
  ASSUME PricingInvariant, [PricingNext]_pricingVars
  PROVE  PricingInvariant'
<1>1. prices \in Seq(PriceRows) /\ prices' = prices
  <2>1. prices \in Seq(PriceRows)
    BY DEF PricingInvariant
  <2>2. CASE PricingNext
    <3>1. \/ \E provider, model : PriceModel(provider, model)
          \/ \E prompt, h, fields, withMiss, junk, hitField : BillTokens(prompt, h, fields, withMiss, junk, hitField)
          \/ \E day, hour, hasPeak : ChooseRates(day, hour, hasPeak)
          \/ NextBill
      BY <2>2, Zenon DEF PricingNext
    <3>2. \A provider, model : PriceModel(provider, model) => prices' = prices
      BY DEF PriceModel
    <3>3. ASSUME NEW prompt, NEW h, NEW fields, NEW withMiss, NEW junk, NEW hitField,
                 BillTokens(prompt, h, fields, withMiss, junk, hitField)
          PROVE  prices' = prices
      BY <3>3 DEF BillTokens
    <3>4. \A day, hour, hasPeak : ChooseRates(day, hour, hasPeak) => prices' = prices
      BY DEF ChooseRates
    <3> QED BY <2>1, <3>1, <3>2, <3>3, <3>4 DEF NextBill
  <2>3. CASE UNCHANGED pricingVars
    BY <2>1, <2>3 DEF pricingVars
  <2> QED BY <2>2, <2>3
<1>2. ASSUME NEW provider \in {"p", "q"}, NEW model \in Names, PriceModel(provider, model)
      PROVE  PricingInvariant'
  <2> DEFINE b == [of |-> "price", provider |-> provider, model |-> model, row |-> ResolvePricing(provider, model)]
  <2>1. bill' = b
    BY <1>2 DEF PriceModel
  <2>2. bill'.of = "price" /\ bill'.provider = provider /\ bill'.model = model /\ bill'.row = ResolvePricing(provider, model)
    BY <2>1
  <2>3. ResolvePricing(provider, model)' = ResolvePricing(provider, model)
    BY <1>1 DEF ResolvePricing, Find
  <2>4. PriceIsResolved'
    BY <1>1, <2>2, <2>3 DEF PriceIsResolved, ResolvePricing, Find
  <2> QED BY <1>1, <2>2, <2>4 DEF PricingInvariant, PromptIsBilledOnce, PeakHoursOnly
<1>3. ASSUME NEW prompt \in 0..MaxTokens, NEW h \in 0..MaxTokens, NEW fields \in SUBSET FieldSet,
             NEW withMiss \in BOOLEAN, NEW junk \in BOOLEAN, NEW hitField \in FieldSet \cup {"none"},
             BillTokens(prompt, h, fields, withMiss, junk, hitField)
      PROVE  PricingInvariant'
  <2>1. bill'.of = "tokens"
    BY <1>3 DEF BillTokens
  <2>2. PromptIsBilledOnce'
    BY <1>3, TokensAreBilledOnce
  <2> QED BY <1>1, <2>1, <2>2 DEF PricingInvariant, PriceIsResolved, PeakHoursOnly
<1>4. ASSUME NEW day \in 0..6, NEW hour \in 0..23, NEW hasPeak \in BOOLEAN, ChooseRates(day, hour, hasPeak)
      PROVE  PricingInvariant'
  <2>1. /\ bill'.of = "rates" /\ bill'.day = day /\ bill'.hour = hour /\ bill'.hasPeak = hasPeak
        /\ bill'.rates = IF hasPeak /\ Peak(day, hour) THEN "peak" ELSE "base"
    BY <1>4 DEF ChooseRates
  <2>2. Peak(day, hour) <=> day \in 0..4 /\ hour \in {1, 2, 3, 6, 7, 8, 9}
    BY DEF Peak, InBand
  <2>3. PeakHoursOnly'
    BY <2>1, <2>2 DEF PeakHoursOnly
  <2> QED BY <1>1, <2>1, <2>3 DEF PricingInvariant, PriceIsResolved, PromptIsBilledOnce
<1>5. CASE NextBill
  <2>1. bill'.of = "nothing"
    BY <1>5 DEF NextBill, NoBill
  <2> QED BY <1>1, <2>1 DEF PricingInvariant, PriceIsResolved, PromptIsBilledOnce, PeakHoursOnly
<1>6. CASE UNCHANGED pricingVars
  BY <1>6 DEF PricingInvariant, PriceIsResolved, PromptIsBilledOnce, PeakHoursOnly, pricingVars, ResolvePricing, Find
<1> QED BY <1>2, <1>3, <1>4, <1>5, <1>6 DEF PricingNext

-----------------------------------------------------------------------------
(* The model catalog: what was once known stays known, and the fetches keep  *)
(* their distance.                                                           *)

Calling == [at : {"fetch"}, now : Int]
Sent == [at : {"sent"}, of : Nat]

(* Well-formed times and threads; a release is numbered from one.            *)
CatalogTypes ==
  /\ release \in Nat \ {0} /\ indexed \in Nat
  /\ loadedTs \in Int /\ failedTs \in Int /\ catalogTime \in Int
  /\ callers \in [Callers -> Calling \cup Sent \cup {CallerIdle}]
  /\ openedAt = [last |-> openedAt.last, gap |-> openedAt.gap] /\ openedAt.last \in Int /\ openedAt.gap \in Int

(* A fetch under way was begun no earlier than the last that began alone,    *)
(* and when none is under way that one has left its time behind.             *)
FetchesLeaveTheirTime ==
  /\ \A c \in Fetching : callers[c].now >= openedAt.last
  /\ Fetching # {} \/ loadedTs >= openedAt.last \/ failedTs >= openedAt.last
  /\ openedAt.last <= catalogTime

CatalogInvariant == CatalogTypes /\ FetchesLeaveTheirTime /\ KnownModelsStayKnown /\ FetchesAreSpaced

LEMMA CatalogStarts == CatalogInit => CatalogInvariant
<1> SUFFICES ASSUME CatalogInit PROVE CatalogInvariant
  OBVIOUS
<1>1. NeverLoaded \in Int /\ CatalogTTL \in Int /\ CatalogTTL >= CatalogCooldown
  BY CatalogAssumption DEF NeverLoaded
<1>2. CatalogTypes
  BY <1>1 DEF CatalogInit, CatalogTypes
<1>3. FetchesLeaveTheirTime
  <2>1. NeverLoaded <= 0
    BY CatalogAssumption DEF NeverLoaded
  <2>2. Fetching = {}
    BY DEF CatalogInit, Fetching, CallerIdle
  <2>3. openedAt.last = NeverLoaded /\ loadedTs = NeverLoaded /\ catalogTime = 0
    BY DEF CatalogInit
  <2> QED BY <1>1, <2>1, <2>2, <2>3 DEF FetchesLeaveTheirTime
<1>4. KnownModelsStayKnown /\ FetchesAreSpaced
  BY <1>1 DEF CatalogInit, KnownModelsStayKnown, FetchesAreSpaced
<1> QED BY <1>2, <1>3, <1>4 DEF CatalogInvariant

LEMMA CatalogStays ==
  ASSUME CatalogInvariant, [CatalogNext]_catalogVars
  PROVE  CatalogInvariant'
<1>1. /\ release \in Nat \ {0} /\ indexed \in Nat
      /\ loadedTs \in Int /\ failedTs \in Int /\ catalogTime \in Int
      /\ callers \in [Callers -> Calling \cup Sent \cup {CallerIdle}]
      /\ openedAt = [last |-> openedAt.last, gap |-> openedAt.gap] /\ openedAt.last \in Int /\ openedAt.gap \in Int
  BY DEF CatalogInvariant, CatalogTypes
<1>2. /\ \A c \in Fetching : callers[c].now >= openedAt.last /\ callers[c].now \in Int
      /\ Fetching # {} \/ loadedTs >= openedAt.last \/ failedTs >= openedAt.last
      /\ openedAt.last <= catalogTime
  BY <1>1 DEF CatalogInvariant, FetchesLeaveTheirTime, Fetching, Calling, Sent, CallerIdle
<1>3. (answered => indexed > 0) /\ openedAt.gap >= CatalogCooldown
  BY DEF CatalogInvariant, KnownModelsStayKnown, FetchesAreSpaced
<1>4. ASSUME NEW c \in Callers, Translate(c)
      PROVE  CatalogInvariant'
  <2>1. UNCHANGED <<release, indexed, loadedTs, failedTs, catalogTime, answered>>
    BY <1>4 DEF Translate
  <2>2. callers[c] = CallerIdle /\ c \notin Fetching
    BY <1>4 DEF Translate, CallerIdle, Fetching
  <2>3. CASE Waits
    <3> DEFINE v == [at |-> "sent", of |-> indexed]
    <3>1. callers' = [callers EXCEPT ![c] = v] /\ openedAt' = openedAt
      BY <1>4, <2>3 DEF Translate
    <3>2. v \in Sent /\ v.at # "fetch"
      BY <1>1 DEF Sent
    <3> HIDE DEF v
    <3>3. /\ callers' \in [Callers -> Calling \cup Sent \cup {CallerIdle}]
          /\ \A d \in Callers : callers'[d] = IF d = c THEN v ELSE callers[d]
      BY <1>1, <3>1, <3>2
    <3>4. Fetching' = Fetching
      BY <2>2, <3>2, <3>3 DEF Fetching
    <3>5. FetchesLeaveTheirTime'
      BY <1>2, <2>1, <2>2, <3>1, <3>3, <3>4 DEF FetchesLeaveTheirTime, Fetching
    <3> QED BY <1>1, <1>3, <2>1, <3>1, <3>3, <3>5 DEF CatalogInvariant, CatalogTypes, KnownModelsStayKnown, FetchesAreSpaced
  <2>4. CASE ~Waits
    <3> DEFINE v == [at |-> "fetch", now |-> catalogTime]
    <3>1. callers' = [callers EXCEPT ![c] = v]
          /\ openedAt' = IF Fetching # {} THEN openedAt ELSE [last |-> catalogTime, gap |-> catalogTime - openedAt.last]
      BY <1>4, <2>4 DEF Translate
    <3>2. v \in Calling /\ v.at = "fetch" /\ v.now = catalogTime
      BY <1>1 DEF Calling
    <3> HIDE DEF v
    <3>3. /\ callers' \in [Callers -> Calling \cup Sent \cup {CallerIdle}]
          /\ \A d \in Callers : callers'[d] = IF d = c THEN v ELSE callers[d]
      BY <1>1, <3>1, <3>2
    <3>4. Fetching' = Fetching \cup {c}
      BY <3>2, <3>3 DEF Fetching
    <3>5. catalogTime - loadedTs >= CatalogTTL /\ catalogTime - failedTs >= CatalogCooldown
      BY <1>1, <2>4, CatalogAssumption DEF Waits
    <3>6. CASE Fetching # {}
      <4>1. openedAt' = openedAt
        BY <3>1, <3>6
      <4>2. catalogTime >= openedAt.last
        BY <1>2
      <4>3. FetchesLeaveTheirTime'
        <5>1. \A d \in Fetching' : callers'[d].now >= openedAt.last
          BY <1>2, <3>2, <3>3, <3>4, <4>2 DEF Fetching
        <5>2. Fetching' # {} /\ catalogTime' = catalogTime
          BY <2>1, <3>4
        <5> QED BY <4>1, <4>2, <5>1, <5>2 DEF FetchesLeaveTheirTime
      <4> QED BY <1>1, <1>3, <2>1, <3>3, <4>1, <4>3 DEF CatalogInvariant, CatalogTypes, KnownModelsStayKnown, FetchesAreSpaced
    <3>7. CASE Fetching = {}
      <4>1. openedAt' = [last |-> catalogTime, gap |-> catalogTime - openedAt.last]
        BY <3>1, <3>7
      <4>2. catalogTime - openedAt.last >= CatalogCooldown
        BY <1>1, <1>2, <3>5, <3>7, CatalogAssumption
      <4>3. openedAt'.last = catalogTime /\ openedAt'.gap = catalogTime - openedAt.last
            /\ openedAt' = [last |-> openedAt'.last, gap |-> openedAt'.gap]
        BY <4>1
      <4>4. FetchesLeaveTheirTime'
        <5>1. \A d \in Fetching' : callers'[d].now >= catalogTime
          BY <1>1, <3>2, <3>3, <3>4, <3>7
        <5>2. Fetching' # {} /\ catalogTime' = catalogTime /\ catalogTime <= catalogTime
          BY <1>1, <2>1, <3>4
        <5> QED BY <4>3, <5>1, <5>2 DEF FetchesLeaveTheirTime
      <4> QED BY <1>1, <1>3, <2>1, <3>3, <4>2, <4>3, <4>4 DEF CatalogInvariant, CatalogTypes, KnownModelsStayKnown, FetchesAreSpaced
    <3> QED BY <3>6, <3>7
  <2> QED BY <2>3, <2>4
<1>5. ASSUME NEW c \in Callers, FetchFails(c) \/ \E odd \in BOOLEAN : Answered(c, odd)
      PROVE  CatalogInvariant'
  <2>1. callers[c].at = "fetch" /\ c \in Fetching /\ openedAt' = openedAt /\ catalogTime' = catalogTime /\ release' = release
    BY <1>5 DEF FetchFails, Answered, Fetching
  <2>2. callers[c].now \in Int /\ callers[c].now >= openedAt.last
    BY <1>2, <2>1
  <2>3. /\ indexed' \in Nat /\ (answered' => indexed' > 0)
        /\ \/ loadedTs' = callers[c].now /\ failedTs' = failedTs
           \/ failedTs' = callers[c].now /\ loadedTs' = loadedTs
        /\ callers' = [callers EXCEPT ![c] = [at |-> "sent", of |-> indexed']]
    <3>1. CASE FetchFails(c)
      BY <1>1, <1>3, <3>1 DEF FetchFails
    <3>2. CASE Answered(c, TRUE)
      BY <1>1, <3>2 DEF Answered
    <3>3. CASE Answered(c, FALSE)
      BY <1>1, <3>3 DEF Answered
    <3> QED BY <1>5, <3>1, <3>2, <3>3
  <2>4. PICK v : v = [at |-> "sent", of |-> indexed']
    OBVIOUS
  <2>5. v \in Sent /\ v.at # "fetch"
    BY <2>3, <2>4 DEF Sent
  <2>6. /\ callers' \in [Callers -> Calling \cup Sent \cup {CallerIdle}]
        /\ \A d \in Callers : callers'[d] = IF d = c THEN v ELSE callers[d]
    BY <1>1, <2>3, <2>4, <2>5
  <2>7. \A d \in Fetching' : d \in Fetching /\ callers'[d] = callers[d]
    BY <2>5, <2>6 DEF Fetching
  <2>8. FetchesLeaveTheirTime'
    BY <1>2, <2>1, <2>2, <2>3, <2>7 DEF FetchesLeaveTheirTime
  <2>9. CatalogTypes'
    BY <1>1, <2>1, <2>2, <2>3, <2>6 DEF CatalogTypes
  <2> QED BY <1>3, <2>1, <2>3, <2>8, <2>9 DEF CatalogInvariant, KnownModelsStayKnown, FetchesAreSpaced
<1>6. ASSUME NEW c \in Callers, Forwarded(c)
      PROVE  CatalogInvariant'
  <2>1. /\ callers[c].at = "sent" /\ callers' = [callers EXCEPT ![c] = CallerIdle] /\ CallerIdle.at # "fetch"
        /\ UNCHANGED <<release, indexed, loadedTs, failedTs, catalogTime, answered, openedAt>>
    BY <1>6 DEF Forwarded, CallerIdle
  <2>2. /\ callers' \in [Callers -> Calling \cup Sent \cup {CallerIdle}]
        /\ \A d \in Callers : callers'[d] = IF d = c THEN CallerIdle ELSE callers[d]
    BY <1>1, <2>1
  <2>3. Fetching' = Fetching /\ \A d \in Fetching : callers'[d] = callers[d]
    BY <2>1, <2>2 DEF Fetching
  <2>4. FetchesLeaveTheirTime'
    BY <1>2, <2>1, <2>3 DEF FetchesLeaveTheirTime
  <2> QED BY <1>1, <1>3, <2>1, <2>2, <2>4 DEF CatalogInvariant, CatalogTypes, KnownModelsStayKnown, FetchesAreSpaced
<1>7. CASE NewRelease
  BY <1>1, <1>2, <1>3, <1>7 DEF NewRelease, CatalogInvariant, CatalogTypes, FetchesLeaveTheirTime, Fetching, KnownModelsStayKnown, FetchesAreSpaced
<1>8. CASE CatalogTick
  BY <1>1, <1>2, <1>3, <1>8 DEF CatalogTick, CatalogInvariant, CatalogTypes, FetchesLeaveTheirTime, Fetching, KnownModelsStayKnown, FetchesAreSpaced
<1>9. CASE UNCHANGED catalogVars
  BY <1>1, <1>2, <1>3, <1>9 DEF catalogVars, CatalogInvariant, CatalogTypes, FetchesLeaveTheirTime, Fetching, KnownModelsStayKnown, FetchesAreSpaced
<1> QED BY <1>4, <1>5, <1>6, <1>7, <1>8, <1>9 DEF CatalogNext

-----------------------------------------------------------------------------
(* The router's caches: what a lookup under way holds of the tables, what an *)
(* edit past its guard knows of them.                                        *)
TablesAreTables ==
  /\ IsFiniteSet(rows) /\ \A r \in rows : r.release \in Releases \cup {Legacy}
  /\ registry \in [Logicals -> RegistryEntries \cup {NoEntry}]

Holding(v) ==
  \/ v = Idle
  \/ v.at = "rows" /\ v = [at |-> "rows", rows |-> v.rows, late |-> v.late] /\ (~v.late => v.rows = rows)
  \/ /\ v.at = "read" /\ v = [at |-> "read", late |-> v.late, found |-> v.found]
     /\ DOMAIN v.found = BenchKeys \X CTasks
     /\ ~v.late => v.found = MatrixOf(rows, registry)
  \/ v.at = "aliases"
  \/ v.at = "kept"

LookupsHoldTheTables == lookup = [x \in Lookups |-> lookup[x]] /\ \A x \in Lookups : Holding(lookup[x])

UpsertCommitted == [at |-> "committed"]
Writes == [at : {"sought"}, batch : Batches, first : UNION Batches, new : BOOLEAN]
Upserts == [at : {"checked"}, l : Logicals, key : BenchKeys, active : Releases \cup {Legacy}, alone : BOOLEAN]

EditsAreGuarded ==
  /\ editor \in [Editors -> Upserts \cup Writes \cup {Idle, UpsertCommitted}]
  /\ \A e \in Editors : editor[e].at = "checked" /\ editor[e].alone
       => \A o \in Logicals \ {editor[e].l} : registry[o] # NoEntry => registry[o].key # editor[e].key

MatrixIsAccountedFor ==
  /\ matrix = NoCache \/ DOMAIN matrix = BenchKeys \X CTasks
  /\ StaleMatrixHasCause

CachesInvariant ==
  /\ TablesAreTables /\ edits \in 0 .. MaxEdits
  /\ LookupsHoldTheTables /\ MatrixIsAccountedFor
  /\ EditsAreGuarded /\ OneScorePerKey /\ OneOwnerPerKey

LEMMA LargestOfFinite ==
  ASSUME NEW S, S \subseteq Nat, S # {}, IsFiniteSet(S)
  PROVE  Max(S) \in S /\ \A y \in S : Max(S) >= y
<1>1. PICK n \in Nat : ExistsSurjection(1..n, S)
  BY FS_NatSurjection
<1>2. PICK f \in Surjection(1..n, S) : TRUE
  BY <1>1 DEF ExistsSurjection
<1>3. f \in [1..n -> S] /\ \A y \in S : \E i \in 1..n : f[i] = y
  BY <1>2 DEF Surjection
<1>4. f \in [1..n -> Int] /\ 1..n \subseteq 1..n /\ 1..n # {}
  <2>1. ASSUME NEW i \in 1..n
        PROVE  f[i] \in Int
    <3>1. f[i] \in S
      BY <1>3
    <3>2. f[i] \in Nat
      BY <3>1
    <3> QED BY <3>2
  <2>2. PICK y \in S : TRUE
    OBVIOUS
  <2>3. 1..n # {}
    BY <1>3, <2>2
  <2> QED BY <1>3, <2>1, <2>3
<1>5. \E i \in 1..n : \A j \in 1..n : f[j] <= f[i]
  BY <1>4, ExtremesAreReached
<1>6. \E x \in S : \A y \in S : x >= y
  BY <1>3, <1>5
<1> QED BY <1>6 DEF Max

(* The release that counts is one of the labels, and the page's.             *)
LEMMA PageShowsIt ==
  ASSUME TablesAreTables
  PROVE  PageShowsTheRankedRelease
<1> SUFFICES ASSUME NEW key \in BenchKeys, Dated(rows, key) # {},
                    Pinned(registry, key) # Legacy \/ Legacy \notin Labels(rows, key)
             PROVE  {r.release : r \in {x \in ActiveRows(rows, registry) : x.key = key}} \ {Legacy}
                      = {EffectiveRelease(rows, registry, key)}
  BY Zenon DEF PageShowsTheRankedRelease
<1> DEFINE own == {r \in rows : r.key = key}
           pin == Pinned(registry, key)
           D == Dated(rows, key)
           sel == SelectedRelease(rows, registry, key)
<1>1. IsFiniteSet(D) /\ D \subseteq Nat
  <2>1. IsFiniteSet(own)
    BY FS_Subset DEF TablesAreTables
  <2>2. PICK f : f = [r \in own |-> r.release]
    OBVIOUS
  <2>3. f \in Surjection(own, Labels(rows, key))
    BY <2>2 DEF Labels, Surjection
  <2>4. IsFiniteSet(Labels(rows, key))
    BY ONLY <2>1, <2>3, FS_Surjection
  <2>5. D \subseteq Labels(rows, key) /\ D \subseteq Releases
    BY DEF Dated, Labels, TablesAreTables
  <2> QED BY <2>4, <2>5, FS_Subset, CachesConstants
<1>2. Max(D) \in D
  BY <1>1, LargestOfFinite
<1>3. sel \in D /\ sel = EffectiveRelease(rows, registry, key)
  BY <1>2 DEF SelectedRelease, EffectiveRelease, Dated
<1>4. PICK r \in rows : r.key = key /\ r.release = sel
  BY <1>3 DEF Dated, Labels
<1>5. sel # Legacy
  BY <1>3 DEF Dated
<1>6. r \in {x \in ActiveRows(rows, registry) : x.key = key}
  BY <1>4 DEF ActiveRows
<1>7. \A x \in ActiveRows(rows, registry) : x.key = key => x.release \in {Legacy, sel}
  BY DEF ActiveRows
<1> HIDE DEF sel
<1> QED BY <1>3, <1>4, <1>5, <1>6, <1>7

LEMMA MatrixCovers ==
  /\ \A rs, reg : DOMAIN MatrixOf(rs, reg) = BenchKeys \X CTasks
  /\ DOMAIN EmptyMatrix = BenchKeys \X CTasks
BY DEF MatrixOf, EmptyMatrix

LEMMA BatchesAreTables ==
  ASSUME NEW b \in Batches
  PROVE  IsFiniteSet(b) /\ OneScorePerRow(b) /\ \A r \in b : r.release \in Releases \cup {Legacy}
<1>1. CASE b = SeedRows
  BY <1>1, TablesAssumption
<1>2. ASSUME NEW r \in ManualRows, b = {r}
      PROVE  IsFiniteSet(b) /\ OneScorePerRow(b) /\ r.release \in Releases
  BY <1>2, FS_Singleton DEF OneScorePerRow, ManualRows, Row
<1> QED BY <1>1, <1>2 DEF Batches

LEMMA CachesStart == CachesInit => CachesInvariant
<1> SUFFICES ASSUME CachesInit PROVE CachesInvariant
  OBVIOUS
<1>1. TablesAreTables /\ OneScorePerRow(rows) /\ SoleOwners(registry)
  BY TablesAssumption DEF CachesInit, TablesAreTables
<1>2. LookupsHoldTheTables
  BY DEF CachesInit, LookupsHoldTheTables, Holding
<1>3. EditsAreGuarded
  BY DEF CachesInit, EditsAreGuarded, Idle
<1>4. MatrixIsAccountedFor
  BY DEF CachesInit, MatrixIsAccountedFor, StaleMatrixHasCause
<1>5. edits \in 0 .. MaxEdits
  BY CachesConstants DEF CachesInit
<1> QED BY <1>1, <1>2, <1>3, <1>4, <1>5 DEF CachesInvariant, OneScorePerKey, OneOwnerPerKey

(* A change of the tables leaves no load and no cached matrix that passes    *)
(* for new.                                                                  *)
LEMMA ChangesAreNoticed ==
  ASSUME LookupsHoldTheTables, MatrixIsAccountedFor, TablesChange, matrix' = matrix
  PROVE  LookupsHoldTheTables' /\ MatrixIsAccountedFor'
<1>1. MatrixIsAccountedFor'
  BY DEF MatrixIsAccountedFor, StaleMatrixHasCause, TablesChange
<1>2. lookup' = [x \in Lookups |-> lookup'[x]]
  BY DEF TablesChange
<1>3. ASSUME NEW x \in Lookups
      PROVE  Holding(lookup[x])'
  <2>1. CASE lookup[x].at \notin {"rows", "read"}
    <3>1. lookup'[x] = lookup[x]
      BY <2>1 DEF TablesChange
    <3> QED BY <2>1, <3>1 DEF LookupsHoldTheTables, Holding
  <2>2. CASE lookup[x].at \in {"rows", "read"}
    <3>1. PICK v, w : v = lookup[x] /\ w = lookup'[x]
      OBVIOUS
    <3>2. w = [v EXCEPT !.late = TRUE]
      BY <2>2, <3>1 DEF TablesChange
    <3>3. \/ v = [at |-> "rows", rows |-> v.rows, late |-> v.late]
          \/ v = [at |-> "read", late |-> v.late, found |-> v.found] /\ DOMAIN v.found = BenchKeys \X CTasks
      BY <2>2, <3>1 DEF LookupsHoldTheTables, Holding, Idle
    <3>4. \/ w = [at |-> "rows", rows |-> v.rows, late |-> TRUE]
          \/ w = [at |-> "read", late |-> TRUE, found |-> v.found] /\ DOMAIN v.found = BenchKeys \X CTasks
      <4>1. PICK rs, l, m : rs = v.rows /\ l = v.late /\ m = v.found
        OBVIOUS
      <4>2. ASSUME v = [at |-> "rows", rows |-> rs, late |-> l]
            PROVE  w = [at |-> "rows", rows |-> rs, late |-> TRUE]
        BY ONLY <3>2, <4>2
      <4>3. ASSUME v = [at |-> "read", late |-> l, found |-> m]
            PROVE  w = [at |-> "read", late |-> TRUE, found |-> m]
        BY ONLY <3>2, <4>3
      <4> QED BY ONLY <3>3, <4>1, <4>2, <4>3
    <3>5. /\ w.late
          /\ \/ w.at = "rows" /\ w = [at |-> "rows", rows |-> w.rows, late |-> w.late]
             \/ /\ w.at = "read" /\ w = [at |-> "read", late |-> w.late, found |-> w.found]
                /\ DOMAIN w.found = BenchKeys \X CTasks
      BY ONLY <3>4
    <3> QED BY ONLY <3>1, <3>5 DEF Holding
  <2> QED BY <2>1, <2>2
<1> QED BY <1>1, <1>2, <1>3 DEF LookupsHoldTheTables

(* A lookup that goes on leaves the tables, and the other lookups, alone.    *)
LEMMA LookupsGoOn ==
  ASSUME LookupsHoldTheTables, UNCHANGED <<rows, registry>>, NEW x \in Lookups, NEW v,
         lookup' = [lookup EXCEPT ![x] = v], Holding(v)
  PROVE  LookupsHoldTheTables'
<1>1. lookup = [y \in Lookups |-> lookup[y]] /\ \A y \in Lookups : Holding(lookup[y])
  BY DEF LookupsHoldTheTables
<1>2. lookup' = [y \in Lookups |-> IF y = x THEN v ELSE lookup[y]]
  BY ONLY <1>1, lookup' = [lookup EXCEPT ![x] = v]
<1>3. lookup' = [y \in Lookups |-> lookup'[y]]
  BY ONLY <1>2
<1>4. ASSUME NEW y \in Lookups
      PROVE  Holding(lookup[y])'
  <2>1. Holding(lookup'[y])
    <3>1. lookup'[y] = IF y = x THEN v ELSE lookup[y]
      BY <1>2
    <3>2. CASE y = x
      BY <3>1, <3>2
    <3>3. CASE y # x
      BY <1>1, <3>1, <3>3
    <3> QED BY <3>2, <3>3
  <2> QED BY <2>1, rows' = rows, registry' = registry DEF Holding
<1> QED BY <1>3, <1>4 DEF LookupsHoldTheTables

LEMMA LookupsStay ==
  ASSUME CachesInvariant, NEW x \in Lookups,
         ReadRows(x) \/ ReadRegistry(x) \/ KeepMatrix(x) \/ CountTasks(x) \/ LoadFails(x)
         \/ ReadAliases(x) \/ KeepAliases(x)
  PROVE  CachesInvariant'
<1>1. UNCHANGED <<rows, registry, editor, edits, crossed, doubled>>
  BY DEF ReadRows, ReadRegistry, KeepMatrix, CountTasks, LoadFails, ReadAliases, KeepAliases
<1>2. (TablesAreTables /\ edits \in 0 .. MaxEdits /\ EditsAreGuarded /\ OneScorePerKey /\ OneOwnerPerKey)'
  BY <1>1 DEF CachesInvariant, TablesAreTables, EditsAreGuarded, OneScorePerKey, OneScorePerRow, OneOwnerPerKey, SoleOwners
<1>3. LookupsHoldTheTables /\ MatrixIsAccountedFor /\ Holding(Idle) /\ Holding(lookup[x])
  BY DEF CachesInvariant, LookupsHoldTheTables, Holding
<1>4. CASE ReadRows(x)
  <2>1. PICK v : v = [at |-> "rows", rows |-> rows, late |-> FALSE]
    OBVIOUS
  <2>2. lookup' = [lookup EXCEPT ![x] = v] /\ Holding(v)
    BY <1>4, <2>1 DEF ReadRows, Holding
  <2>3. MatrixIsAccountedFor'
    BY <1>1, <1>3, <1>4 DEF ReadRows, MatrixIsAccountedFor, StaleMatrixHasCause
  <2> QED BY <1>1, <1>2, <1>3, <2>2, <2>3, LookupsGoOn DEF CachesInvariant
<1>5. CASE ReadRegistry(x)
  <2>1. PICK l, m : l = lookup[x].late /\ m = MatrixOf(lookup[x].rows, registry)
    OBVIOUS
  <2>2. PICK v : v = [at |-> "read", late |-> l, found |-> m]
    OBVIOUS
  <2>3. lookup' = [lookup EXCEPT ![x] = v]
    BY <1>5, <2>1, <2>2 DEF ReadRegistry
  <2>4. (~l => m = MatrixOf(rows, registry)) /\ DOMAIN m = BenchKeys \X CTasks
    <3>1. PICK w : w = lookup[x]
      OBVIOUS
    <3>2. w.at = "rows" /\ Holding(w)
      BY <1>3, <1>5, <3>1 DEF ReadRegistry
    <3>3. ~w.late => w.rows = rows
      BY <3>2 DEF Holding, Idle
    <3> QED BY <2>1, <3>1, <3>3, MatrixCovers
  <2>5. Holding(v)
    BY ONLY <2>2, <2>4 DEF Holding
  <2>6. MatrixIsAccountedFor'
    BY <1>1, <1>3, <1>5 DEF ReadRegistry, MatrixIsAccountedFor, StaleMatrixHasCause
  <2> QED BY <1>1, <1>2, <1>3, <2>3, <2>5, <2>6, LookupsGoOn DEF CachesInvariant
<1>6. CASE KeepMatrix(x)
  <2>1. /\ lookup[x].at = "read" /\ matrix' = lookup[x].found /\ missed' = lookup[x].late
        /\ lookup' = [lookup EXCEPT ![x] = [at |-> "kept"]]
    BY <1>6 DEF KeepMatrix
  <2>2. DOMAIN lookup[x].found = BenchKeys \X CTasks /\ (~lookup[x].late => lookup[x].found = MatrixOf(rows, registry))
    BY <1>3, <2>1 DEF Holding, Idle
  <2>3. MatrixIsAccountedFor'
    BY <1>1, <2>1, <2>2 DEF MatrixIsAccountedFor, StaleMatrixHasCause
  <2>4. Holding([at |-> "kept"])
    BY DEF Holding
  <2> QED BY <1>1, <1>2, <1>3, <2>1, <2>3, <2>4, LookupsGoOn DEF CachesInvariant
<1>9. CASE CountTasks(x)
  <2>1. /\ (matrix' = EmptyMatrix /\ missed') \/ UNCHANGED <<matrix, missed>>
        /\ lookup' = [lookup EXCEPT ![x] = Idle]
    BY <1>9 DEF CountTasks
  <2>2. MatrixIsAccountedFor'
    BY <1>1, <1>3, <2>1, MatrixCovers DEF MatrixIsAccountedFor, StaleMatrixHasCause
  <2> QED BY <1>1, <1>2, <1>3, <2>1, <2>2, LookupsGoOn DEF CachesInvariant
<1>7. CASE LoadFails(x)
  <2>1. matrix' = EmptyMatrix /\ missed' /\ lookup' = [lookup EXCEPT ![x] = Idle]
    BY <1>7 DEF LoadFails
  <2>2. MatrixIsAccountedFor'
    BY <2>1, MatrixCovers DEF MatrixIsAccountedFor, StaleMatrixHasCause
  <2> QED BY <1>1, <1>2, <1>3, <2>1, <2>2, LookupsGoOn DEF CachesInvariant
<1>8. CASE ReadAliases(x) \/ KeepAliases(x)
  <2>1. UNCHANGED <<matrix, missed>>
    BY <1>8 DEF ReadAliases, KeepAliases
  <2>2. PICK v : v = [at |-> "aliases", reg |-> registry]
    OBVIOUS
  <2>3. \/ lookup' = [lookup EXCEPT ![x] = v]
        \/ lookup' = [lookup EXCEPT ![x] = Idle]
    BY <1>8, <2>2 DEF ReadAliases, KeepAliases
  <2>4. Holding(v)
    BY <2>2 DEF Holding
  <2>5. MatrixIsAccountedFor'
    BY <1>1, <1>3, <2>1 DEF MatrixIsAccountedFor, StaleMatrixHasCause
  <2> QED BY <1>1, <1>2, <1>3, <2>3, <2>4, <2>5, LookupsGoOn DEF CachesInvariant
<1> QED BY <1>4, <1>5, <1>6, <1>7, <1>8, <1>9

(* A write of rows replaces what it found and adds what it did not, so that  *)
(* a row is there twice only when another wrote it since it was looked for.  *)
LEMMA WritesStay ==
  ASSUME CachesInvariant, NEW e \in Editors, WriteRows(e)
  PROVE  CachesInvariant'
<1>1. /\ TablesAreTables /\ edits \in 0 .. MaxEdits /\ LookupsHoldTheTables /\ MatrixIsAccountedFor
      /\ EditsAreGuarded /\ OneScorePerKey /\ OneOwnerPerKey
  BY DEF CachesInvariant
<1>2. PICK w : w = editor[e]
  OBVIOUS
<1>3. w.batch \in Batches
  BY <1>1, <1>2 DEF WriteRows, EditsAreGuarded, Upserts, Writes, UpsertCommitted, Idle
<1>4. PICK found : found = Found(w)
  OBVIOUS
<1>5. /\ \E old \in [found -> rows] :
           /\ \A r \in found : RowKey(old[r]) = RowKey(r)
           /\ rows' = (rows \ {old[r] : r \in found}) \cup w.batch
      /\ doubled' = (doubled \/ (w.new /\ Has(rows, w.first)))
      /\ TablesChange /\ editor' = [editor EXCEPT ![e] = Idle]
      /\ UNCHANGED <<registry, matrix, edits, crossed>>
  BY <1>2, <1>4 DEF WriteRows
<1>6. PICK old \in [found -> rows] :
        /\ \A r \in found : RowKey(old[r]) = RowKey(r)
        /\ rows' = (rows \ {old[r] : r \in found}) \cup w.batch
  BY <1>5
<1>7. PICK kept : kept = rows \ {old[r] : r \in found}
  OBVIOUS
<1>8. rows' = kept \cup w.batch /\ kept \subseteq rows
  BY <1>6, <1>7
<1>9. /\ IsFiniteSet(w.batch) /\ OneScorePerRow(w.batch)
      /\ \A r \in w.batch : r.release \in Releases \cup {Legacy}
  BY <1>3, BatchesAreTables
<1>10. TablesAreTables'
  <2>1. IsFiniteSet(rows')
    BY <1>1, <1>8, <1>9, FS_Subset, FS_Union DEF TablesAreTables
  <2> QED BY <1>1, <1>5, <1>8, <1>9, <2>1 DEF TablesAreTables
<1>11. OneScorePerKey'
  <2>1. SUFFICES ASSUME ~doubled' PROVE OneScorePerRow(rows)'
    BY DEF OneScorePerKey
  <2>2. OneScorePerRow(rows) /\ ~(w.new /\ Has(rows, w.first))
    BY <1>1, <1>5, <2>1 DEF OneScorePerKey
  <2>3. ASSUME NEW r \in w.batch, NEW s \in kept
        PROVE  RowKey(r) # RowKey(s)
    <3>1. s \in rows
      BY <1>8
    <3>2. CASE r \in found
      <4>1. old[r] \in rows /\ RowKey(old[r]) = RowKey(r) /\ s # old[r]
        BY <1>6, <1>7, <2>3, <3>2
      <4> QED BY <2>2, <3>1, <4>1 DEF OneScorePerRow
    <3>3. CASE r \notin found
      <4>1. ~Has(rows, r)
        BY <1>4, <2>2, <2>3, <3>3 DEF Found
      <4> QED BY <3>1, <4>1 DEF Has
    <3> QED BY <3>2, <3>3
  <2>4. ASSUME NEW r \in rows', NEW s \in rows', RowKey(r) = RowKey(s)
        PROVE  r = s
    <3>1. CASE r \in kept /\ s \in kept
      BY <1>8, <2>2, <2>4, <3>1 DEF OneScorePerRow
    <3>2. CASE r \in w.batch /\ s \in w.batch
      BY <1>9, <2>4, <3>2 DEF OneScorePerRow
    <3> QED BY <1>8, <2>3, <2>4, <3>1, <3>2
  <2> QED BY <2>4 DEF OneScorePerRow, RowKey
<1>12. LookupsHoldTheTables' /\ MatrixIsAccountedFor'
  BY <1>1, <1>5, ChangesAreNoticed
<1>13. EditsAreGuarded'
  BY <1>1, <1>5 DEF EditsAreGuarded, Idle
<1>14. OneOwnerPerKey'
  BY <1>1, <1>5 DEF OneOwnerPerKey, SoleOwners
<1> QED BY <1>1, <1>5, <1>10, <1>11, <1>12, <1>13, <1>14 DEF CachesInvariant

LEMMA DeletionsStay ==
  ASSUME CachesInvariant, DeleteEntry
  PROVE  CachesInvariant'
<1>1. /\ TablesAreTables /\ edits \in 0 .. MaxEdits /\ LookupsHoldTheTables /\ MatrixIsAccountedFor
      /\ EditsAreGuarded /\ OneScorePerKey /\ OneOwnerPerKey
  BY DEF CachesInvariant
<1>2. /\ TablesChange /\ edits < MaxEdits /\ edits' = edits + 1
      /\ UNCHANGED <<rows, matrix, editor, crossed, doubled>>
  BY DEF DeleteEntry
<1>3. LookupsHoldTheTables' /\ MatrixIsAccountedFor'
  BY <1>1, <1>2, ChangesAreNoticed
<1>4. edits' \in 0 .. MaxEdits
  BY <1>1, <1>2, CachesConstants
<1>5. PICK l \in Logicals : registry' = [registry EXCEPT ![l] = NoEntry]
  BY DEF DeleteEntry
<1>6. /\ registry' \in [Logicals -> RegistryEntries \cup {NoEntry}]
      /\ \A o \in Logicals : registry'[o] # NoEntry => registry'[o] = registry[o]
  BY <1>1, <1>5 DEF TablesAreTables
<1>7. TablesAreTables'
  BY <1>1, <1>2, <1>6 DEF TablesAreTables
<1>8. EditsAreGuarded'
  BY <1>1, <1>2, <1>6 DEF EditsAreGuarded, Upserts, Writes, UpsertCommitted, Idle
<1>9. OneOwnerPerKey' /\ OneScorePerKey'
  BY <1>1, <1>2, <1>6 DEF OneOwnerPerKey, SoleOwners, OneScorePerKey, OneScorePerRow
<1> QED BY <1>3, <1>4, <1>7, <1>8, <1>9 DEF CachesInvariant

(* An upsert writes its entry: the names that have its key are then behind   *)
(* the guard of no other, and it crosses one only if it was overtaken.       *)
LEMMA CommitsStay ==
  ASSUME CachesInvariant, NEW e \in Editors, CommitUpsert(e)
  PROVE  CachesInvariant'
<1>1. /\ TablesAreTables /\ edits \in 0 .. MaxEdits /\ LookupsHoldTheTables /\ MatrixIsAccountedFor
      /\ EditsAreGuarded /\ OneScorePerKey /\ OneOwnerPerKey
  BY DEF CachesInvariant
<1>2. PICK w : w = editor[e]
  OBVIOUS
<1>3. w \in Upserts /\ w.at = "checked" /\ w.l \in Logicals /\ w.key \in BenchKeys /\ w.active \in Releases \cup {Legacy}
  BY <1>1, <1>2 DEF CommitUpsert, EditsAreGuarded, Upserts, Writes, UpsertCommitted, Idle
<1>4. PICK active : active = IF w.active = Legacy /\ registry[w.l] # NoEntry THEN registry[w.l].active ELSE w.active
  OBVIOUS
<1>5. active \in Releases \cup {Legacy}
  <2>1. registry[w.l] # NoEntry => registry[w.l].active \in Releases \cup {Legacy}
    BY <1>1, <1>3 DEF TablesAreTables, RegistryEntries
  <2> QED BY <1>3, <1>4, <2>1
<1>6. PICK written : written = [key |-> w.key, active |-> active]
  OBVIOUS
<1>7. written \in RegistryEntries /\ written.key = w.key
  BY <1>3, <1>5, <1>6 DEF RegistryEntries
<1>8. /\ registry' = [registry EXCEPT ![w.l] = written] /\ rows' = rows /\ matrix' = matrix /\ edits' = edits /\ doubled' = doubled
      /\ crossed' = (crossed \/ ~w.alone) /\ TablesChange
  BY <1>2, <1>4, <1>6 DEF CommitUpsert
<1>9. /\ registry' \in [Logicals -> RegistryEntries \cup {NoEntry}]
      /\ \A o \in Logicals : registry'[o] = IF o = w.l THEN written ELSE registry[o]
  BY <1>1, <1>3, <1>7, <1>8 DEF TablesAreTables
<1>10. LookupsHoldTheTables' /\ MatrixIsAccountedFor'
  BY <1>1, <1>8, ChangesAreNoticed
<1>11. TablesAreTables' /\ OneScorePerKey'
  BY <1>1, <1>8, <1>9 DEF TablesAreTables, OneScorePerKey, OneScorePerRow
<1>12. OneOwnerPerKey'
  <2>1. SUFFICES ASSUME ~crossed' PROVE SoleOwners(registry)'
    BY DEF OneOwnerPerKey
  <2>2. ~crossed /\ w.alone
    BY <1>8, <2>1
  <2>3. SoleOwners(registry) /\ \A o \in Logicals \ {w.l} : registry[o] # NoEntry => registry[o].key # w.key
    BY <1>1, <1>2, <1>3, <2>2 DEF OneOwnerPerKey, EditsAreGuarded
  <2> QED BY <1>7, <1>9, <2>3 DEF SoleOwners
<1>13. EditsAreGuarded'
  <2>1. editor' = [o \in Editors |-> IF o = e THEN UpsertCommitted
                                     ELSE IF editor[o].at = "checked" /\ editor[o].key = w.key /\ editor[o].l # w.l
                                       THEN [editor[o] EXCEPT !.alone = FALSE]
                                     ELSE editor[o]]
    BY <1>2, Zenon DEF CommitUpsert, UpsertCommitted
  <2>2. ASSUME NEW o \in Editors
        PROVE  /\ editor'[o] \in Upserts \cup Writes \cup {Idle, UpsertCommitted}
               /\ editor'[o].at = "checked" /\ editor'[o].alone
                    => \A n \in Logicals \ {editor'[o].l} : registry'[n] # NoEntry => registry'[n].key # editor'[o].key
    <3>1. PICK u, v : u = editor[o] /\ v = editor'[o]
      OBVIOUS
    <3>2. u \in Upserts \cup Writes \cup {Idle, UpsertCommitted}
      BY <1>1, <3>1 DEF EditsAreGuarded
    <3>3. u.at = "checked" /\ u.alone => \A n \in Logicals \ {u.l} : registry[n] # NoEntry => registry[n].key # u.key
      BY <1>1, <3>1 DEF EditsAreGuarded
    <3>4. v = IF o = e THEN UpsertCommitted
              ELSE IF u.at = "checked" /\ u.key = w.key /\ u.l # w.l THEN [u EXCEPT !.alone = FALSE] ELSE u
      BY <2>1, <3>1
    <3>5. CASE o = e
      <4>1. v = UpsertCommitted
        BY <3>4, <3>5
      <4> QED BY <3>1, <4>1 DEF UpsertCommitted
    <3>6. CASE o # e /\ u.at = "checked" /\ u.key = w.key /\ u.l # w.l
      <4>1. v = [u EXCEPT !.alone = FALSE] /\ u \in Upserts
        BY <3>2, <3>4, <3>6 DEF Writes, Idle, UpsertCommitted
      <4>2. v \in Upserts /\ ~v.alone
        BY ONLY <4>1 DEF Upserts
      <4> QED BY <3>1, <4>2
    <3>7. CASE o # e /\ ~(u.at = "checked" /\ u.key = w.key /\ u.l # w.l)
      <4>1. v = u
        BY <3>4, <3>7
      <4>2. ASSUME u.at = "checked", u.alone, NEW n \in Logicals \ {u.l}, registry'[n] # NoEntry
            PROVE  registry'[n].key # u.key
        BY <1>7, <1>9, <3>3, <3>7, <4>2
      <4> QED BY <3>1, <3>2, <4>1, <4>2
    <3> QED BY <3>5, <3>6, <3>7
  <2>3. editor' \in [Editors -> Upserts \cup Writes \cup {Idle, UpsertCommitted}]
    BY <2>1, <2>2
  <2> QED BY <2>2, <2>3 DEF EditsAreGuarded
<1> QED BY <1>1, <1>8, <1>10, <1>11, <1>12, <1>13 DEF CachesInvariant

LEMMA UpsertsStay ==
  ASSUME CachesInvariant, NEW e \in Editors, ManualScore(e) \/ SeedAgain(e) \/ CheckUpsert(e) \/ DropCaches(e)
  PROVE  CachesInvariant'
<1>1. /\ TablesAreTables /\ edits \in 0 .. MaxEdits /\ LookupsHoldTheTables /\ MatrixIsAccountedFor
      /\ EditsAreGuarded /\ OneScorePerKey /\ OneOwnerPerKey
  BY DEF CachesInvariant
<1>2. UNCHANGED <<rows, registry, lookup, crossed, doubled>>
  BY DEF ManualScore, SeedAgain, LookUp, CheckUpsert, DropCaches
<1>3. (TablesAreTables /\ LookupsHoldTheTables /\ OneScorePerKey /\ OneOwnerPerKey)'
  BY <1>1, <1>2 DEF TablesAreTables, LookupsHoldTheTables, Holding, OneScorePerKey, OneScorePerRow, OneOwnerPerKey, SoleOwners
<1>4. CASE CheckUpsert(e)
  <2>1. PICK l \in Logicals, key \in BenchKeys, active \in Releases \cup {Legacy} :
          /\ \A o \in Logicals \ {l} : registry[o] # NoEntry => registry[o].key # key
          /\ editor' = [editor EXCEPT ![e] = [at |-> "checked", l |-> l, key |-> key, active |-> active,
                                              alone |-> TRUE]]
    BY <1>4 DEF CheckUpsert
  <2>2. PICK v : v = [at |-> "checked", l |-> l, key |-> key, active |-> active, alone |-> TRUE]
    OBVIOUS
  <2>3. v \in Upserts /\ v.l = l /\ v.key = key
    BY <2>2 DEF Upserts
  <2>4. editor' = [editor EXCEPT ![e] = v]
    BY <2>1, <2>2
  <2>5. EditsAreGuarded'
    <3>1. /\ editor' \in [Editors -> Upserts \cup Writes \cup {Idle, UpsertCommitted}]
          /\ \A d \in Editors : editor'[d] = IF d = e THEN v ELSE editor[d]
      BY <1>1, <2>3, <2>4 DEF EditsAreGuarded
    <3>2. ASSUME NEW d \in Editors, editor'[d].at = "checked", editor'[d].alone,
                 NEW o \in Logicals \ {editor'[d].l}, registry[o] # NoEntry
          PROVE  registry[o].key # editor'[d].key
      <4>1. CASE d = e
        BY <2>1, <2>3, <3>1, <3>2, <4>1
      <4>2. CASE d # e
        BY <1>1, <3>1, <3>2, <4>2 DEF EditsAreGuarded
      <4> QED BY <4>1, <4>2
    <3> QED BY <1>2, <3>1, <3>2 DEF EditsAreGuarded
  <2>6. UNCHANGED <<matrix, missed>> /\ edits' \in 0 .. MaxEdits
    BY <1>1, <1>4, CachesConstants DEF CheckUpsert
  <2>7. MatrixIsAccountedFor'
    BY <1>1, <1>2, <2>6 DEF MatrixIsAccountedFor, StaleMatrixHasCause
  <2> QED BY <1>3, <2>5, <2>6, <2>7 DEF CachesInvariant
<1>5. CASE DropCaches(e)
  <2>1. editor' = [editor EXCEPT ![e] = Idle] /\ matrix' = NoCache /\ edits' = edits
    BY <1>5 DEF DropCaches
  <2>2. EditsAreGuarded'
    BY <1>1, <1>2, <2>1 DEF EditsAreGuarded, Idle
  <2>3. MatrixIsAccountedFor'
    BY <2>1 DEF MatrixIsAccountedFor, StaleMatrixHasCause
  <2> QED BY <1>1, <1>3, <2>1, <2>2, <2>3 DEF CachesInvariant
<1>6. CASE ManualScore(e) \/ SeedAgain(e)
  <2>1. PICK batch \in Batches : LookUp(e, batch)
    BY <1>6 DEF ManualScore, SeedAgain, Batches
  <2>2. PICK first \in batch :
          editor' = [editor EXCEPT ![e] = [at |-> "sought", batch |-> batch, first |-> first,
                                           new |-> ~Has(rows, first)]]
    BY <2>1 DEF LookUp
  <2>3. PICK new : new = ~Has(rows, first)
    OBVIOUS
  <2>4. new \in BOOLEAN
    BY <2>3
  <2>5. PICK v : v = [at |-> "sought", batch |-> batch, first |-> first, new |-> new]
    OBVIOUS
  <2>6. v \in Writes /\ v.at # "checked"
    BY <2>4, <2>5 DEF Writes
  <2>7. editor' = [editor EXCEPT ![e] = v]
    BY <2>2, <2>3, <2>5
  <2>8. /\ editor' \in [Editors -> Upserts \cup Writes \cup {Idle, UpsertCommitted}]
        /\ \A d \in Editors : editor'[d] = IF d = e THEN v ELSE editor[d]
    BY <1>1, <2>6, <2>7 DEF EditsAreGuarded
  <2>9. EditsAreGuarded'
    BY <1>1, <1>2, <2>6, <2>8 DEF EditsAreGuarded
  <2>10. UNCHANGED <<matrix, missed>> /\ edits' \in 0 .. MaxEdits
    BY <1>1, <2>1, CachesConstants DEF LookUp
  <2>11. MatrixIsAccountedFor'
    BY <1>1, <1>2, <2>10 DEF MatrixIsAccountedFor, StaleMatrixHasCause
  <2> QED BY <1>3, <2>9, <2>10, <2>11 DEF CachesInvariant
<1> QED BY <1>4, <1>5, <1>6

LEMMA CachesStay ==
  ASSUME CachesInvariant, [CachesNext]_cachesVars
  PROVE  CachesInvariant'
<1>1. CASE RouterRestart
  <2>1. /\ UNCHANGED <<rows, registry, edits, crossed, doubled>> /\ matrix' = NoCache
        /\ lookup' = [x \in Lookups |-> Idle] /\ editor' = [x \in Editors |-> Idle]
    BY <1>1 DEF RouterRestart
  <2>2. (TablesAreTables /\ OneScorePerKey /\ OneOwnerPerKey /\ edits \in 0 .. MaxEdits)'
    BY <2>1 DEF CachesInvariant, TablesAreTables, OneScorePerKey, OneScorePerRow, OneOwnerPerKey, SoleOwners
  <2>3. LookupsHoldTheTables' /\ EditsAreGuarded'
    BY <2>1 DEF LookupsHoldTheTables, Holding, EditsAreGuarded, Idle
  <2>4. MatrixIsAccountedFor'
    BY <2>1 DEF MatrixIsAccountedFor, StaleMatrixHasCause
  <2> QED BY <2>2, <2>3, <2>4 DEF CachesInvariant
<1>2. CASE UNCHANGED cachesVars
  <2>1. UNCHANGED <<rows, registry, matrix, lookup, editor, edits, missed, crossed, doubled>>
    BY <1>2 DEF cachesVars
  <2>2. (TablesAreTables /\ edits \in 0 .. MaxEdits /\ MatrixIsAccountedFor /\ OneScorePerKey /\ OneOwnerPerKey)'
    BY <2>1 DEF CachesInvariant, TablesAreTables, MatrixIsAccountedFor, StaleMatrixHasCause, OneScorePerKey, OneScorePerRow, OneOwnerPerKey, SoleOwners
  <2>3. LookupsHoldTheTables' /\ EditsAreGuarded'
    BY <2>1 DEF CachesInvariant, LookupsHoldTheTables, Holding, EditsAreGuarded
  <2> QED BY <2>2, <2>3 DEF CachesInvariant
<1> QED BY <1>1, <1>2, LookupsStay, WritesStay, DeletionsStay, CommitsStay, UpsertsStay DEF CachesNext

LEMMA CachesAreRight ==
  ASSUME CachesInvariant
  PROVE  RankingFollowsTheTables
BY PageShowsIt DEF CachesInvariant, RankingFollowsTheTables, CachesTypeOK, MatrixIsAccountedFor

-----------------------------------------------------------------------------
(* Side by side.                                                             *)

RoutingKept ==
  /\ IntentInvariant /\ RoutingInvariant /\ CachesInvariant
  /\ CreditInvariant /\ PricingInvariant /\ CatalogInvariant

LEMMA RoutingPartsRest ==
  ASSUME [MCNext]_routingParts
  PROVE  /\ [IntentNext]_intentVars /\ [RoutingNext]_routingVars /\ [CachesNext]_cachesVars
         /\ [CreditNext]_creditVars /\ [PricingNext]_pricingVars /\ [CatalogNext]_catalogVars
<1>1. CASE UNCHANGED routingParts
  BY <1>1 DEF routingParts
<1>2. CASE MCNext
  BY <1>2 DEF MCNext
<1> QED BY <1>1, <1>2

LEMMA RoutingPartsBegin ==
  ASSUME MCInit
  PROVE  RoutingKept
BY IntentStarts, RoutingStarts, CachesStart, CreditStarts, PricingStarts, CatalogStarts DEF MCInit, RoutingKept

LEMMA RoutingPartsStay ==
  ASSUME RoutingKept, [MCNext]_routingParts
  PROVE  RoutingKept'
BY RoutingPartsRest, IntentStays, RoutingStays, CachesStay, CreditStays, PricingStays, CatalogStays DEF RoutingKept

(* The credit verdict the router drops steps by follows the account: known   *)
(* figures are the account's own, no bar is drawn without a limit, a month   *)
(* counts no day twice and a DeepSeek balance is a recent one                *)
(* (credit_status, fetch_subscription, fetch_balance).                       *)
THEOREM CreditIsAlwaysFollowed == MCSpec => []CreditFollowsTheAccount
<1>1. MCInit => RoutingKept
  BY RoutingPartsBegin
<1>2. RoutingKept /\ [MCNext]_routingParts => RoutingKept'
  BY RoutingPartsStay
<1>3. RoutingKept => CreditFollowsTheAccount
  BY CreditIsFollowed DEF RoutingKept
<1> QED BY <1>1, <1>2, <1>3, PTL DEF MCSpec

(* Every bill is for the whole prompt once, at the provider's own rate for   *)
(* the model under any of its spellings and at the hour's rate, and a model  *)
(* name goes on being translated while fetches fail or race, which are a     *)
(* cooldown apart (record_cost, estimate_cost, _load_catalog).               *)
THEOREM BillsStayRight == MCSpec => []BillsAndNamesAreRight
<1>1. MCInit => RoutingKept
  BY RoutingPartsBegin
<1>2. RoutingKept /\ [MCNext]_routingParts => RoutingKept'
  BY RoutingPartsStay
<1>3. RoutingKept => BillsAndNamesAreRight
  BY PricesAreRight DEF RoutingKept, PricingInvariant, CatalogInvariant, BillsAndNamesAreRight
<1> QED BY <1>1, <1>2, <1>3, PTL DEF MCSpec

(* A request goes to the best server for what it asks: its task is one the   *)
(* profile declares, the chain keeps its steps, its head is the best step    *)
(* that can serve, the default is left only beyond the margin, and the log   *)
(* names the head that is called (classify_task_detail, select_step).        *)
THEOREM RequestsAlwaysGoToTheBestServer == MCSpec => []RequestsGoToTheBestServer
<1>1. MCInit => RoutingKept
  BY RoutingPartsBegin
<1>2. RoutingKept /\ [MCNext]_routingParts => RoutingKept'
  BY RoutingPartsStay
<1>3. RoutingKept => RequestsGoToTheBestServer
  BY DEF RoutingKept, IntentInvariant, RoutingInvariant, SettingsAreRouting, RequestIsSound, RequestsGoToTheBestServer, RoutingTypeOK
<1> QED BY <1>1, <1>2, <1>3, PTL DEF MCSpec

(* The ranking follows the tables: a cached matrix is out of date only when  *)
(* its load failed, an edit overtook it, a drop fell between its being kept  *)
(* and its tasks being counted, or an edit does not drop it; a benchmark key *)
(* scores one model and a row has one score unless two edits crossed; and    *)
(* the page shows the release that is ranked (load_matrix,                   *)
(* _serve_registry_upsert_api, effective_releases).                          *)
THEOREM RankingAlwaysFollowsTheTables == MCSpec => []RankingFollowsTheTables
<1>1. MCInit => RoutingKept
  BY RoutingPartsBegin
<1>2. RoutingKept /\ [MCNext]_routingParts => RoutingKept'
  BY RoutingPartsStay
<1>3. RoutingKept => RankingFollowsTheTables
  BY CachesAreRight DEF RoutingKept
<1> QED BY <1>1, <1>2, <1>3, PTL DEF MCSpec

(* Once an instruction is recognised only another one moves the task (a      *)
(* verdict over all user text, for want of one, may be moved by anything), a *)
(* new one is heard at once, and a plan that was measured is stored whatever *)
(* becomes of the calls that enrich it (_extract_intent_text,                *)
(* classify_task_detail, fetch_subscription).                                *)
THEOREM NothingHeardIsEverLost == MCSpec => NothingHeardIsLost
<1>1. MCInit => RoutingKept
  BY RoutingPartsBegin
<1>2. RoutingKept /\ [MCNext]_routingParts => RoutingKept'
  BY RoutingPartsStay
<1>3. RoutingKept /\ [MCNext]_routingParts
        => [NoiseKeepsTheTask /\ InstructionIsHeard /\ MeasuredPlanIsKept]_routingParts
  <2> SUFFICES ASSUME RoutingKept, [MCNext]_routingParts
               PROVE  NoiseKeepsTheTask /\ InstructionIsHeard /\ MeasuredPlanIsKept
    OBVIOUS
  <2>1. NoiseKeepsTheTask /\ InstructionIsHeard
    BY RoutingPartsRest, IntentStays DEF RoutingKept
  <2>2. MeasuredPlanIsKept \/ UNCHANGED creditVars
    BY RoutingPartsRest, CreditStays DEF RoutingKept
  <2>3. UNCHANGED creditVars => MeasuredPlanIsKept
    BY DEF creditVars, MeasuredPlanIsKept
  <2> QED BY <2>1, <2>2, <2>3
<1> QED BY <1>1, <1>2, <1>3, PTL DEF MCSpec, NothingHeardIsLost
-----------------------------------------------------------------------------
(* CostRefresher, for every set of keys, every TTL, throttle and backoff,    *)
(* and any number of endpoint calls, errors and restarts.                    *)
(* AskedIsWoken is not inductive: a request may come while the thread is     *)
(* anywhere in its loop.  Awake adds that the event stays set from the       *)
(* request until the thread is past clearing it, which it does only on its   *)
(* way to taking the requests.                                               *)
Awake == asked /\ admin # "ring" => wake \/ pc = "start"

RefresherInvariant == TypeOK /\ Awake

-----------------------------------------------------------------------------
(* Backoff is a delay, whatever the number of failures.                      *)
LEMMA BackoffDelay == \A n : Backoff(n) \in Delays
BY RefresherAssumption DEF Backoff, Delays

(* A delay that runs down is a delay.                                        *)
LEMMA LessDelays ==
  ASSUME NEW f, f \in [Keys -> Delays] PROVE Less(f) \in [Keys -> Delays]
BY RefresherAssumption DEF Less, Delays, NoGate

(* An entry that ages is an entry.                                           *)
LEMMA OlderEntry == \A e \in Entries : Older(e) \in Entries
BY RefresherAssumption DEF Older, Entries

(* _record_failure keeps the retry tables well typed.                        *)
LEMMA FailureType ==
  ASSUME TypeOK, scraping \in Keys, NEW b \in BOOLEAN, RecordFailure(b)
  PROVE  /\ failures' \in [Keys -> 0..FailureCap]
         /\ gate' \in [Keys -> Delays]
         /\ UNCHANGED <<pending, quiet, throttle, asked, owed>>
<1> DEFINE n == IF failures[scraping] < FailureCap THEN failures[scraping] + 1 ELSE FailureCap
<1>1. n \in 0..FailureCap
  BY RefresherAssumption DEF TypeOK
<1>2. (IF b THEN Backoff(n) ELSE TTL) \in Delays
  BY BackoffDelay, RefresherAssumption DEF Delays
<1> QED BY <1>1, <1>2 DEF RecordFailure, TypeOK

(* The first pass of a fresh process satisfies the invariant.                *)
LEMMA RefresherStarts == Init => RefresherInvariant
<1> SUFFICES ASSUME Init PROVE RefresherInvariant
  OBVIOUS
<1>1. NoEntries \in [Keys -> Entries]
  BY RefresherAssumption DEF NoEntries, Unscraped, Entries
<1>2. NoGates \in [Keys -> Delays]
  BY DEF NoGates, Delays
<1>3. Zero \in [Keys -> 0..FailureCap] /\ Zero \in [Keys -> 0..Throttle]
  BY RefresherAssumption DEF Zero
<1>4. TypeOK
  <2>1. asked \in BOOLEAN /\ wake \in BOOLEAN
    BY Zenon DEF Init
  <2> QED BY <1>1, <1>2, <1>3, <2>1, RefresherAssumption DEF Init, TypeOK, PCs
<1>5. Awake
  BY DEF Init, Awake
<1> QED BY <1>4, <1>5 DEF RefresherInvariant

(* Every step keeps the tables, the cache and the thread's locals well typed.*)
LEMMA RefresherTypes == TypeOK /\ [Next]_vars => TypeOK'
<1> SUFFICES ASSUME TypeOK, [Next]_vars PROVE TypeOK'
  OBVIOUS
<1> USE RefresherAssumption DEF TypeOK, PCs, tables, pass, history
<1>1. CASE WakeUp
  BY <1>1 DEF WakeUp
<1>2. CASE ClearWake
  BY <1>2 DEF ClearWake
<1>3. CASE TakePending
  <2>1. late' \subseteq Keys /\ hot' \subseteq Keys /\ todo' \subseteq Keys
        /\ taken' \subseteq Keys /\ pending' \subseteq Keys
    BY <1>3 DEF TakePending
  <2>2. asked' \in BOOLEAN
    BY <1>3, Zenon DEF TakePending
  <2>3. lag' \in 0..Throttle /\ pc' \in PCs
    BY <1>3 DEF TakePending
  <2> QED BY <1>3, <2>1, <2>2, <2>3 DEF TakePending
<1>4. CASE EndPass
  BY <1>4 DEF EndPass
<1>5. ASSUME NEW k \in Keys, Skip(k) \/ HoldBack(k) \/ PutBack(k) PROVE TypeOK'
  BY <1>5 DEF Skip, HoldBack, PutBack, Scan
<1>6. ASSUME NEW k \in Keys, BeginScrape(k) PROVE TypeOK'
  BY <1>6 DEF BeginScrape, Scan
<1>7. CASE Succeed
  <2>1. [payload |-> "data", account |-> using, marked |-> FALSE, age |-> 0] \in Entries
    BY DEF Entries
  <2>2. NoGate \in Delays
    BY DEF Delays
  <2> QED BY <1>7, <2>1, <2>2 DEF Succeed, Resume
<1>8. CASE FindNothing
  BY <1>8 DEF FindNothing, Resume
<1>9. ASSUME NEW b \in BOOLEAN, Fail(b) PROVE TypeOK'
  BY <1>9, FailureType DEF Fail
<1>10. CASE MarkEntry
  <2>1. entry' \in [Keys -> Entries]
    BY <1>10 DEF MarkEntry, Entries
  <2> QED BY <1>10, <2>1 DEF MarkEntry, Resume
<1>11. CASE ScrapeCrashes
  <2>1. scraping \in Keys
    BY <1>11 DEF ScrapeCrashes
  <2>2. /\ failures' \in [Keys -> 0..FailureCap] /\ gate' \in [Keys -> Delays]
        /\ UNCHANGED <<pending, quiet, throttle, asked, owed>>
    BY <1>11, <2>1, FailureType DEF ScrapeCrashes
  <2>3. faults' \in 0..MaxFaults
    BY <1>11 DEF ScrapeCrashes, Fault
  <2> QED BY <1>11, <2>1, <2>2, <2>3 DEF ScrapeCrashes
<1>12. CASE PassCrashes
  BY <1>12 DEF PassCrashes, Fault
<1>13. CASE SetCredentials
  BY <1>13 DEF SetCredentials, Edit
<1>14. NoEntries \in [Keys -> Entries]
  BY DEF NoEntries, Unscraped, Entries
<1>15. CASE Invalidate
  BY <1>14, <1>15 DEF Invalidate
<1>16. CASE ClearCache
  BY <1>14, <1>16 DEF ClearCache, Edit
<1>17. CASE RefreshNow
  BY <1>17 DEF RefreshNow, Edit
<1>18. NoGates \in [Keys -> Delays] /\ Zero \in [Keys -> 0..FailureCap]
       /\ Zero \in [Keys -> 0..Throttle]
  BY DEF NoGates, Delays, Zero
<1>19. CASE Enqueue
  BY <1>18, <1>19 DEF Enqueue
<1>20. CASE Ring
  BY <1>20 DEF Ring
<1>21. CASE Tick
  <2>1. entry' \in [Keys -> Entries]
    BY <1>21, OlderEntry DEF Tick
  <2>2. gate' \in [Keys -> Delays]
    BY <1>21, LessDelays DEF Tick
  <2>3. throttle' \in [Keys -> 0..Throttle]
    BY <1>21 DEF Tick, Less
  <2>4. lag' \in 0..Throttle
    BY <1>21 DEF Tick
  <2> QED BY <1>21, <2>1, <2>2, <2>3, <2>4 DEF Tick
<1>22. CASE Restart
  <2>1. faults' \in 0..MaxFaults
    BY <1>22 DEF Restart, Fault
  <2>2. failures' \in [Keys -> 0..FailureCap] /\ gate' \in [Keys -> Delays]
        /\ throttle' \in [Keys -> 0..Throttle]
    BY <1>18, <1>22 DEF Restart
  <2>3. asked' \in BOOLEAN /\ wake' \in BOOLEAN
    BY <1>22, Zenon DEF Restart
  <2> QED BY <1>22, <2>1, <2>2, <2>3 DEF Restart
<1>23. CASE UNCHANGED vars
  BY <1>23 DEF vars
<1> HIDE DEF TypeOK
<1> QED BY <1>1, <1>2, <1>3, <1>4, <1>5, <1>6, <1>7, <1>8, <1>9, <1>10, <1>11, <1>12,
           <1>13, <1>15, <1>16, <1>17, <1>19, <1>20, <1>21, <1>22, <1>23
        DEF Next, Refresh, Administer

-----------------------------------------------------------------------------
(* Every step keeps the event set for a request the thread has not taken.    *)
LEMMA RefresherAwakes == RefresherInvariant /\ [Next]_vars => Awake'
<1> SUFFICES ASSUME TypeOK, Awake, [Next]_vars PROVE Awake'
  BY DEF RefresherInvariant
<1> USE DEF Awake, tables, pass, history
<1>1. CASE WakeUp
  BY <1>1 DEF WakeUp
<1>2. CASE ClearWake
  BY <1>2 DEF ClearWake
<1>3. CASE TakePending
  BY <1>3 DEF TakePending
<1>4. CASE EndPass
  BY <1>4 DEF EndPass
<1>5. ASSUME NEW k \in Keys, Skip(k) \/ HoldBack(k) \/ PutBack(k) PROVE Awake'
  BY <1>5 DEF Skip, HoldBack, PutBack, Scan
<1>6. ASSUME NEW k \in Keys, BeginScrape(k) PROVE Awake'
  BY <1>6 DEF BeginScrape, Scan
<1>7. CASE Succeed \/ FindNothing \/ MarkEntry
  BY <1>7 DEF Succeed, FindNothing, MarkEntry, Resume
<1>8. ASSUME NEW b \in BOOLEAN, Fail(b) PROVE Awake'
  BY <1>8 DEF Fail, RecordFailure
<1>9. CASE ScrapeCrashes
  BY <1>9 DEF ScrapeCrashes, RecordFailure
<1>10. CASE PassCrashes
  BY <1>10 DEF PassCrashes
<1>11. CASE SetCredentials \/ ClearCache \/ RefreshNow
  BY <1>11 DEF SetCredentials, ClearCache, RefreshNow, Edit
<1>12. CASE Invalidate
  BY <1>12 DEF Invalidate
<1>13. CASE Enqueue
  BY <1>13 DEF Enqueue
<1>14. CASE Ring
  BY <1>14 DEF Ring
<1>15. CASE Tick
  BY <1>15 DEF Tick
<1>16. CASE Restart
  BY <1>16 DEF Restart
<1>17. CASE UNCHANGED vars
  BY <1>17 DEF vars
<1> HIDE DEF Awake
<1> QED BY <1>1, <1>2, <1>3, <1>4, <1>5, <1>6, <1>7, <1>8, <1>9, <1>10, <1>11, <1>12,
           <1>13, <1>14, <1>15, <1>16, <1>17
        DEF Next, Refresh, Administer

(* The invariant the theorems below are read off from.                       *)
THEOREM RefresherInvariance == Spec => []RefresherInvariant
<1>1. RefresherInvariant /\ [Next]_vars => RefresherInvariant'
  BY RefresherTypes, RefresherAwakes DEF RefresherInvariant
<1> QED BY RefresherStarts, <1>1, PTL DEF Spec

(* The cache, the retry tables and the thread's locals keep their types; no  *)
(* backoff is longer than its cap or the TTL.                                *)
THEOREM RefresherTypeCorrect == Spec => []TypeOK
<1>1. RefresherInvariant => TypeOK
  BY DEF RefresherInvariant
<1> QED BY <1>1, RefresherInvariance, PTL

(* No wakeup is lost between request_refresh and the refresher's loop.       *)
THEOREM NoLostWakeup == Spec => []AskedIsWoken
<1>1. RefresherInvariant => AskedIsWoken
  BY DEF RefresherInvariant, Awake, AskedIsWoken
<1> QED BY <1>1, RefresherInvariance, PTL

(* The refresher never removes a good payload or stores an error over it.    *)
THEOREM PayloadKept == Spec => GoodPayloadKept
<1>1. RefresherInvariant /\ [Next]_vars => [KeepsData]_vars
  <2> SUFFICES ASSUME TypeOK, Refresh, NEW k \in Keys, entry[k].payload = "data"
               PROVE  entry'[k].payload = "data"
    BY DEF RefresherInvariant, KeepsData
  <2>1. CASE Succeed
    BY <2>1 DEF Succeed, TypeOK
  <2>2. CASE MarkEntry
    BY <2>2 DEF MarkEntry, TypeOK
  <2>3. CASE ~Succeed /\ ~MarkEntry
    <3>1. entry' = entry
      BY <2>3 DEF Refresh, WakeUp, ClearWake, TakePending, EndPass, Skip, PutBack, HoldBack,
         BeginScrape, FindNothing, Fail, ScrapeCrashes, PassCrashes
    <3> QED BY <3>1
  <2> QED BY <2>1, <2>2, <2>3
<1> QED BY <1>1, RefresherInvariance, PTL DEF Spec, GoodPayloadKept
=============================================================================

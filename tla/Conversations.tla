---------------------------- MODULE Conversations ----------------------------
(* What LCP keeps of the conversations it serves: the message store that     *)
(* every served request appends to (conv_store), the requests and routing    *)
(* rows and the conversation id stamped on them, and the conversations table *)
(* that captures and the lazy synchronisation both write.  The client owns   *)
(* its history: it sends all of it with every request, and gets the reply    *)
(* before the request is captured.  One profile.                             *)
EXTENDS Integers, FiniteSets, Sequences, SequencesExt, FiniteSetsExt

CONSTANTS
  Talks,                 \* conversations: values of x-opencode-session
  Texts, Said, Reply,    \* texts, those that clients send, and what models answer
  Capped,                \* a text after the cut at MESSAGE_CAP
  TalkModels,            \* models of the chain, in SQL's order
  StampSlack,            \* the 30 seconds of stamp_new
  SyncStale,             \* _SYNC_STALE_SECONDS
  MaxAsks, MaxRewrites, MaxCaptureFaults, MaxTalkTime

NoTalk == "null"

ASSUME TalkAssumption ==
  /\ NoTalk \notin Talks
  /\ Said \cup {Reply} \subseteq Texts /\ Capped \in [Texts -> Texts]
  /\ \A x \in Texts : Capped[Capped[x]] = Capped[x]
  /\ TalkModels \subseteq Nat
  /\ StampSlack \in Nat /\ SyncStale \in Nat
  /\ MaxAsks \in Nat /\ MaxRewrites \in Nat /\ MaxCaptureFaults \in Nat /\ MaxTalkTime \in Nat

NoRow == [messages |-> -1]

VARIABLES
  history,    \* the history each client sends
  transcript, \* conv_messages, in the order of seq
  reqRows,    \* the requests table: conversation, model, time
  routeRows,  \* routing_decisions: conversation, time, and whose it is
  talks,      \* the conversations table
  serving,    \* what each thread is doing
  hour,       \* the time
  syncAt,     \* the setting convo_sync_ts
  diverged,   \* conversations whose client took back something it had sent
  lapsed,     \* conversations whose last capture failed after it had written
  overlapped, \* conversations whose last counting began while another one was under way
  asksLeft, rewritesLeft, captureFaultsLeft

convVars == <<history, transcript, reqRows, routeRows, talks, serving, hour, syncAt, diverged, lapsed,
              overlapped, asksLeft, rewritesLeft, captureFaultsLeft>>
convBounds == <<asksLeft, rewritesLeft, captureFaultsLeft>>
tables == <<transcript, reqRows, routeRows, talks, syncAt>>

Resting == [at |-> "idle"]
Servers == 1..MaxAsks    \* ThreadingHTTPServer starts a thread for every request

ConvInit ==
  /\ history = [c \in Talks |-> <<>>] /\ transcript = [c \in Talks |-> <<>>]
  /\ reqRows = <<>> /\ routeRows = <<>> /\ talks = [c \in Talks |-> NoRow]
  /\ serving = [t \in Servers |-> Resting]
  /\ hour = 0 /\ syncAt = -SyncStale /\ diverged = {} /\ lapsed = {} /\ overlapped = {}
  /\ asksLeft = MaxAsks /\ rewritesLeft = MaxRewrites /\ captureFaultsLeft = MaxCaptureFaults

-----------------------------------------------------------------------------
(* The client *)

Waiting(c) == \E t \in Servers : serving[t].at = "call" /\ serving[t].conv = c

(* A new turn; the router logs its decision before the call. *)
Ask(t, c, x) ==
  /\ asksLeft > 0 /\ asksLeft' = asksLeft - 1 /\ t = MaxAsks - asksLeft'
  /\ ~Waiting(c)
  /\ history' = [history EXCEPT ![c] = Append(@, x)]
  /\ serving' = [serving EXCEPT ![t] = [at |-> "call", conv |-> c, says |-> Append(history[c], x)]]
  /\ routeRows' = Append(routeRows, [conv |-> NoTalk, when |-> hour, of |-> c])
  /\ UNCHANGED <<transcript, reqRows, talks, hour, syncAt, diverged, lapsed, overlapped, rewritesLeft, captureFaultsLeft>>

(* The client compacts its history: the oldest message is gone. *)
Compact(c) ==
  /\ rewritesLeft > 0 /\ rewritesLeft' = rewritesLeft - 1
  /\ ~Waiting(c) /\ history[c] # <<>>
  /\ history' = [history EXCEPT ![c] = Tail(@)]
  /\ diverged' = diverged \cup {c}
  /\ UNCHANGED <<tables, serving, hour, lapsed, overlapped, asksLeft, captureFaultsLeft>>

-----------------------------------------------------------------------------
(* record_cost and stamp_new *)

InSlack(row) == row.conv = NoTalk /\ row.when >= hour - StampSlack /\ row.when <= hour + StampSlack

\* Mutant: every row that carries no conversation yet is stamped.
StampedAnytime(rows, c) == [i \in DOMAIN rows |-> IF rows[i].conv = NoTalk THEN [rows[i] EXCEPT !.conv = c] ELSE rows[i]]

Stamped(rows, c) == [i \in DOMAIN rows |-> IF InSlack(rows[i]) THEN [rows[i] EXCEPT !.conv = c] ELSE rows[i]]

\* Mutant: the request row, too, is found by the time window and not by its id.
AnswerByWindow(t, m, ok) ==
  LET c == serving[t].conv IN
  /\ serving[t].at = "call"
  /\ ok \/ captureFaultsLeft > 0
  /\ captureFaultsLeft' = IF ok THEN captureFaultsLeft ELSE captureFaultsLeft - 1
  /\ reqRows' = LET rows == Append(reqRows, [conv |-> NoTalk, model |-> m, when |-> hour, of |-> c])
                IN IF ok THEN Stamped(rows, c) ELSE rows
  /\ routeRows' = IF ok THEN Stamped(routeRows, c) ELSE routeRows
  /\ history' = [history EXCEPT ![c] = Append(@, Reply)]
  /\ serving' = [serving EXCEPT ![t] = [at |-> "read", conv |-> c, model |-> m, says |-> Append(serving[t].says, Reply)]]
  /\ UNCHANGED <<transcript, talks, hour, syncAt, diverged, lapsed, overlapped, asksLeft, rewritesLeft>>

(* The answer: its cost row, the stamps (best effort), and the reply to the  *)
(* client, who may go on while this request is captured.                     *)
Answer(t, m, ok) ==
  LET c == serving[t].conv IN
  /\ serving[t].at = "call"
  /\ ok \/ captureFaultsLeft > 0
  /\ captureFaultsLeft' = IF ok THEN captureFaultsLeft ELSE captureFaultsLeft - 1
  /\ reqRows' = Append(reqRows, [conv |-> IF ok THEN c ELSE NoTalk, model |-> m, when |-> hour, of |-> c])
  /\ routeRows' = IF ok THEN Stamped(routeRows, c) ELSE routeRows
  /\ history' = [history EXCEPT ![c] = Append(@, Reply)]
  /\ serving' = [serving EXCEPT ![t] = [at |-> "read", conv |-> c, model |-> m, says |-> Append(serving[t].says, Reply)]]
  /\ UNCHANGED <<transcript, talks, hour, syncAt, diverged, lapsed, overlapped, asksLeft, rewritesLeft>>

-----------------------------------------------------------------------------
(* capture_request *)

Row(x) == [text |-> Capped[x], cut |-> Capped[x] # x]
Prepared(says) == [i \in DOMAIN says |-> Row(says[i])]

Matched(stored, coming) == Len(LongestCommonPrefix({stored, coming}))

\* Mutant: a message that is stored anywhere in the conversation is not new.
ReadAsASet(t) ==
  LET s == serving[t]
      stored == transcript[s.conv]
      fresh == SelectSeq(Prepared(s.says), LAMBDA m : m.text \notin {stored[i].text : i \in DOMAIN stored}) IN
  /\ s.at = "read"
  /\ serving' = [serving EXCEPT ![t] =
       IF fresh = <<>> THEN Resting
       ELSE [at |-> "write", conv |-> s.conv, model |-> s.model, from |-> Len(stored), fresh |-> fresh]]
  /\ UNCHANGED <<history, tables, hour, diverged, lapsed, overlapped, convBounds>>

(* append_messages: what is stored is read without a transaction ...         *)
ReadStored(t) ==
  LET s == serving[t]
      stored == transcript[s.conv]
      coming == Prepared(s.says)
      fresh == SubSeq(coming, Matched(stored, coming) + 1, Len(coming)) IN
  /\ s.at = "read"
  /\ serving' = [serving EXCEPT ![t] =
       IF fresh = <<>> THEN Resting
       ELSE [at |-> "write", conv |-> s.conv, model |-> s.model, from |-> Len(stored), fresh |-> fresh]]
  /\ UNCHANGED <<history, tables, hour, diverged, lapsed, overlapped, convBounds>>

Replaced(stored, from, fresh) ==
  SubSeq(stored, 1, from) \o fresh \o SubSeq(stored, from + Len(fresh) + 1, Len(stored))

\* Mutant: the new rows are numbered after what the table holds when they are written.
WriteAtEnd(t) ==
  LET s == serving[t] IN
  /\ s.at = "write"
  /\ transcript' = [transcript EXCEPT ![s.conv] = @ \o s.fresh]
  /\ serving' = [serving EXCEPT ![t] = [at |-> "rollup", conv |-> s.conv, model |-> s.model]]
  /\ UNCHANGED <<history, reqRows, routeRows, talks, hour, syncAt, diverged, lapsed, overlapped, convBounds>>

(* ... and the suffix is written where that reading ended, over whatever     *)
(* another capture has put there since.                                      *)
WriteRows(t) ==
  LET s == serving[t] IN
  /\ s.at = "write"
  /\ transcript' = [transcript EXCEPT ![s.conv] = Replaced(@, s.from, s.fresh)]
  /\ serving' = [serving EXCEPT ![t] = [at |-> "rollup", conv |-> s.conv, model |-> s.model]]
  /\ UNCHANGED <<history, reqRows, routeRows, talks, hour, syncAt, diverged, lapsed, overlapped, convBounds>>

\* Mutant: the ends of the window are compared the wrong way round.
UpsertSwapped(t) ==
  LET s == serving[t]
      old == talks[s.conv] IN
  /\ s.at = "rollup"
  /\ talks' = [talks EXCEPT ![s.conv] =
       IF old = NoRow THEN [messages |-> 0, model |-> s.model, first |-> hour, last |-> hour, calls |-> 0]
       ELSE [old EXCEPT !.model = s.model, !.first = Max({@, hour}), !.last = Min({@, hour})]]
  /\ serving' = [serving EXCEPT ![t] = [at |-> "count", conv |-> s.conv]]
  /\ UNCHANGED <<history, transcript, reqRows, routeRows, hour, syncAt, diverged, lapsed, overlapped, convBounds>>

(* upsert_conversation: the row is there, and its window covers this time. *)
Upsert(t) ==
  LET s == serving[t]
      old == talks[s.conv] IN
  /\ s.at = "rollup"
  /\ talks' = [talks EXCEPT ![s.conv] =
       IF old = NoRow THEN [messages |-> 0, model |-> s.model, first |-> hour, last |-> hour, calls |-> 0]
       ELSE [old EXCEPT !.model = s.model, !.first = Min({@, hour}), !.last = Max({@, hour})]]
  /\ serving' = [serving EXCEPT ![t] = [at |-> "count", conv |-> s.conv]]
  /\ UNCHANGED <<history, transcript, reqRows, routeRows, hour, syncAt, diverged, lapsed, overlapped, convBounds>>

(* recount_conversation: the counts are counted again, never incremented ... *)
CountStored(t) ==
  LET c == serving[t].conv IN
  /\ serving[t].at = "count"
  /\ serving' = [serving EXCEPT ![t] = [at |-> "recount", conv |-> c, count |-> Len(transcript[c])]]
  /\ lapsed' = lapsed \ {c}
  /\ overlapped' = IF \E u \in Servers : serving[u].at = "recount" /\ serving[u].conv = c
                   THEN overlapped \cup {c} ELSE overlapped \ {c}
  /\ UNCHANGED <<history, tables, hour, diverged, convBounds>>

\* Mutant: a count is written only to a conversation that has none yet.
WriteFirstCount(t) ==
  LET s == serving[t] IN
  /\ s.at = "recount"
  /\ talks' = [talks EXCEPT ![s.conv].messages = IF @ = 0 THEN s.count ELSE @]
  /\ serving' = [serving EXCEPT ![t] = Resting]
  /\ UNCHANGED <<history, transcript, reqRows, routeRows, hour, syncAt, diverged, lapsed, overlapped, convBounds>>

(* ... and written in a statement of its own, whatever was stored since.     *)
WriteCount(t) ==
  LET s == serving[t] IN
  /\ s.at = "recount"
  /\ talks' = [talks EXCEPT ![s.conv].messages = s.count]
  /\ serving' = [serving EXCEPT ![t] = Resting]
  /\ UNCHANGED <<history, transcript, reqRows, routeRows, hour, syncAt, diverged, lapsed, overlapped, convBounds>>

(* Any step of the capture may raise; the rest of it is skipped. *)
CaptureFails(t) ==
  /\ serving[t].at \in {"read", "write", "rollup", "count", "recount"}
  /\ captureFaultsLeft > 0 /\ captureFaultsLeft' = captureFaultsLeft - 1
  /\ lapsed' = IF serving[t].at \in {"rollup", "count", "recount"} THEN lapsed \cup {serving[t].conv} ELSE lapsed
  /\ serving' = [serving EXCEPT ![t] = Resting]
  /\ UNCHANGED <<history, tables, hour, diverged, overlapped, asksLeft, rewritesLeft>>

-----------------------------------------------------------------------------
(* sync_conversations, which a look at the list starts when it is stale *)

RowsOf(c) == {i \in DOMAIN reqRows : reqRows[i].conv = c}
Group(c, m) == {i \in RowsOf(c) : reqRows[i].model = m}

(* One group per conversation and model is written to the same row, in       *)
(* order: the last one stays.                                                *)
Synced(c) ==
  LET m == Max({reqRows[i].model : i \in RowsOf(c)})
      times == {reqRows[i].when : i \in Group(c, m)} IN
  [messages |-> IF talks[c] = NoRow THEN 0 ELSE talks[c].messages, model |-> m,
   first |-> Min(times), last |-> Max(times), calls |-> Cardinality(Group(c, m))]

ShowList ==
  /\ hour - syncAt >= SyncStale
  /\ talks' = [c \in Talks |-> IF RowsOf(c) = {} THEN talks[c] ELSE Synced(c)]
  /\ syncAt' = hour
  /\ UNCHANGED <<history, transcript, reqRows, routeRows, serving, hour, diverged, lapsed, overlapped, convBounds>>

ConvTick == hour < MaxTalkTime /\ hour' = hour + 1
            /\ UNCHANGED <<history, tables, serving, diverged, lapsed, overlapped, convBounds>>

CaptureStep(t) == ReadStored(t) \/ WriteRows(t) \/ Upsert(t) \/ CountStored(t) \/ WriteCount(t)

ConvNext ==
  \/ \E t \in Servers :
       \/ CaptureStep(t) \/ CaptureFails(t)
       \/ \E c \in Talks, x \in Said : Ask(t, c, x)
       \/ \E m \in TalkModels, ok \in BOOLEAN : Answer(t, m, ok)
  \/ \E c \in Talks : Compact(c)
  \/ ShowList \/ ConvTick

ConvSpec == ConvInit /\ [][ConvNext]_convVars

-----------------------------------------------------------------------------
(* Well-formed tables (conv_messages, requests, conversations). *)
ConvTypeOK ==
  /\ \A c \in Talks : transcript[c] \in Seq([text : Texts, cut : BOOLEAN])
  /\ \A c \in Talks : talks[c] # NoRow =>
       /\ talks[c].messages \in Nat /\ talks[c].calls \in Nat
       /\ talks[c].first \in Nat /\ talks[c].first <= talks[c].last
  /\ \A i \in DOMAIN reqRows : reqRows[i].conv \in Talks \cup {NoTalk} /\ reqRows[i].model \in TalkModels

(* While a client only adds to its history, the transcript is an initial     *)
(* part of what was said, in order and without gaps or repetitions: however  *)
(* captures of one conversation overlap, and whichever of them fail          *)
(* (append_messages: positional comparison, INSERT OR REPLACE).              *)
TranscriptIsWhatWasSaid ==
  \A c \in Talks \ diverged : IsPrefix(transcript[c], Prepared(history[c]))

(* Nothing that reached the store is lost: with no capture of the            *)
(* conversation under way and none of its captures failed, the transcript of *)
(* a client that only adds holds everything up to the last reply.            *)
NothingIsForgotten ==
  captureFaultsLeft = MaxCaptureFaults =>
    \A c \in Talks \ diverged :
      (\A t \in Servers : serving[t] # Resting => serving[t].conv # c) => transcript[c] = Prepared(history[c])

(* The message count of the list is the number of stored messages once the   *)
(* captures of the conversation are over, unless the last of them failed     *)
(* between the messages and the count, or began to count while another was   *)
(* between its COUNT and its UPDATE; the next capture that counts alone puts *)
(* it right (recount_conversation).                                          *)
CountsAreExact ==
  \A c \in Talks \ (lapsed \cup overlapped) :
    (\A t \in Servers : serving[t].at \in {"rollup", "count", "recount"} => serving[t].conv # c)
    => talks[c].messages = Len(transcript[c]) \/ (talks[c] = NoRow /\ transcript[c] = <<>>)

(* A request is listed under its own conversation or under none (stamp_new   *)
(* finds it by its id), and the calls that the list counts are calls of that *)
(* conversation.                                                             *)
CallsAreItsOwn ==
  /\ \A i \in DOMAIN reqRows : reqRows[i].conv \in {NoTalk, reqRows[i].of}
  /\ \A c \in Talks : talks[c] = NoRow \/ talks[c].calls <= Cardinality({i \in DOMAIN reqRows : reqRows[i].of = c})

(* A routing row under somebody else's conversation was logged close to      *)
(* another conversation's answer (stamp_new matches by profile and time).    *)
StampsHaveACause ==
  \A i \in DOMAIN routeRows :
    routeRows[i].conv \notin {NoTalk, routeRows[i].of} =>
      \E j \in DOMAIN reqRows : /\ reqRows[j].of = routeRows[i].conv
                                /\ reqRows[j].when <= routeRows[i].when + StampSlack

(* "the next request of a live conversation adds only its new turns -- no     *)
(* duplicated transcripts" (conv_store): what is stored is never longer than *)
(* what was said.                                                            *)
NoDuplicatedTranscripts ==
  \A c \in Talks : Len(transcript[c]) <= 2 * (MaxAsks - asksLeft)

(* "which keeps the stamp from touching unrelated traffic" (stamp_new). *)
StampLeavesOthersAlone ==
  \A i \in DOMAIN routeRows : routeRows[i].conv \in {NoTalk, routeRows[i].of}

(* "this only ever widens them, so the two writers cannot fight" (conv_      *)
(* store): the window of the list never narrows.                             *)
WindowOnlyWidens ==
  [][\A c \in Talks : talks[c] # NoRow => talks'[c].first <= talks[c].first /\ talks'[c].last >= talks[c].last]_convVars

(* What is stored of conversations served at once is what was said in them:  *)
(* transcripts, counts, the calls of each, and whose stamp a routing row     *)
(* bears (capture_request, sync_conversations, stamp_new).                   *)
ConversationsAreKept ==
  /\ ConvTypeOK
  /\ TranscriptIsWhatWasSaid /\ NothingIsForgotten /\ CountsAreExact
  /\ CallsAreItsOwn /\ StampsHaveACause
=============================================================================

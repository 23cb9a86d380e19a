--------------------------- MODULE ConsoleSession ---------------------------
(* The session that the OpenCode plugin keeps with the provider's console:   *)
(* an operator's login from the command line (device code, or a pasted       *)
(* callback), access tokens that expire, refresh tokens that the provider    *)
(* may rotate, and one encrypted blob that every thread and the command line *)
(* load, change and save as a whole, without a lock.                         *)
EXTENDS Naturals, FiniteSets

CONSTANTS
  Fetchers,            \* threads that need a console token
  Lifetime, Skew,      \* expires_in; REFRESH_SKEW_SEC
  PollInterval, PollDeadline, SlowDown, \* of poll_device_token
  MaxConsoleTime, MaxLogins, MaxFetches, MaxConsoleFaults

(* The console's access tokens live longer than the skew: a fresh one is     *)
(* handed out without a look at its expiry.                                  *)
ASSUME ConsoleAssumption ==
  /\ IsFiniteSet(Fetchers)
  /\ Lifetime \in Nat /\ Skew \in Nat /\ Lifetime > Skew
  /\ PollInterval \in Nat /\ PollDeadline \in Nat /\ SlowDown \in Nat
  /\ MaxLogins \in Nat /\ MaxFetches \in Nat

NoSession == 0
NoBlob == [session |-> NoSession, refreshGen |-> 0, until |-> 0, expires |-> 0, org |-> FALSE]

VARIABLES
  grants,        \* the provider: the refresh token it accepts, per session
  blob,          \* the stored credential
  fetchers, cli, \* what the threads and the command line are doing
  consoleTime,
  crossed,       \* a save replaced a blob that was not the one it was made from
  lost,          \* a rotated refresh token did not reach the store
  orgOf,         \* the session whose org id was saved
  fetchesLeft, consoleFaultsLeft

consoleVars == <<grants, blob, fetchers, cli, consoleTime, crossed, lost, orgOf, fetchesLeft, consoleFaultsLeft>>

Sessions == 1..MaxLogins
LoginOpened == {s \in Sessions : grants[s] > 0}
Free == [at |-> "idle"]
CliFree == [at |-> "idle"]

ConsoleInit ==
  /\ grants = [s \in Sessions |-> 0]
  /\ blob = NoBlob
  /\ fetchers = [f \in Fetchers |-> Free] /\ cli = CliFree
  /\ consoleTime = 0 /\ crossed = FALSE /\ lost = FALSE /\ orgOf = NoSession
  /\ fetchesLeft = MaxFetches /\ consoleFaultsLeft = MaxConsoleFaults

-----------------------------------------------------------------------------
(* current_access_token *)

\* Mutant: a token is used until its last second.
FreshToTheEnd(b) == b.session # NoSession /\ (b.expires = 0 \/ b.expires > consoleTime)

(* A token without an expiry counts as fresh. *)
TokenIsFresh(b) == b.session # NoSession /\ (b.expires = 0 \/ b.expires > consoleTime + Skew)

(* The access token a fetcher goes on with, which it got or checked at when. *)
Returned(b, when, ok) == [at |-> "token", until |-> b.until, when |-> when, timed |-> b.expires > 0, ok |-> ok]

LoadTokens(f) ==
  /\ fetchers[f] = Free /\ fetchesLeft > 0 /\ fetchesLeft' = fetchesLeft - 1
  /\ blob.session # NoSession
  /\ fetchers' = [fetchers EXCEPT ![f] = IF TokenIsFresh(blob) THEN Returned(blob, consoleTime, TRUE)
                                         ELSE [at |-> "refresh", loaded |-> blob]]
  /\ UNCHANGED <<grants, blob, cli, consoleTime, crossed, lost, orgOf, consoleFaultsLeft>>

\* Mutant: a response without a refresh token means there is none.
MergeAnswerOnly(b, gen, timed) ==
  [b EXCEPT !.refreshGen = IF gen = b.refreshGen THEN 0 ELSE gen, !.until = consoleTime + Lifetime,
            !.expires = IF timed THEN consoleTime + Lifetime ELSE 0]

\* Mutant: the new state is built from the response alone.
MergeAnew(b, gen, timed) ==
  [b EXCEPT !.refreshGen = gen, !.until = consoleTime + Lifetime,
            !.expires = IF timed THEN consoleTime + Lifetime ELSE 0, !.org = FALSE]

(* merge_tokens: a refresh token that is omitted is kept, and so is all else. *)
Merge(b, gen, timed) ==
  [b EXCEPT !.refreshGen = gen, !.until = consoleTime + Lifetime,
            !.expires = IF timed THEN consoleTime + Lifetime ELSE 0]

(* refresh succeeds; the provider rotates the refresh token or omits it, and *)
(* says when the access token expires or does not.                           *)
RefreshAnswered(f, rotate, timed) ==
  LET b == fetchers[f].loaded
      gen == IF rotate THEN b.refreshGen + 1 ELSE b.refreshGen IN
  /\ fetchers[f].at = "refresh" /\ grants[b.session] = b.refreshGen
  /\ grants' = [grants EXCEPT ![b.session] = gen]
  /\ fetchers' = [fetchers EXCEPT ![f] = [at |-> "save", loaded |-> b, merged |-> Merge(b, gen, timed), when |-> consoleTime]]
  /\ UNCHANGED <<blob, cli, consoleTime, crossed, lost, orgOf, fetchesLeft, consoleFaultsLeft>>

(* refresh fails: the token is no longer accepted, or the provider cannot be *)
(* reached, or its answer is lost on the way.  The old access token is       *)
(* returned.                                                                 *)
RefreshFails(f, rotated) ==
  LET b == fetchers[f].loaded IN
  /\ fetchers[f].at = "refresh"
  /\ IF grants[b.session] # b.refreshGen THEN ~rotated /\ UNCHANGED <<grants, lost, consoleFaultsLeft>>
     ELSE /\ consoleFaultsLeft > 0 /\ consoleFaultsLeft' = consoleFaultsLeft - 1
          /\ grants' = IF rotated THEN [grants EXCEPT ![b.session] = @ + 1] ELSE grants
          /\ lost' = (lost \/ rotated)
  /\ fetchers' = [fetchers EXCEPT ![f] = Returned(b, consoleTime, FALSE)]
  /\ UNCHANGED <<blob, cli, consoleTime, crossed, orgOf, fetchesLeft>>

Saving(new, loaded) ==
  /\ blob' = new
  /\ crossed' = (crossed \/ blob # loaded)

(* A save that fails is logged, and the new token returned all the same. *)
SaveTokens(f, ok) ==
  LET w == fetchers[f] IN
  /\ w.at = "save" /\ (ok \/ consoleFaultsLeft > 0)
  /\ IF ok THEN Saving(w.merged, w.loaded) /\ UNCHANGED <<lost, consoleFaultsLeft>>
     ELSE lost' = TRUE /\ consoleFaultsLeft' = consoleFaultsLeft - 1 /\ UNCHANGED <<blob, crossed>>
  /\ fetchers' = [fetchers EXCEPT ![f] = Returned(w.merged, w.when, TRUE)]
  /\ UNCHANGED <<grants, cli, consoleTime, orgOf, fetchesLeft>>

(* resolve_org_id: an org id that is not stored is asked for and remembered, *)
(* which loads the blob ...                                                  *)
LoadForOrg(f) ==
  /\ fetchers[f].at = "token" /\ ~blob.org
  /\ fetchers' = [fetchers EXCEPT ![f] = [at |-> "org", loaded |-> blob]]
  /\ UNCHANGED <<grants, blob, cli, consoleTime, crossed, lost, orgOf, fetchesLeft, consoleFaultsLeft>>

(* ... and saves it with the org id, also when it was cleared meanwhile. *)
SaveOrg(f) ==
  LET b == fetchers[f].loaded IN
  /\ fetchers[f].at = "org"
  /\ Saving([b EXCEPT !.org = TRUE], b)
  /\ orgOf' = b.session
  /\ fetchers' = [fetchers EXCEPT ![f] = Free]
  /\ UNCHANGED <<grants, cli, consoleTime, lost, fetchesLeft, consoleFaultsLeft>>

UseToken(f) ==
  /\ fetchers[f].at = "token"
  /\ fetchers' = [fetchers EXCEPT ![f] = Free]
  /\ UNCHANGED <<grants, blob, cli, consoleTime, crossed, lost, orgOf, fetchesLeft, consoleFaultsLeft>>

-----------------------------------------------------------------------------
(* Logging in from the command line *)

NewSession == CHOOSE s \in Sessions \ LoginOpened : \A t \in Sessions \ LoginOpened : s <= t
Granted(timed) == Merge([NoBlob EXCEPT !.session = NewSession], 1, timed)

StartDevice ==
  /\ cli = CliFree /\ LoginOpened # Sessions
  /\ cli' = [at |-> "poll", elapsed |-> 0, wait |-> PollInterval]
  /\ UNCHANGED <<grants, blob, fetchers, consoleTime, crossed, lost, orgOf, fetchesLeft, consoleFaultsLeft>>

\* Mutant: the deadline is not looked at.
PollOn(slow) ==
  /\ cli.at = "poll"
  /\ cli' = [cli EXCEPT !.elapsed = @ + cli.wait, !.wait = IF slow THEN @ + SlowDown ELSE @]
  /\ UNCHANGED <<grants, blob, fetchers, consoleTime, crossed, lost, orgOf, fetchesLeft, consoleFaultsLeft>>

\* Mutant: "slow_down" starts the waiting over.
PollOver(slow) ==
  /\ cli.at = "poll" /\ cli.elapsed < PollDeadline
  /\ cli' = [cli EXCEPT !.elapsed = IF slow THEN 0 ELSE @ + cli.wait]
  /\ UNCHANGED <<grants, blob, fetchers, consoleTime, crossed, lost, orgOf, fetchesLeft, consoleFaultsLeft>>

(* A sleep and "authorization_pending", or "slow_down". *)
PollAgain(slow) ==
  /\ cli.at = "poll" /\ cli.elapsed < PollDeadline
  /\ cli' = [cli EXCEPT !.elapsed = @ + cli.wait, !.wait = IF slow THEN @ + SlowDown ELSE @]
  /\ UNCHANGED <<grants, blob, fetchers, consoleTime, crossed, lost, orgOf, fetchesLeft, consoleFaultsLeft>>

PollExpires ==
  /\ cli.at = "poll" /\ cli.elapsed >= PollDeadline
  /\ cli' = CliFree
  /\ UNCHANGED <<grants, blob, fetchers, consoleTime, crossed, lost, orgOf, fetchesLeft, consoleFaultsLeft>>

(* The login was refused, or the console cannot be reached. *)
LoginFails ==
  /\ cli.at \in {"poll", "pkce"} /\ (cli.at = "poll" => cli.elapsed < PollDeadline)
  /\ cli' = CliFree
  /\ UNCHANGED <<grants, blob, fetchers, consoleTime, crossed, lost, orgOf, fetchesLeft, consoleFaultsLeft>>

Approved(timed) ==
  /\ cli.at = "poll" /\ cli.elapsed < PollDeadline /\ LoginOpened # Sessions
  /\ grants' = [grants EXCEPT ![NewSession] = 1]
  /\ cli' = [at |-> "store", new |-> Granted(timed)]
  /\ UNCHANGED <<blob, fetchers, consoleTime, crossed, lost, orgOf, fetchesLeft, consoleFaultsLeft>>

(* The pending file of a PKCE login, until its callback is pasted. *)
StartPkce ==
  /\ cli = CliFree /\ LoginOpened # Sessions /\ cli' = [at |-> "pkce"]
  /\ UNCHANGED <<grants, blob, fetchers, consoleTime, crossed, lost, orgOf, fetchesLeft, consoleFaultsLeft>>

CompletePkce(timed) ==
  /\ cli.at = "pkce"
  /\ grants' = [grants EXCEPT ![NewSession] = 1]
  /\ cli' = [at |-> "store", new |-> Granted(timed)]
  /\ UNCHANGED <<blob, fetchers, consoleTime, crossed, lost, orgOf, fetchesLeft, consoleFaultsLeft>>

(* The new session replaces the stored one, whatever that is; then the org   *)
(* id is added in the same way as above.                                     *)
StoreSession ==
  /\ cli.at = "store"
  /\ blob' = cli.new /\ lost' = FALSE
  /\ crossed' = (\E f \in Fetchers : fetchers[f].at \in {"refresh", "save", "org"})
  /\ cli' = CliFree
  /\ UNCHANGED <<grants, fetchers, consoleTime, orgOf, fetchesLeft, consoleFaultsLeft>>

ClearSession ==
  /\ consoleFaultsLeft > 0 /\ consoleFaultsLeft' = consoleFaultsLeft - 1
  /\ blob' = NoBlob
  /\ UNCHANGED <<grants, fetchers, cli, consoleTime, crossed, lost, orgOf, fetchesLeft>>

ConsoleTick ==
  /\ consoleTime < MaxConsoleTime /\ consoleTime' = consoleTime + 1
  /\ UNCHANGED <<grants, blob, fetchers, cli, crossed, lost, orgOf, fetchesLeft, consoleFaultsLeft>>

ConsoleCrash ==
  /\ consoleFaultsLeft > 0 /\ consoleFaultsLeft' = consoleFaultsLeft - 1
  /\ lost' = (lost \/ \E f \in Fetchers : fetchers[f].at = "save")
  /\ fetchers' = [f \in Fetchers |-> Free]
  /\ UNCHANGED <<grants, blob, cli, consoleTime, crossed, orgOf, fetchesLeft>>

PollStep == PollExpires \/ (\E slow \in BOOLEAN : PollAgain(slow))

ConsoleNext ==
  \/ \E f \in Fetchers :
       \/ LoadTokens(f) \/ LoadForOrg(f) \/ SaveOrg(f) \/ UseToken(f)
       \/ \E b \in BOOLEAN : SaveTokens(f, b) \/ RefreshFails(f, b) \/ \E t \in BOOLEAN : RefreshAnswered(f, b, t)
  \/ StartDevice \/ PollStep \/ LoginFails \/ StartPkce \/ StoreSession
  \/ \E timed \in BOOLEAN : Approved(timed) \/ CompletePkce(timed)
  \/ ClearSession \/ ConsoleTick \/ ConsoleCrash

(* The operator may answer or not; the command keeps polling. *)
ConsoleSpec == ConsoleInit /\ [][ConsoleNext]_consoleVars /\ WF_consoleVars(PollStep)

-----------------------------------------------------------------------------
(* Well-formed sessions (save_tokens). *)
ConsoleTypeOK ==
  /\ blob.session \in 0..MaxLogins /\ blob.refreshGen \in 0..(MaxFetches + 1) /\ blob.org \in BOOLEAN
  /\ cli.at \in {"idle", "poll", "pkce", "store"}
  /\ cli.at = "poll" => cli.elapsed <= PollDeadline + cli.wait

(* The operator logs in once: the stored refresh token is the one the        *)
(* provider accepts, through rotations, omissions and failed refreshes, and  *)
(* a refusal never replaces it.  Only a save that crossed another one, or a  *)
(* rotated token that was lost before it was saved, can end the session      *)
(* (current_access_token, merge_tokens).                                     *)
SessionSurvives ==
  /\ blob.session # NoSession /\ ~crossed /\ ~lost
  /\ \A f \in Fetchers : fetchers[f].at # "save"
  => blob.refreshGen = grants[blob.session]

(* A token that is handed out is good for the skew, unless the refresh       *)
(* failed or the provider did not say when it expires (REFRESH_SKEW_SEC: "so *)
(* a request never races the clock").                                        *)
TokenOutlivesItsUse ==
  \A f \in Fetchers : fetchers[f].at = "token" /\ fetchers[f].ok /\ fetchers[f].timed =>
    fetchers[f].until > fetchers[f].when + Skew

(* The org id that was looked up for a session stays with it through its     *)
(* refreshes (remember_org_id: the refresh "needs no extra round-trip").     *)
OrgStaysKnown ==
  blob.session # NoSession /\ blob.session = orgOf /\ ~crossed => blob.org

(* A login that nobody approves ends, however often the console asks to slow *)
(* down (poll_device_token).                                                 *)
LoginEnds == (cli.at = "poll") ~> (cli.at # "poll")

(* The console session survives whoever loads and saves it at the same time: *)
(* its refresh token is one the provider takes, the token handed out outlives*)
(* its use, and the organisation once learnt stays known (console_oauth).    *)
SessionIsKept ==
  ConsoleTypeOK /\ SessionSurvives /\ TokenOutlivesItsUse /\ OrgStaysKnown
=============================================================================

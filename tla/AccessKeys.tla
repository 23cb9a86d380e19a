----------------------------- MODULE AccessKeys -----------------------------
(* The gateway's own API keys: the legacy file and its migration, create,    *)
(* rotate and revoke by the admin API, and the check the chat handler makes  *)
(* of the key a client presents, thread by thread.                           *)
EXTENDS Naturals, Sequences, SequencesExt

CONSTANTS
  LegacySecrets,   \* raw keys in api_keys.json
  FreshSecrets,    \* raw keys create_key and rotate_key can draw
  AccessProfiles, OpenProfiles, \* profiles; those with auth_required false
  Clients,
  MaxKeyOps, MaxPresented, MaxKeyCrashes

\* A file lists finitely many keys.
ASSUME KeysAssumption == IsFiniteSet(LegacySecrets)

VARIABLES
  keyRows,     \* the api_keys table
  legacyFile,  \* the raw keys api_keys.json still lists
  managerUp,   \* the key manager component is active
  migrated,    \* this process has committed the migration, the file is not renamed yet
  visits,      \* one request per client thread
  withdrawn,   \* raw keys whose revocation or rotation was answered to the admin
  keyOpsLeft, presentedLeft, keyCrashesLeft

accessVars == <<keyRows, legacyFile, managerUp, migrated, visits, withdrawn,
                keyOpsLeft, presentedLeft, keyCrashesLeft>>
accessBounds == <<keyOpsLeft, presentedLeft, keyCrashesLeft>>

Secrets == LegacySecrets \cup FreshSecrets
Everything == {}                                 \* allowed_profiles empty: no restriction
LegacyAllowed == AccessProfiles \ OpenProfiles   \* a legacy key names its profile

\* Mutant: a row is written without its status.
KeyRowBlank(secret, allowed, root) ==
  [secret |-> secret, allowed |-> allowed, status |-> "", expired |-> FALSE, root |-> root]

KeyRow(secret, allowed, root) ==
  [secret |-> secret, allowed |-> allowed, status |-> "active", expired |-> FALSE, root |-> root]

NoVisit == [at |-> "idle"]

AccessInit ==
  /\ keyRows = <<>> /\ legacyFile \in {{}, LegacySecrets}
  /\ managerUp = FALSE /\ migrated = FALSE
  /\ visits = [c \in Clients |-> NoVisit] /\ withdrawn = {}
  /\ keyOpsLeft = MaxKeyOps /\ presentedLeft = MaxPresented /\ keyCrashesLeft = MaxKeyCrashes

-----------------------------------------------------------------------------
(* Boot *)

KnownSecrets == {keyRows[i].secret : i \in DOMAIN keyRows}

\* Mutant: the migration does not look for keys it has already brought in.
MigrateEverything ==
  /\ ~managerUp /\ ~migrated
  /\ keyRows' = keyRows \o SetToSeq({KeyRow(s, LegacyAllowed, s) : s \in legacyFile})
  /\ migrated' = TRUE
  /\ UNCHANGED <<legacyFile, managerUp, visits, withdrawn, accessBounds>>

(* _migrate_legacy_keys, the transaction: a key already in the table, active *)
(* or revoked, is left alone.                                                   *)
Migrate ==
  /\ ~managerUp /\ ~migrated
  /\ keyRows' = keyRows \o SetToSeq({KeyRow(s, LegacyAllowed, s) : s \in legacyFile \ KnownSecrets})
  /\ migrated' = TRUE
  /\ UNCHANGED <<legacyFile, managerUp, visits, withdrawn, accessBounds>>

(* The rename of the file, or its failure: the manager starts either way. *)
RenameFile(ok) ==
  /\ ~managerUp /\ migrated
  /\ legacyFile' = IF ok THEN {} ELSE legacyFile
  /\ managerUp' = TRUE
  /\ UNCHANGED <<keyRows, migrated, visits, withdrawn, accessBounds>>

AccessCrash ==
  /\ keyCrashesLeft > 0 /\ keyCrashesLeft' = keyCrashesLeft - 1
  /\ managerUp' = FALSE /\ migrated' = FALSE
  /\ visits' = [c \in Clients |-> NoVisit]
  /\ UNCHANGED <<keyRows, legacyFile, withdrawn, keyOpsLeft, presentedLeft>>

-----------------------------------------------------------------------------
(* The admin API *)

AdminOp == managerUp /\ keyOpsLeft > 0 /\ keyOpsLeft' = keyOpsLeft - 1
           /\ UNCHANGED <<legacyFile, managerUp, migrated, visits, presentedLeft, keyCrashesLeft>>

Fresh(s) == s \in FreshSecrets \ KnownSecrets

CreateKey(s, allowed) ==
  /\ AdminOp /\ Fresh(s)
  /\ keyRows' = Append(keyRows, KeyRow(s, allowed, s))
  /\ UNCHANGED withdrawn

\* Mutant: the new key is not restricted to the profiles of the old one.
RotateUnrestricted(i, s) ==
  /\ AdminOp /\ Fresh(s) /\ i \in DOMAIN keyRows
  /\ keyRows' = Append([keyRows EXCEPT ![i].status = "revoked"], KeyRow(s, Everything, keyRows[i].root))
  /\ withdrawn' = withdrawn \cup {keyRows[i].secret}

\* Mutant: the old key stays active.
RotateKeepsOld(i, s) ==
  /\ AdminOp /\ Fresh(s) /\ i \in DOMAIN keyRows
  /\ keyRows' = Append(keyRows, KeyRow(s, keyRows[i].allowed, keyRows[i].root))
  /\ withdrawn' = withdrawn \cup {keyRows[i].secret}

(* rotate_key: revokes the row and adds one with the same rights, whatever   *)
(* the status of the old row was.                                            *)
RotateKey(i, s) ==
  /\ AdminOp /\ Fresh(s) /\ i \in DOMAIN keyRows
  /\ keyRows' = Append([keyRows EXCEPT ![i].status = "revoked"],
                       [KeyRow(s, keyRows[i].allowed, keyRows[i].root) EXCEPT !.expired = keyRows[i].expired])
  /\ withdrawn' = withdrawn \cup {keyRows[i].secret}

RevokeKey(i) ==
  /\ AdminOp /\ i \in DOMAIN keyRows
  /\ keyRows' = [keyRows EXCEPT ![i].status = "revoked"]
  /\ withdrawn' = withdrawn \cup {keyRows[i].secret}

(* expires_at passes. *)
KeyExpires(i) ==
  /\ i \in DOMAIN keyRows /\ ~keyRows[i].expired
  /\ keyOpsLeft > 0 /\ keyOpsLeft' = keyOpsLeft - 1
  /\ keyRows' = [keyRows EXCEPT ![i].expired = TRUE]
  /\ UNCHANGED <<legacyFile, managerUp, migrated, visits, withdrawn, presentedLeft, keyCrashesLeft>>

-----------------------------------------------------------------------------
(* The request path *)

(* A client calls a profile with a raw key. *)
PresentKey(c, s, p) ==
  /\ visits[c] = NoVisit /\ presentedLeft > 0 /\ presentedLeft' = presentedLeft - 1
  /\ visits' = [visits EXCEPT ![c] = [at |-> "auth", secret |-> s, profile |-> p, late |-> s \in withdrawn]]
  /\ UNCHANGED <<keyRows, legacyFile, managerUp, migrated, withdrawn, keyOpsLeft, keyCrashesLeft>>

(* validate_key: the active, unexpired row of the key's hash; 0 for none. *)
RowOf(s) ==
  LET hits == {i \in DOMAIN keyRows : keyRows[i].secret = s /\ keyRows[i].status = "active"}
      first == CHOOSE i \in hits : \A j \in hits : i <= j
  IN IF hits = {} \/ keyRows[first].expired THEN 0 ELSE first

MayUse(i, p) == keyRows[i].allowed = Everything \/ p \in keyRows[i].allowed

\* Mutant: without a key manager nothing can be checked, so nobody is refused.
AuthenticateOpen(c) ==
  /\ visits[c].at = "auth"
  /\ LET v == visits[c]
         row == RowOf(v.secret)
         in == v.profile \in OpenProfiles \/ ~managerUp \/ (row # 0 /\ MayUse(row, v.profile))
     IN visits' = [visits EXCEPT ![c].at = IF in THEN "admitted" ELSE "refused"]
  /\ UNCHANGED <<keyRows, legacyFile, managerUp, migrated, withdrawn, accessBounds>>

(* The auth block of _serve_chat_completions: an open profile needs no key;  *)
(* without a key manager every other profile is closed.                      *)
Authenticate(c) ==
  /\ visits[c].at = "auth"
  /\ LET v == visits[c]
         row == RowOf(v.secret)
         in == v.profile \in OpenProfiles \/ (managerUp /\ row # 0 /\ MayUse(row, v.profile))
     IN visits' = [visits EXCEPT ![c].at = IF in THEN "admitted" ELSE "refused"]
  /\ UNCHANGED <<keyRows, legacyFile, managerUp, migrated, withdrawn, accessBounds>>

VisitEnds(c) ==
  /\ visits[c].at \in {"admitted", "refused"}
  /\ visits' = [visits EXCEPT ![c] = NoVisit]
  /\ UNCHANGED <<keyRows, legacyFile, managerUp, migrated, withdrawn, accessBounds>>

AccessNext ==
  \/ Migrate \/ AccessCrash
  \/ \E ok \in BOOLEAN : RenameFile(ok)
  \/ \E s \in FreshSecrets :
       (\E a \in {Everything, AccessProfiles \ OpenProfiles} : CreateKey(s, a)) \/ \E i \in DOMAIN keyRows : RotateKey(i, s)
  \/ \E i \in DOMAIN keyRows : RevokeKey(i) \/ KeyExpires(i)
  \/ \E c \in Clients :
       Authenticate(c) \/ VisitEnds(c) \/ \E s \in Secrets, p \in AccessProfiles : PresentKey(c, s, p)

AccessSpec == AccessInit /\ [][AccessNext]_accessVars

-----------------------------------------------------------------------------
(* Well-formed keys and requests (ApiKey). *)
AccessTypeOK ==
  /\ \A i \in DOMAIN keyRows :
       /\ keyRows[i].secret \in Secrets /\ keyRows[i].allowed \subseteq AccessProfiles
       /\ keyRows[i].status \in {"active", "revoked"} /\ keyRows[i].root \in Secrets
  /\ legacyFile \subseteq LegacySecrets
  /\ \A c \in Clients : visits[c].at \in {"idle", "auth", "admitted", "refused"}

Guarded(c) == visits[c].at = "admitted" /\ visits[c].profile \notin OpenProfiles

(* A key that the admin was told is revoked or rotated away opens nothing to *)
(* a request that starts later: not after a crash, a repeated migration or a *)
(* failed rename, and not while the key manager is down (validate_key).      *)
RevokedStaysOut == \A c \in Clients : Guarded(c) => ~visits[c].late

(* A migration interrupted between its commit and the rename of the file,    *)
(* or whose rename fails, brings no key in twice (_migrate_legacy_keys).     *)
OneRowPerSecret ==
  \A i, j \in DOMAIN keyRows : keyRows[i].secret = keyRows[j].secret => i = j

(* Rotations never widen a key: whoever holds a key that descends from a     *)
(* restricted one gets no profile the first key could not use (rotate_key).  *)
RotationKeepsRights ==
  \A i, j \in DOMAIN keyRows :
    keyRows[j].secret = keyRows[i].root => keyRows[i].allowed = keyRows[j].allowed
=============================================================================

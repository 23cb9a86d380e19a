---------------------------- MODULE Credentials ----------------------------
(* Provider credentials at rest: set and get of CredentialStore, and the     *)
(* master key of crypto.py, which without LCP_SECRET_KEY is a file that the  *)
(* first caller creates.  A credential can be read back only with the master *)
(* key it was encrypted under.                                               *)
EXTENDS Naturals

CONSTANTS
  Slots,        \* provider, cookie:<provider> and wsid:<provider> rows
  Plaintexts,
  Vaulters,     \* threads that call the store
  EnvKey,       \* LCP_SECRET_KEY is set
  MaxSecretOps, MaxSecretCrashes

ASSUME CredentialsAssumption == EnvKey \in BOOLEAN

(* Master keys are numbered; the ones drawn at random come after these. *)
NoKeyFile == 0
EmptyFile == 1      \* the file is created and truncated, and not yet written
FromEnv == 2

NoPlain == "none"
NoToken == [under |-> NoKeyFile, text |-> NoPlain]

VARIABLES
  secretFile,   \* data/.lcp_secret_key
  drawn,        \* the last random key drawn
  tokens,       \* the encrypted rows
  vault,        \* what each thread is doing
  wanted,       \* the plaintext of the last set of each slot
  disturbed,    \* a thread looked for the key while another was making the file
  secretOpsLeft, secretCrashesLeft

secretVars == <<secretFile, drawn, tokens, vault, wanted, disturbed, secretOpsLeft, secretCrashesLeft>>

AtRest == [at |-> "idle"]
Doing(slot, text, at, key) == [at |-> at, slot |-> slot, text |-> text, key |-> key]

SecretsInit ==
  /\ secretFile = NoKeyFile /\ drawn = FromEnv
  /\ tokens = [s \in Slots |-> NoToken]
  /\ vault = [t \in Vaulters |-> AtRest]
  /\ wanted = [s \in Slots |-> NoPlain] /\ disturbed = FALSE
  /\ secretOpsLeft = MaxSecretOps /\ secretCrashesLeft = MaxSecretCrashes

Creating == {t \in Vaulters : vault[t].at \in {"create", "write", "reread"}}

(* set of a key, a cookie or a workspace id. *)
AskSecret(t, slot, text) ==
  /\ vault[t] = AtRest /\ secretOpsLeft > 0 /\ secretOpsLeft' = secretOpsLeft - 1
  /\ vault' = [vault EXCEPT ![t] = Doing(slot, text, "key", NoKeyFile)]
  /\ UNCHANGED <<secretFile, drawn, tokens, wanted, disturbed, secretCrashesLeft>>

(* set with an empty text deletes the row, without any key. *)
ClearSecret(t, slot) ==
  /\ vault[t] = AtRest /\ secretOpsLeft > 0 /\ secretOpsLeft' = secretOpsLeft - 1
  /\ tokens' = [tokens EXCEPT ![slot] = NoToken]
  /\ wanted' = [wanted EXCEPT ![slot] = NoPlain]
  /\ UNCHANGED <<secretFile, drawn, vault, disturbed, secretCrashesLeft>>

-----------------------------------------------------------------------------
(* get_secret_key *)

(* The variable, the file when it exists, or a file to be created. *)
FindKey(t) ==
  /\ vault[t].at = "key"
  /\ vault' = [vault EXCEPT ![t].at = IF ~EnvKey /\ secretFile = NoKeyFile THEN "create" ELSE "use",
                            ![t].key = IF EnvKey THEN FromEnv ELSE secretFile]
  /\ disturbed' = (disturbed \/ (~EnvKey /\ Creating # {}))
  /\ UNCHANGED <<secretFile, drawn, tokens, wanted, secretOpsLeft, secretCrashesLeft>>

(* os.open with O_TRUNC, whether or not another thread made the file meanwhile. *)
OpenFile(t) ==
  /\ vault[t].at = "create"
  /\ secretFile' = EmptyFile
  /\ vault' = [vault EXCEPT ![t].at = "write"]
  /\ UNCHANGED <<drawn, tokens, wanted, disturbed, secretOpsLeft, secretCrashesLeft>>

WriteFile(t) ==
  /\ vault[t].at = "write"
  /\ drawn' = drawn + 1 /\ secretFile' = drawn + 1
  /\ vault' = [vault EXCEPT ![t].at = "reread"]
  /\ UNCHANGED <<tokens, wanted, disturbed, secretOpsLeft, secretCrashesLeft>>

\* Mutant: the file is read before the bytes are in it.
RereadTooEarly(t) ==
  /\ vault[t].at = "reread"
  /\ vault' = [vault EXCEPT ![t].at = "use", ![t].key = EmptyFile]
  /\ UNCHANGED <<secretFile, drawn, tokens, wanted, disturbed, secretOpsLeft, secretCrashesLeft>>

(* The creator hands out what the file holds. *)
RereadFile(t) ==
  /\ vault[t].at = "reread"
  /\ vault' = [vault EXCEPT ![t].at = "use", ![t].key = secretFile]
  /\ UNCHANGED <<secretFile, drawn, tokens, wanted, disturbed, secretOpsLeft, secretCrashesLeft>>

\* Mutant: the text is stored under no key at all.
StorePlain(t) ==
  /\ vault[t].at = "use"
  /\ tokens' = [tokens EXCEPT ![vault[t].slot] = [under |-> NoKeyFile, text |-> vault[t].text]]
  /\ wanted' = [wanted EXCEPT ![vault[t].slot] = vault[t].text]
  /\ vault' = [vault EXCEPT ![t] = AtRest]
  /\ UNCHANGED <<secretFile, drawn, disturbed, secretOpsLeft, secretCrashesLeft>>

(* The row is written under the key that was handed out. *)
StoreSecret(t) ==
  /\ vault[t].at = "use"
  /\ tokens' = [tokens EXCEPT ![vault[t].slot] = [under |-> vault[t].key, text |-> vault[t].text]]
  /\ wanted' = [wanted EXCEPT ![vault[t].slot] = vault[t].text]
  /\ vault' = [vault EXCEPT ![t] = AtRest]
  /\ UNCHANGED <<secretFile, drawn, disturbed, secretOpsLeft, secretCrashesLeft>>

(* The process dies: a file that was opened and not written stays empty. *)
SecretCrash ==
  /\ secretCrashesLeft > 0 /\ secretCrashesLeft' = secretCrashesLeft - 1
  /\ vault' = [t \in Vaulters |-> AtRest]
  /\ UNCHANGED <<secretFile, drawn, tokens, wanted, disturbed, secretOpsLeft>>

SecretsNext ==
  \/ SecretCrash
  \/ \E t \in Vaulters :
       \/ FindKey(t) \/ OpenFile(t) \/ WriteFile(t) \/ RereadFile(t) \/ StoreSecret(t)
       \/ \E s \in Slots : ClearSecret(t, s) \/ \E p \in Plaintexts : AskSecret(t, s, p)

SecretsSpec == SecretsInit /\ [][SecretsNext]_secretVars

-----------------------------------------------------------------------------
(* decrypt_secret: a token under another key reads as no credential. *)
Decrypt(key, token) == IF token.under = key THEN token.text ELSE NoPlain

MasterKey == IF EnvKey THEN FromEnv ELSE secretFile
GetSecret(s) == Decrypt(MasterKey, tokens[s])

(* Rows hold one token each, under a key that was in use (ProviderCredential). *)
SecretsTypeOK ==
  /\ secretFile \in 0..drawn
  /\ \A s \in Slots : tokens[s].under \in 0..drawn
                      /\ (tokens[s].under = NoKeyFile => tokens[s].text = NoPlain)

(* What was stored can be read back, and what was cleared is gone: through   *)
(* crashes and restarts, and however sets of several slots interleave once   *)
(* the key file is there.  Only a caller that came while another one was     *)
(* making the file can lose a credential (_load_or_create_fallback_key).     *)
CredentialsReadBack == ~disturbed => \A s \in Slots : GetSecret(s) = wanted[s]

(* The comment in _load_or_create_fallback_key: "the key handed out always   *)
(* matches the file the next boot reads".                                    *)
KeyHandedOutIsKept ==
  \A s \in Slots : tokens[s].under \notin {NoKeyFile, MasterKey} => Creating # {}
=============================================================================

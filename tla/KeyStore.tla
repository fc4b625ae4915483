------------------------------ MODULE KeyStore ------------------------------
(* The two key managers of the gateway.  APIKeyManager of                    *)
(* gateway/middleware/auth.py makes the gateway's own keys, in memory; the   *)
(* routes of gateway/routes/api_keys.py and the middleware each have one.    *)
(* APIKeyManager of core_engine/api_keys.py keeps the keys users bring in a  *)
(* session table and, encrypted, in one file per user                        *)
(* (gateway/routes/keys.py).                                                 *)
EXTENDS Naturals, Sequences, FiniteSets, SequencesExt, FiniteSetsExt

CONSTANTS KeyNames,   \* names of created gateway keys
          MaxKeys,    \* bound: gateway keys ever created
          Users, Providers,
          MaxSecrets  \* bound: values HARDWARELESS_SECRET ever has

Nothing == {}             \* get_keys answered None, or no provider is set
Garbage == {"garbage"}    \* what another secret decrypts to

VARIABLES issued,     \* the routes' manager: [id, name] in insertion order
          made,       \* gateway keys made so far
          session,    \* _session_keys: user -> providers, or Nothing
          file,       \* user -> [state, keys, secret]
          secret,     \* HARDWARELESS_SECRET, which value of it
          promised,   \* observation: what the user's last answered request left
          disturbed   \* observation: a write failed or the secret changed since

keyVars == <<issued, made, session, file, secret, promised, disturbed>>

NoFile == [state |-> "none", keys |-> Nothing, secret |-> 0]

Init ==
  /\ issued = <<[id |-> 0, name |-> "default"]>>
  /\ made = 0
  /\ session = [u \in Users |-> Nothing]
  /\ file = [u \in Users |-> NoFile]
  /\ secret = 0
  /\ promised = [u \in Users |-> Nothing]
  /\ disturbed = [u \in Users |-> FALSE]

userVars == <<session, file, secret, promised, disturbed>>

---------------------------------------------------------------------------
CreateKey(name) ==
  /\ made < MaxKeys
  /\ made' = made + 1
  /\ issued' = Append(issued, [id |-> made + 1, name |-> name])

CreateAPIKey == \E name \in KeyNames : CreateKey(name) /\ UNCHANGED userVars

(* Revoking goes by name, and takes the first key of that name.              *)
RevokeKey ==
  \E name \in KeyNames \cup {"default"} :
    LET named == {i \in DOMAIN issued : issued[i].name = name}
    IN /\ named # {}
       /\ issued' = RemoveAt(issued, Min(named))
       /\ UNCHANGED made /\ UNCHANGED userVars

(* AuthMiddleware asks a manager of its own, which knows its default key:    *)
(* no key of the routes' manager is ever recognised.                         *)
RecognisedByMiddleware(key) == FALSE

---------------------------------------------------------------------------
Written(keys) == [state |-> "whole", keys |-> keys, secret |-> secret]

(* set_keys: the session is set first; the file is opened, which empties it, *)
(* and written.  Opening or writing may fail, and the request with it.       *)
SetKeys(u, keys, written) ==
  /\ session' = [session EXCEPT ![u] = keys]
  /\ file' = CASE written = "all" -> [file EXCEPT ![u] = Written(keys)]
               [] written = "part" -> [file EXCEPT ![u].state = "torn"]
               [] written = "nothing" -> file

SetUserKeys ==
  \E u \in Users, keys \in SUBSET Providers, written \in {"all", "part", "nothing"} :
    /\ SetKeys(u, keys, written)
    /\ promised' = [promised EXCEPT ![u] = keys]
    /\ disturbed' = [disturbed EXCEPT ![u] = written # "all"]
    /\ UNCHANGED <<issued, made, secret>>

(* What get_keys reads from disk: a file that is no JSON, or that another    *)
(* secret turns into no text, reads as no keys at all.                       *)
Decrypted(u) ==
  IF file[u].state # "whole" THEN {Nothing}
  ELSE IF file[u].secret = secret THEN {file[u].keys}
  ELSE {Nothing, Garbage}

LoadKeys(u) == IF session[u] # Nothing THEN {session[u]} ELSE Decrypted(u)

(* check_key_status, and every other reader: what was read stays in the      *)
(* session.                                                                  *)
CheckKeys ==
  \E u \in Users : \E keys \in LoadKeys(u) :
    /\ session' = [session EXCEPT ![u] = keys]
    /\ UNCHANGED <<issued, made, file, secret, promised, disturbed>>

ClearKeys_Variant(u) ==
  \* A bug: only the session forgets the keys.
  /\ session' = [session EXCEPT ![u] = Nothing]
  /\ UNCHANGED file

ClearKeys(u) ==
  /\ session' = [session EXCEPT ![u] = Nothing]
  /\ file' = [file EXCEPT ![u] = NoFile]

ClearUserKeys ==
  \E u \in Users :
    /\ ClearKeys(u)
    /\ promised' = [promised EXCEPT ![u] = Nothing]
    /\ disturbed' = [disturbed EXCEPT ![u] = FALSE]
    /\ UNCHANGED <<issued, made, secret>>

(* The process stops and starts, with the secret it had or another one.      *)
Restart ==
  \E changed \in BOOLEAN :
    /\ changed => secret < MaxSecrets - 1
    /\ secret' = IF changed THEN secret + 1 ELSE secret
    /\ disturbed' = [u \in Users |-> disturbed[u]
                       \/ (changed /\ file[u].state # "none")]
    /\ session' = [u \in Users |-> Nothing]
    /\ issued' = <<[id |-> 0, name |-> "default"]>>
    /\ UNCHANGED <<made, file, promised>>

Next ==
  \/ CreateAPIKey
  \/ RevokeKey
  \/ SetUserKeys
  \/ CheckKeys
  \/ ClearUserKeys
  \/ Restart

Spec == Init /\ [][Next]_keyVars

---------------------------------------------------------------------------
(* What a user is told about her keys is what her last request left, before  *)
(* and after any restart, unless writing her file failed or the secret was   *)
(* changed since: session and file never tell different stories, and keys    *)
(* that were cleared do not come back.                                       *)
KeysSurviveRestart ==
  \A u \in Users : ~disturbed[u] => LoadKeys(u) = {promised[u]}
=============================================================================

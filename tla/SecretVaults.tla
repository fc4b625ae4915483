---------------------------- MODULE SecretVaults ----------------------------
(* The secret backends and the threat feed of core_engine/security/          *)
(* advanced.py.  A backend makes its client at the first call: with a token, *)
(* or with an AppRole login that is awaited after the client was stored, or, *)
(* for AWS, with a client that is stored once it is entered.  get, set,      *)
(* delete and list take the same steps.                                      *)
EXTENDS Naturals, Sequences, FiniteSets

CONSTANTS Calls,        \* calls of get, set, delete or list
          Feeds,        \* contents the threat feed ever answers
          MaxUpdates    \* bound: updates of the feed

VARIABLES backend,   \* "envfile", "token", "approle", "aws"
          clients,   \* _client: "none", "fresh" (no token yet) or "ready"
          call,      \* call -> "new", "login", "asking", or how it ended
          threats,   \* the feed's indicators
          update,    \* an update of the feed under way
          updates,
          good       \* observation: the last list the feed answered whole

vaultVars == <<backend, clients, call, threats, update, updates, good>>

Init ==
  /\ backend \in {"envfile", "token", "approle", "aws"}
  /\ clients = "none"
  /\ call = [c \in Calls |-> "new"]
  /\ threats = "empty" /\ good = "empty"
  /\ update = FALSE /\ updates = 0

feedVars == <<threats, update, updates, good>>

---------------------------------------------------------------------------
(* EnvFileVault answers at once, and keeps nothing.                          *)
CallEnvironment(c) ==
  /\ backend = "envfile" /\ call[c] = "new"
  /\ call' = [call EXCEPT ![c] = "answered"]
  /\ UNCHANGED clients

(* A call that finds a client asks it; without one it initializes.  With a   *)
(* token that is one step.                                                   *)
CallVault(c) ==
  /\ backend # "envfile" /\ call[c] = "new"
  /\ IF clients # "none" \/ backend = "token"
       THEN call' = [call EXCEPT ![c] =
              IF clients = "fresh" THEN "asking tokenless" ELSE "asking"]
       ELSE call' = [call EXCEPT ![c] = "login"]
  /\ clients' = IF clients # "none" THEN clients
                ELSE CASE backend = "token" -> "ready"
                       [] backend = "approle" -> "fresh"
                       [] backend = "aws" -> "none"

LoggedIn(c) ==
  /\ call[c] = "login"
  /\ clients' = "ready"
  /\ call' = [call EXCEPT ![c] = "asking"]

LoginFails_Variant(c) ==
  \* A bug: the client is kept though entering it failed.
  /\ call[c] = "login"
  /\ call' = [call EXCEPT ![c] = "raised"]
  /\ clients' = "fresh"

(* The exception leaves initialize, outside the try of the call.             *)
LoginFails(c) ==
  /\ call[c] = "login"
  /\ call' = [call EXCEPT ![c] = "raised"]
  /\ UNCHANGED clients

(* The service answers, or fails: the call then ends in None, False or [].   *)
Answered(c) ==
  /\ \/ call[c] = "asking" /\ call' = [call EXCEPT ![c] = "answered"]
     \/ call[c] = "asking" /\ call' = [call EXCEPT ![c] = "nothing"]
     \/ /\ call[c] = "asking tokenless"
        /\ call' = [call EXCEPT ![c] = "nothing without a login"]
  /\ UNCHANGED clients

VaultStep ==
  /\ \E c \in Calls :
       CallEnvironment(c) \/ CallVault(c) \/ LoggedIn(c) \/ LoginFails(c) \/ Answered(c)
  /\ UNCHANGED backend /\ UNCHANGED feedVars

---------------------------------------------------------------------------
(* ThreatFeed.update: the lists change only when a whole answer is there;    *)
(* load_threat_feeds updates once, then start_periodic_update for ever.      *)
StartUpdate ==
  /\ ~update /\ updates < MaxUpdates
  /\ update' = TRUE /\ updates' = updates + 1
  /\ UNCHANGED <<threats, good>>

FinishUpdate ==
  /\ update /\ update' = FALSE
  /\ \/ \E f \in Feeds : threats' = f /\ good' = f
     \/ UNCHANGED <<threats, good>>
  /\ UNCHANGED updates

FeedStep ==
  /\ StartUpdate \/ FinishUpdate
  /\ UNCHANGED <<backend, clients, call>>

Next ==
  \/ VaultStep
  \/ FeedStep

Spec == Init /\ [][Next]_vaultVars

---------------------------------------------------------------------------
(* With a token or with AWS no call goes out through a client that is not    *)
(* logged in, however calls overlap and whichever login fails, and a failed  *)
(* login leaves the next call free to try again.  (With an AppRole the       *)
(* client is stored before its login: a call that comes meanwhile, and every *)
(* call after a failed login, goes out without a token.)                     *)
NeverAsksWithoutLogin ==
  backend \in {"token", "aws"} =>
    /\ clients # "fresh"
    /\ \A c \in Calls : call[c] \notin {"asking tokenless", "nothing without a login"}
=============================================================================

--------------------------- MODULE GatewayServices --------------------------
(* The gateway around its translation core: what a request passes            *)
(* (RequestGate), the keys, the secrets, the webhooks, the event stream, the *)
(* chat and the batch routes.  They live in one process and share no         *)
(* variable, so an instance follows one of them, chosen at the start.        *)
EXTENDS RequestGate, FiniteSets

CONSTANTS KeyNames, MaxKeys, Users, Providers, MaxSecrets,
          Hooks, MaxRetries, Wanted, Events, MaxFired, MaxSeconds,
          QueueSize, Casts, MaxCasts,
          Sizes, MinSample, MaxRequests, MaxMinutes,
          Items, Concurrency, MaxChats,
          Calls, Feeds, MaxUpdates

ASSUME SampleAssumption == MinSample \in Nat \ {0}
ASSUME HooksAssumption == MaxRetries \in [Hooks -> Int] /\ MaxFired \in Nat
ASSUME BatchAssumption == Items \in Nat /\ Concurrency \in Nat \ {0} /\ MaxChats \in Nat

VARIABLES service,
          issued, made, session, file, secret, promised, disturbed,
          client, hooks, gone, failures, pending, fired, clock, tried,
          line, at, subscribers, state, queue, cast, stopped, history,
          joined, taken, missed,
          minute, window, flagged, headers, asked,
          batch,
          backend, clients, call, threats, update, updates, good

Keys == INSTANCE KeyStore
Hook == INSTANCE Webhooks WITH MaxTime <- MaxSeconds
Stream == INSTANCE EventStream
Chat == INSTANCE ChatRoutes
Batch == INSTANCE BatchRoutes
Vault == INSTANCE SecretVaults

keys == <<issued, made, session, file, secret, promised, disturbed>>
webhooks == <<client, hooks, gone, failures, pending, fired, clock, tried>>
stream == <<line, at, subscribers, state, queue, cast, stopped, history,
            joined, taken, missed>>
chat == <<minute, window, flagged, headers, asked>>
vaults == <<backend, clients, call, threats, update, updates, good>>
vars == <<service, gateVars, keys, webhooks, stream, chat, batch, vaults>>

ServicesInit ==
  /\ service \in {"gate", "keys", "webhooks", "stream", "chat", "batch", "vault"}
  /\ Init /\ Keys!Init /\ Hook!Init /\ Stream!Init
  /\ Chat!Init /\ Batch!Init /\ Vault!Init
  \* The environment varies for the service that sees it.
  /\ service # "gate" => env = [signing |-> FALSE, csrf |-> FALSE]
  /\ service # "webhooks" => client
  /\ service # "vault" => backend = "envfile"

ServicesNext ==
  /\ UNCHANGED service
  /\ \/ /\ service = "gate" /\ Next
        /\ UNCHANGED <<keys, webhooks, stream, chat, batch, vaults>>
     \/ /\ service = "keys" /\ Keys!Next
        /\ UNCHANGED <<gateVars, webhooks, stream, chat, batch, vaults>>
     \/ /\ service = "webhooks" /\ Hook!Next
        /\ UNCHANGED <<gateVars, keys, stream, chat, batch, vaults>>
     \/ /\ service = "stream" /\ Stream!Next
        /\ UNCHANGED <<gateVars, keys, webhooks, chat, batch, vaults>>
     \/ /\ service = "chat" /\ Chat!Next
        /\ UNCHANGED <<gateVars, keys, webhooks, stream, batch, vaults>>
     \/ /\ service = "batch" /\ Batch!Next
        /\ UNCHANGED <<gateVars, keys, webhooks, stream, chat, vaults>>
     \/ /\ service = "vault" /\ Vault!Next
        /\ UNCHANGED <<gateVars, keys, webhooks, stream, chat, batch>>

ServicesSpec == ServicesInit /\ [][ServicesNext]_vars

(* Keys tell one story, before and after a restart (KeyStore).               *)
KeysSurviveRestart == Keys!KeysSurviveRestart

(* Retries run their whole course, spaced out (Webhooks).                    *)
RetriesRunTheirCourse == Hook!RetriesRunTheirCourse

(* A subscriber is handed all that was broadcast, in order (EventStream).    *)
StreamKeepsOrder == Stream!StreamKeepsOrder

(* Anomalies are judged on one minute of requests (ChatRoutes).              *)
AnomaliesOfAMinute == Chat!AnomaliesOfAMinute

(* A batch tells of each of its items once (BatchRoutes).                    *)
BatchAccounts == Batch!BatchAccounts

(* Only logged-in clients are asked, but for an AppRole (SecretVaults).      *)
NeverAsksWithoutLogin == Vault!NeverAsksWithoutLogin
=============================================================================

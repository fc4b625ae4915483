---------------------------- MODULE EngineServices ----------------------------
(* The engine behind the gateway: the application's lifespan with its plugins,  *)
(* the swarm's server and nodes, agents, observers, and what is read at the     *)
(* start (configuration, phases, skills, the local model).  Parts of one        *)
(* process that share no variable: an instance follows one of them, chosen at   *)
(* the start.                                                                   *)
EXTENDS Naturals, Sequences, FiniteSets

CONSTANTS Worlds,
          Nodes, MaxPackets,
          Calls, Targets, MaxClients, MaxFlips,
          AgentNames, Handlings, MaxObjects, MaxTools, MaxLog,
          MaxTasks, MaxAgents, MaxActions, MaxMail,
          Requests, Readings, MaxSamples, MaxRecorded, Components,
          Critical, Fallbacks, Needed, MaxChecks,
          Explicit,
          Skills, Builtins, Contents, MaxEdits,
          Texts, Chats, MaxClose

ASSUME ReadingsAssumption ==    \* no span has the id that stands for none
  "none" \notin Requests /\ MaxSamples \in Nat
ASSUME EcosystemsAssumption ==    \* only functions of the core have fallbacks
  /\ Critical \in Seq(STRING)
  /\ \A e \in DOMAIN Needed : Needed[e] \cap Fallbacks = {}
ASSUME TargetsAssumption ==    \* indices of the list of targets, not empty
  /\ IsFiniteSet(Targets) /\ Targets # {}
  /\ Targets = 0..(Cardinality(Targets) - 1)
ASSUME TextsAssumption == IsFiniteSet(Texts)

VARIABLES service,
          found, phase, ordered, pos, loadOrder, state, elsewhere, asked,
          stage, up, background,
          sent, wire, buffer, beats, ghosts, lost, open,
          idx, client, conn, reach, flips, call, arrived, refused, shared,
          names, object, default, tools, handling, log, queue,
          role, coordinator, roundRobin, busy, running, actions, stats, task,
          inbox, mail, turns,
          span, trace, request, samples, recorded, sorted, health,
          missing, checks, overall, seen,
          env, given, middleware, step, errors,
          current,
          directory, files, imported, handlers, listed, edits, loadedFrom,
          translator, tokenizer, loads, text,
          impl, registered, parts, loaded, session, chat, closes, torn

Life == INSTANCE Lifespan

ASSUME WorldsAssumption == Worlds \subseteq Seq(Life!Manifests)

Swarm == INSTANCE SwarmServer
Node == INSTANCE RemoteNode
Agent == INSTANCE Agents
Observe == INSTANCE Observers
Config == INSTANCE StartupConfig
Skill == INSTANCE SkillRegistry
Model == INSTANCE ModelLoading

life == <<found, phase, ordered, pos, loadOrder, state, elsewhere, asked,
          stage, up, background>>
swarm == <<sent, wire, buffer, beats, ghosts, lost, open>>
node == <<idx, client, conn, reach, flips, call, arrived, refused, shared>>
router == <<names, object, default, tools, handling, log, queue>>
team == <<role, coordinator, roundRobin, busy, running, actions, stats, task,
          inbox, mail, turns>>
telemetry == <<span, trace, request, samples, recorded, sorted, health>>
guard == <<missing, checks, overall, seen>>
config == <<env, given, middleware, step, errors>>
phases == <<current>>
skills == <<directory, files, imported, handlers, listed, edits, loadedFrom>>
model == <<translator, tokenizer, loads, text>>
backend == <<impl, registered, parts, loaded, session, chat, closes, torn>>
agents == <<router, team>>
observers == <<telemetry, guard>>
startup == <<config, phases, skills, model, backend>>
vars == <<service, life, swarm, node, agents, observers, startup>>

EngineInit ==
  /\ service \in {"life", "swarm", "node", "router", "team", "telemetry",
                  "guard", "config", "phases", "skills", "model", "backend"}
  /\ Life!LifespanInit /\ Swarm!SwarmInit /\ Node!NodeInit
  /\ Agent!RouterInit /\ Agent!TeamInit /\ Observe!TelemetryInit /\ Observe!GuardInit
  /\ Config!ConfigInit /\ Config!PhaseInit /\ Skill!SkillInit /\ Model!ModelInit
  /\ Model!BackendInit
  \* The environment varies for the service that sees it.
  /\ service # "life" => found = CHOOSE world \in Worlds : TRUE
  /\ service # "node" => reach = Targets
  /\ service # "config" => env = CHOOSE e \in Explicit : TRUE
  /\ service # "skills" => directory
  /\ service # "backend" => impl = "ollama" /\ ~registered

EngineNext ==
  /\ UNCHANGED service
  /\ \/ /\ service = "life" /\ Life!LifespanNext
        /\ UNCHANGED <<swarm, node, agents, observers, startup>>
     \/ /\ service = "swarm" /\ Swarm!SwarmNext
        /\ UNCHANGED <<life, node, agents, observers, startup>>
     \/ /\ service = "node" /\ Node!NodeNext
        /\ UNCHANGED <<life, swarm, agents, observers, startup>>
     \/ /\ \/ service = "router" /\ Agent!RouterNext /\ UNCHANGED team
           \/ service = "team" /\ Agent!TeamNext /\ UNCHANGED router
        /\ UNCHANGED <<life, swarm, node, observers, startup>>
     \/ /\ \/ service = "telemetry" /\ Observe!TelemetryNext /\ UNCHANGED guard
           \/ service = "guard" /\ Observe!GuardNext /\ UNCHANGED telemetry
        /\ UNCHANGED <<life, swarm, node, agents, startup>>
     \/ /\ \/ /\ service = "config" /\ Config!ConfigNext
              /\ UNCHANGED <<phases, skills, model, backend>>
           \/ /\ service = "phases" /\ Config!PhaseNext
              /\ UNCHANGED <<config, skills, model, backend>>
           \/ /\ service = "skills" /\ Skill!SkillNext
              /\ UNCHANGED <<config, phases, model, backend>>
           \/ /\ service = "model" /\ Model!ModelNext
              /\ UNCHANGED <<config, phases, skills, backend>>
           \/ /\ service = "backend" /\ Model!BackendNext
              /\ UNCHANGED <<config, phases, skills, model>>
        /\ UNCHANGED <<life, swarm, node, agents, observers>>

EngineSpec == EngineInit /\ [][EngineNext]_vars

---------------------------------------------------------------------------
(* Dependencies come first in the load order, and only loaded ones count        *)
(* (Plugins).                                                                   *)
LoadOrderSafe == Life!LoadOrderSafe

(* Plugins stop before what they depend on: other plugins (Plugins), the pools  *)
(* and the cache (Lifespan).                                                    *)
StopsDependentsFirst == Life!StopsDependentsFirst /\ Life!PluginsStopOnTheirServices

(* Heartbeats are counted once each however the stream is split (SwarmServer).  *)
HeartbeatsSurviveSplits == Swarm!HeartbeatsSurviveSplits

(* A vector is given up only where every target refused it, and goes out twice  *)
(* at most (RemoteNode).                                                        *)
FailoverSound == Node!FailoverSound

(* An input is handled by one registration of its agent, and tasks go round the *)
(* idle agents (Agents).                                                        *)
AgentsSound == Agent!HandledByOneRegistration /\ Agent!FairTurns

(* Spans of interleaved requests end cleanly, and the verdict of the integrity  *)
(* guard is the truth (Observers).                                              *)
ObserversSound == Observe!SpansEndCleanly /\ Observe!VerdictTrue

(* What is read at the start says what its sources say: the configuration, the  *)
(* phases, the skills, and the models that several requests load at once.       *)
StartupSound ==
  /\ Config!ProfileFillsGaps /\ Config!PhasesTellOneStory
  /\ Skill!SkillsOfTheLastLoad /\ Model!OwnLoadIsWhole
  /\ Model!LoadedIsWhole
=============================================================================

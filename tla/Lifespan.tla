------------------------------ MODULE Lifespan -------------------------------
(* The lifespan of gateway/app.py around the plugins: subsystems come up one  *)
(* after the other, background tasks are started and left alone, and at the   *)
(* end the plugins go first, while what they use is still there.              *)
EXTENDS Plugins

VARIABLES stage,       \* the await the lifespan is at
          up,          \* subsystems that are up
          background   \* tasks that asyncio.create_task started

lifespanVars == <<pluginVars, stage, up, background>>

LifespanInit ==
  /\ Init
  /\ stage = "plugins" /\ up = {} /\ background = {}

Comes(subsystem, next) ==
  /\ up' = up \cup {subsystem}
  /\ stage' = next
  /\ UNCHANGED <<pluginVars, background>>

(* pm.load_all: where it raises, the application does not start.              *)
PluginsComeUp ==
  /\ stage = "plugins"
  /\ Resolve \/ LoadPlugin \/ Initialized \/ AllLoaded
  /\ stage' = CASE phase' = "unbootable" -> "failed"
                [] phase' = "loaded" -> "pools"
                [] OTHER -> "plugins"
  /\ UNCHANGED <<up, background>>

(* initialize_all logs what a pool raises.                                    *)
PoolsComeUp == stage = "pools" /\ Comes("pools", "cache")

(* The cache's tiers and the warming of a namespace may raise, and then what  *)
(* is already up is left as it is: the part behind `yield' never runs.        *)
CacheComesUp ==
  \/ stage = "cache" /\ Comes("cache", "tasks")
  \/ /\ stage = "cache" /\ stage' = "failed"
     /\ UNCHANGED <<pluginVars, up, background>>

(* A model backend, where one is enabled; the threat feeds; the swarm server; *)
(* the metrics stream.                                                        *)
TasksStart ==
  /\ stage = "tasks"
  /\ \E model \in {{}, {"model"}} :
       background' = {"feeds", "swarm", "stream"} \cup model
  /\ stage' = "serving"
  /\ UNCHANGED <<pluginVars, up>>

TaskEnds ==
  /\ \E t \in background \cap {"feeds", "model"} : background' = background \ {t}
  /\ UNCHANGED <<pluginVars, stage, up>>

Serving ==
  /\ stage = "serving"
  /\ \E n \in DOMAIN state : Pause(n) \/ LoadFromPath(n)
  /\ UNCHANGED <<stage, up, background>>

EndServing ==
  /\ stage = "serving" /\ Shutdown
  /\ stage' = "stop plugins"
  /\ UNCHANGED <<up, background>>

PluginsGo ==
  /\ stage = "stop plugins"
  /\ ShutdownPlugin \/ AllStopped
  /\ stage' = IF phase' = "stopped" THEN "stop pools" ELSE stage
  /\ UNCHANGED <<up, background>>

PoolsGo ==
  /\ stage = "stop pools" /\ stage' = "stop cache"
  /\ up' = up \ {"pools"}
  /\ UNCHANGED <<pluginVars, background>>

CacheGoes ==
  /\ stage = "stop cache" /\ stage' = "stop stream"
  /\ up' = up \ {"cache"}
  /\ UNCHANGED <<pluginVars, background>>

(* stop_broadcaster; nobody stops the swarm server.                           *)
StreamGoes ==
  /\ stage = "stop stream" /\ stage' = "down"
  /\ background' = background \ {"stream"}
  /\ UNCHANGED <<pluginVars, up>>

LifespanNext ==
  \/ PluginsComeUp \/ PoolsComeUp \/ CacheComesUp \/ TasksStart \/ TaskEnds
  \/ Serving \/ EndServing
  \/ PluginsGo \/ PoolsGo \/ CacheGoes \/ StreamGoes

---------------------------------------------------------------------------
(* A plugin is still using the pools and the cache when its own shutdown      *)
(* runs, and requests were served only where both were up: neither goes while *)
(* a plugin is still to be asked.                                             *)
PluginsStopOnTheirServices ==
  /\ phase = "stopping" => {"pools", "cache"} \subseteq up
  /\ stage = "serving" => {"pools", "cache"} \subseteq up
=============================================================================

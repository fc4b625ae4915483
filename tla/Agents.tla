-------------------------------- MODULE Agents --------------------------------
(* core_engine/agent_router.py and collaboration.py: specialists are registered *)
(* and replaced by name while an input is handled tool by tool, and messages    *)
(* are logged.  A registration is an agent object: `object' maps a name to it.  *)
EXTENDS Naturals, Sequences, FiniteSets, Functions

CONSTANTS AgentNames,   \* names that may be registered besides "general"
          Handlings,    \* calls of handle
          MaxObjects, MaxTools, MaxLog   \* bounds: registrations, tools of one, messages

VARIABLES names,     \* keys of router.agents, in dict order
          object,    \* name -> number of its SpecialistAgent
          default,   \* default_agent
          tools,     \* object -> how many tools its list holds
          handling,  \* call -> [pc, name, object, used]
          log,       \* AgentSwarm._message_log
          queue      \* AgentCollaboration.message_queue

routerVars == <<names, object, default, tools, handling, log, queue>>

(* get_router with _setup_default_agents; the other defaults are in AgentNames. *)
RouterInit ==
  /\ names = <<"general">> /\ object = [n \in {"general"} |-> 1] /\ default = "general"
  /\ tools = <<0>>
  /\ handling = [h \in Handlings |-> [pc |-> "new", name |-> "general", object |-> 0, used |-> <<>>]]
  /\ log = <<>> /\ queue = <<>>

(* A name that is registered again keeps its place and loses its tools.         *)
RegisterAgent(n, isDefault) ==
  /\ Len(tools) < MaxObjects
  /\ tools' = Append(tools, 0)
  /\ object' = [m \in DOMAIN object \cup {n} |-> IF m = n THEN Len(tools) + 1 ELSE object[m]]
  /\ names' = IF n \in Range(names) THEN names ELSE Append(names, n)
  /\ default' = IF isDefault THEN n ELSE default
  /\ UNCHANGED <<handling, log, queue>>

RegisterTool(n) ==
  /\ n \in Range(names) /\ tools[object[n]] < MaxTools
  /\ tools' = [tools EXCEPT ![object[n]] = @ + 1]
  /\ UNCHANGED <<names, object, default, handling, log, queue>>

(* route: the agent of the highest similarity.  Scores lie in [-1, 1], so any   *)
(* agent may win, and the default one where all score -1.                       *)
Routed == Range(names) \cup {default}

Handle(h) ==
  /\ handling[h].pc = "new"
  /\ \E n \in Routed :
       handling' = [handling EXCEPT ![h] =
                      [pc |-> IF tools[object[n]] = 0 THEN "done" ELSE "tools",
                       name |-> n, object |-> object[n], used |-> <<>>]]
  /\ UNCHANGED <<names, object, default, tools, log, queue>>

(* escalate checks that the other agent exists and lets route choose.           *)
Escalate(h, to) == to \in Range(names) /\ Handle(h)

NextTool_Variant(h) ==
  \* A bug: the agent is looked up by its name again for every tool.
  /\ handling[h].pc = "tools"
  /\ LET o == object[handling[h].name]
         k == Len(handling[h].used) + 1
     IN IF k <= tools[o]
          THEN handling' = [handling EXCEPT ![h].used = Append(@, <<o, k>>)]
          ELSE handling' = [handling EXCEPT ![h].pc = "done"]
  /\ UNCHANGED <<names, object, default, tools, log, queue>>

(* One turn of the loop over agent.tools; the list may grow while it is waited. *)
NextTool(h) ==
  /\ handling[h].pc = "tools"
  /\ LET o == handling[h].object
         k == Len(handling[h].used) + 1
     IN IF k <= tools[o]
          THEN \/ handling' = [handling EXCEPT ![h].used = Append(@, <<o, k>>)]
               \/ handling' = [handling EXCEPT ![h].pc = "raised"]
          ELSE handling' = [handling EXCEPT ![h].pc = "done"]
  /\ UNCHANGED <<names, object, default, tools, log, queue>>

(* AgentSwarm.broadcast reaches everyone but the sender, in the dict's order.   *)
Broadcast(sender, exclude) ==
  /\ LET to == SelectSeq(names, LAMBDA n : n # sender /\ n \notin exclude)
     IN /\ Len(log) + Len(to) <= MaxLog
        /\ log' = log \o [i \in DOMAIN to |-> <<sender, to[i]>>]
  /\ UNCHANGED <<names, object, default, tools, handling, queue>>

(* AgentCollaboration: the id of a request is its place in the queue.           *)
Request(from, to) ==
  /\ Len(queue) < MaxLog
  /\ queue' = Append(queue, <<from, to>>)
  /\ UNCHANGED <<names, object, default, tools, handling, log>>

RouterNext ==
  \/ \E n \in AgentNames, d \in BOOLEAN : RegisterAgent(n, d)
  \/ \E n \in Range(names) : RegisterTool(n) \/ Broadcast(n, {})
  \/ \E h \in Handlings : Handle(h) \/ NextTool(h) \/ \E n \in Range(names) : Escalate(h, n)
  \/ \E from, to \in Range(names) : Request(from, to)

---------------------------------------------------------------------------
(* An input is handled with the tools of one registration, each once and in     *)
(* order, although the agent may be registered again at any of the awaits; and  *)
(* the default agent is always one that is registered.                          *)
HandledByOneRegistration ==
  /\ default \in Range(names)
  /\ \A h \in Handlings :
      LET H == handling[h]
      IN H.used = [i \in 1..Len(H.used) |-> <<H.object, i>>]

---------------------------------------------------------------------------
(* core_engine/multi_agent.py: tasks go round robin to the agents that are idle *)
(* at that moment; an agent is busy while an action it awaits is running.       *)

CONSTANTS MaxTasks, MaxAgents, MaxActions, MaxMail   \* bounds

VARIABLES role,         \* agent id -> AgentRole (a sequence: ids are 1, 2, ...)
          coordinator,  \* _coordinator_id, or 0
          roundRobin,   \* _round_robin
          busy,         \* agent id -> AgentState is ACTING
          running,      \* observation: agent id -> actions of its act under way
          actions,      \* actions started so far
          stats,        \* agent id -> [completed, failed]
          task,         \* _tasks: a sequence of [to, status], as assigned
          inbox,        \* agent id -> messages received
          mail,         \* _message_log: how many were sent
          turns         \* observation: automatic picks from one same idle list

teamVars == <<role, coordinator, roundRobin, busy, running, actions, stats, task, inbox, mail, turns>>

Assigned(a) == Append(task, [to |-> a, status |-> "assigned"])

TeamInit ==
  /\ role = <<>> /\ coordinator = 0 /\ roundRobin = 0
  /\ busy = <<>> /\ running = <<>> /\ actions = 0 /\ stats = <<>>
  /\ task = <<>>
  /\ inbox = <<>> /\ mail = 0 /\ turns = <<>>

CreateAgent(r) ==
  /\ Len(role) < MaxAgents
  /\ role' = Append(role, r)
  /\ coordinator' = IF r = "coordinator" /\ coordinator = 0 THEN Len(role) + 1 ELSE coordinator
  /\ busy' = Append(busy, FALSE) /\ running' = Append(running, 0)
  /\ stats' = Append(stats, [completed |-> 0, failed |-> 0])
  /\ inbox' = Append(inbox, 0)
  /\ turns' = <<>>
  /\ UNCHANGED <<roundRobin, actions, task, mail>>

Idle == {a \in DOMAIN role : ~busy[a]}

(* Where an agent stands in the list `active', counted from 0.                  *)
Standing(a) == Cardinality({b \in Idle : b < a})

AssignTask(a) ==
  /\ Len(task) < MaxTasks /\ a \in DOMAIN role
  /\ task' = Assigned(a)
  /\ UNCHANGED <<role, coordinator, roundRobin, busy, running, actions, stats, inbox, mail, turns>>

(* _next_agent; where nobody is idle the coordinator gets the task, or agent 1, *)
(* and without any agent assign_task answers False.                             *)
AssignNext ==
  /\ Len(task) < MaxTasks
  /\ IF Idle # {}
       THEN LET r == (roundRobin + 1) % Cardinality(Idle)
                a == CHOOSE b \in Idle : Standing(b) = r
            IN /\ roundRobin' = r
               /\ task' = Assigned(a)
               /\ turns' = Append(turns, a)
       ELSE LET a == IF coordinator # 0 THEN coordinator ELSE 1
            IN /\ a \in DOMAIN role
               /\ task' = Assigned(a)
               /\ UNCHANGED <<roundRobin, turns>>
  /\ UNCHANGED <<role, coordinator, busy, running, actions, stats, inbox, mail>>

(* execute_task: think awaits nothing, and leaves the agent IDLE.               *)
ExecuteTask(t) ==
  /\ task[t].status = "assigned"
  /\ LET a == task[t].to
     IN /\ busy' = [busy EXCEPT ![a] = FALSE]
        /\ turns' = IF busy[a] THEN <<>> ELSE turns
  /\ task' = [task EXCEPT ![t].status = "completed"]
  /\ UNCHANGED <<role, coordinator, roundRobin, running, actions, stats, inbox, mail>>

Act(a) ==
  /\ a \in DOMAIN role /\ actions < MaxActions
  /\ actions' = actions + 1
  /\ running' = [running EXCEPT ![a] = @ + 1]
  /\ busy' = [busy EXCEPT ![a] = TRUE]
  /\ turns' = IF busy[a] THEN turns ELSE <<>>
  /\ UNCHANGED <<role, coordinator, roundRobin, stats, task, inbox, mail>>

(* The finally block; another action of the agent may still be running.         *)
ActEnds(a) ==
  /\ a \in DOMAIN role /\ running[a] > 0
  /\ running' = [running EXCEPT ![a] = @ - 1]
  /\ busy' = [busy EXCEPT ![a] = FALSE]
  /\ \/ stats' = [stats EXCEPT ![a].completed = @ + 1]
     \/ stats' = [stats EXCEPT ![a].failed = @ + 1]
  /\ turns' = IF busy[a] THEN <<>> ELSE turns
  /\ UNCHANGED <<role, coordinator, roundRobin, actions, task, inbox, mail>>

SendMessage(from, to) ==
  /\ from \in DOMAIN role /\ to \in DOMAIN role /\ mail < MaxMail
  /\ mail' = mail + 1
  /\ inbox' = [inbox EXCEPT ![to] = @ + 1]
  /\ UNCHANGED <<role, coordinator, roundRobin, busy, running, actions, stats, task, turns>>

TeamNext ==
  \/ \E r \in {"coordinator", "worker"} : CreateAgent(r)
  \/ AssignNext
  \/ \E t \in DOMAIN task : ExecuteTask(t)
  \/ \E a \in DOMAIN role : AssignTask(a) \/ Act(a) \/ ActEnds(a)
  \/ \E from, to \in DOMAIN role : SendMessage(from, to)

---------------------------------------------------------------------------
(* While the same agents are idle, tasks go round: nobody is picked twice       *)
(* before everybody else was picked, whatever the counter was before; and the   *)
(* books of finished and running actions agree.                                 *)
Booked(a) == [running |-> running[a], completed |-> stats[a].completed,
              failed |-> stats[a].failed]
Entries ==
  UNION {{<<a, what, i>> : i \in 1..Booked(a)[what]} :
           a \in DOMAIN role, what \in {"running", "completed", "failed"}}

FairTurns ==
  /\ \A i \in DOMAIN turns, j \in DOMAIN turns :
       i < j /\ j < i + Cardinality(Idle) => turns[i] # turns[j]
  /\ actions = Cardinality(Entries)
===============================================================================

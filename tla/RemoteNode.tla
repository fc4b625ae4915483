------------------------------ MODULE RemoteNode ------------------------------
(* network/remote_node.py and stream_client.py: a vector goes to the current   *)
(* target; a failed send moves on to the next target and sends once more.      *)
(* Calls of stream_vector share the client and current_target_idx across       *)
(* their awaits.                                                               *)
EXTENDS Naturals, Sequences, FiniteSets

CONSTANTS Calls,      \* calls of stream_vector, each made once
          Targets,    \* 0..(n-1): indexes of the targets list
          MaxClients, \* bound: clients ever made
          MaxFlips    \* bound: times a target goes down or comes back

VARIABLES idx,      \* current_target_idx
          client,   \* self.client: an index of conn, or 0 for None
          conn,     \* clients made: [target, writer]
          reach,    \* targets that can be reached
          flips,
          call,     \* call -> [pc, mine, start, try]
          arrived,  \* observation: call -> copies of its vector that arrived
          refused,  \* observation: call -> targets that refused it in this loop
          shared    \* observation: calls that ran while another one did

nodeVars == <<idx, client, conn, reach, flips, call, arrived, refused, shared>>

Idle == [pc |-> "idle", mine |-> 0, start |-> 0, try |-> 0]

NodeInit ==
  /\ idx = 0 /\ client = 0 /\ conn = <<>>
  /\ reach \in SUBSET Targets /\ flips = 0
  /\ call = [c \in Calls |-> Idle]
  /\ arrived = [c \in Calls |-> 0]
  /\ refused = [c \in Calls |-> {}]
  /\ shared = {}

Goes(c, pc, u, start, try) ==
  call' = [call EXCEPT ![c] = [pc |-> pc, mine |-> u, start |-> start, try |-> try]]
Ends(c, pc) == Goes(c, pc, 0, call[c].start, call[c].try)
After(i) == (i + 1) % Cardinality(Targets)
Running(c) == call[c].pc \notin {"idle", "sent", "exhausted", "raised"}

(* _is_client_active: a connection that the peer has lost still counts.        *)
Active == client # 0 /\ conn[client].writer \in {"open", "lost"}

---------------------------------------------------------------------------
(* One turn of the loop in _get_client up to `await self.client.connect()';    *)
(* k is what conn is by then.                                                  *)
Attempt(c, start, i, try, k) ==
  /\ Len(conn) < MaxClients
  /\ conn' = Append(k, [target |-> i, writer |-> "none"])
  /\ client' = Len(conn) + 1
  /\ idx' = i
  /\ Goes(c, "connecting", Len(conn) + 1, start, try)

GetClient(c, i, try, k) ==
  IF try = 1 /\ Active
    THEN Goes(c, "sending", client, i, try) /\ conn' = k /\ UNCHANGED <<idx, client, refused>>
  ELSE /\ refused' = [refused EXCEPT ![c] = {}]
       /\ IF client # 0 /\ k[client].writer # "none"
            THEN /\ conn' = [k EXCEPT ![client].writer = "closing"]
                 /\ Goes(c, "closing", client, i, try)
                 /\ idx' = i /\ UNCHANGED client
            ELSE Attempt(c, i, i, try, k)

StreamVector(c) ==
  /\ call[c].pc = "idle"
  /\ GetClient(c, idx, 1, conn)
  /\ LET others == {d \in Calls : Running(d)}
     IN shared' = IF others = {} THEN shared ELSE shared \cup others \cup {c}
  /\ UNCHANGED <<reach, flips, arrived>>

(* `await self.client.close()' returns, and whoever is self.client now is      *)
(* forgotten; or wait_closed raises what broke the connection.                 *)
Closed(c) ==
  /\ call[c].pc = "closing"
  /\ \/ Attempt(c, idx, idx, call[c].try, [conn EXCEPT ![call[c].mine].writer = "none"])
     \/ Ends(c, "raised") /\ UNCHANGED <<idx, client, conn>>
  /\ UNCHANGED <<reach, flips, arrived, refused, shared>>

Connected(c) ==    \* returns self.client, whosever it is by now
  /\ call[c].pc = "connecting" /\ conn[call[c].mine].target \in reach
  /\ conn' = [conn EXCEPT ![call[c].mine].writer = "open"]
  /\ Goes(c, "sending", client, call[c].start, call[c].try)
  /\ UNCHANGED <<idx, client, reach, flips, arrived, refused, shared>>

Refused_Variant(c) ==
  \* A bug: the loop gives up where the list of targets wraps around.
  /\ call[c].pc = "connecting" /\ conn[call[c].mine].target \notin reach
  /\ refused' = [refused EXCEPT ![c] = @ \cup {conn[call[c].mine].target}]
  /\ IF After(idx) = 0
       THEN Ends(c, "exhausted") /\ idx' = After(idx) /\ UNCHANGED <<client, conn>>
       ELSE Attempt(c, call[c].start, After(idx), call[c].try, conn)
  /\ UNCHANGED <<reach, flips, arrived, shared>>

Refused(c) ==
  /\ call[c].pc = "connecting" /\ conn[call[c].mine].target \notin reach
  /\ refused' = [refused EXCEPT ![c] = @ \cup {conn[call[c].mine].target}]
  /\ IF After(idx) = call[c].start
       THEN Ends(c, "exhausted") /\ idx' = After(idx) /\ UNCHANGED <<client, conn>>
       ELSE Attempt(c, call[c].start, After(idx), call[c].try, conn)
  /\ UNCHANGED <<reach, flips, arrived, shared>>

---------------------------------------------------------------------------
(* The first send that fails makes the node pivot to the next target; the      *)
(* second one is the caller's to handle.                                       *)
Fails(c, k) ==
  IF call[c].try = 1 THEN GetClient(c, After(idx), 2, k)
  ELSE Ends(c, "raised") /\ conn' = k /\ UNCHANGED <<idx, client, refused>>

NoClient(c) ==    \* another call has set self.client to None
  /\ call[c].pc = "sending" /\ call[c].mine = 0
  /\ Fails(c, conn)
  /\ UNCHANGED <<reach, flips, arrived, shared>>

Writes(c) ==    \* no end of file seen
  /\ call[c].pc = "sending" /\ call[c].mine # 0
  /\ conn[call[c].mine].writer \in {"open", "lost"}
  /\ Goes(c, "draining", call[c].mine, call[c].start, call[c].try)
  /\ UNCHANGED <<idx, client, conn, reach, flips, arrived, refused, shared>>

SeesDead(c) ==    \* send_vector connects the same client once more
  /\ call[c].pc = "sending" /\ call[c].mine # 0
  /\ conn[call[c].mine].writer # "open"
  /\ Goes(c, "reconnecting", call[c].mine, call[c].start, call[c].try)
  /\ UNCHANGED <<idx, client, conn, reach, flips, arrived, refused, shared>>

Reconnected(c) ==
  /\ call[c].pc = "reconnecting"
  /\ LET u == call[c].mine
     IN IF conn[u].target \in reach
          THEN /\ conn' = [conn EXCEPT ![u].writer = "open"]
               /\ Goes(c, "draining", u, call[c].start, call[c].try)
               /\ UNCHANGED <<idx, client, refused>>
          ELSE Fails(c, conn)
  /\ UNCHANGED <<reach, flips, arrived, shared>>

(* `await self.writer.drain()' returns; over a lost connection the vector may  *)
(* still not have arrived.                                                     *)
Drained(c) ==
  /\ call[c].pc = "draining"
  /\ Ends(c, "sent")
  /\ \E n \in {0, 1} :
       /\ conn[call[c].mine].writer = "open" => n = 1
       /\ arrived' = [arrived EXCEPT ![c] = @ + n]
  /\ UNCHANGED <<idx, client, conn, reach, flips, refused, shared>>

(* Or it raises, and the vector may have arrived all the same.                 *)
DrainFails(c) ==
  /\ call[c].pc = "draining" /\ conn[call[c].mine].writer # "open"
  /\ \E n \in {0, 1} : arrived' = [arrived EXCEPT ![c] = @ + n]
  /\ Fails(c, [conn EXCEPT ![call[c].mine].writer = "none"])
  /\ UNCHANGED <<reach, flips, shared>>

---------------------------------------------------------------------------
TargetGoes(t) ==
  /\ t \in reach /\ flips < MaxFlips
  /\ reach' = reach \ {t} /\ flips' = flips + 1
  /\ conn' = [u \in DOMAIN conn |->
                IF conn[u].target = t /\ conn[u].writer = "open"
                  THEN [conn[u] EXCEPT !.writer = "lost"] ELSE conn[u]]
  /\ UNCHANGED <<idx, client, call, arrived, refused, shared>>

TargetComes(t) ==
  /\ t \in Targets \ reach /\ flips < MaxFlips
  /\ reach' = reach \cup {t} /\ flips' = flips + 1
  /\ UNCHANGED <<idx, client, conn, call, arrived, refused, shared>>

NodeNext ==
  \/ \E c \in Calls :
       \/ StreamVector(c) \/ Closed(c) \/ Connected(c) \/ Refused(c)
       \/ NoClient(c) \/ Writes(c) \/ SeesDead(c) \/ Reconnected(c)
       \/ Drained(c) \/ DrainFails(c)
  \/ \E t \in Targets : TargetGoes(t) \/ TargetComes(t)

---------------------------------------------------------------------------
(* A call that had the node to itself gives up only where every target         *)
(* refused it; and while no calls overlap, the node has one connection at      *)
(* most, and no call hands its vector over more than twice.                    *)
FailoverSound ==
  /\ \A c \in Calls \ shared : call[c].pc = "exhausted" => refused[c] = Targets
  /\ shared = {} => Cardinality({u \in DOMAIN conn : conn[u].writer = "open"}) <= 1
  /\ \A c \in Calls : arrived[c] <= 2
=============================================================================

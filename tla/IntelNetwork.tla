---------------------------- MODULE IntelNetwork ----------------------------
(* The internal news desk of core_engine/intel_network.py behind the routes  *)
(* of gateway/routes/intel.py: members subscribe to channels, an alert is    *)
(* routed by its TYPE to the members of the type's channels at that moment,  *)
(* and stays queued until as many acknowledgements as recipients came in.    *)
(* No handler suspends, so each request is one step.                         *)
EXTENDS Naturals, Sequences, FiniteSets, SequencesExt

CONSTANTS Members,      \* member ids a request may name
          Founders,     \* [SUBSET Members -> channel]: the default roster
          OpenChannels, \* the channels the requests of an instance name
          AlertTypes,   \* the intel types the requests of an instance name
          MaxMessages,  \* bound: messages ever sent
          MaxAcks       \* bound: acknowledgements one message takes

VARIABLES channels,  \* IntelRouter._channels: channel -> members
          alerts,    \* IntelRouter._message_queue
          sent,      \* messages sent so far: the ids in use
          cleared    \* observation: the messages clear_acknowledged removed

intelVars == <<channels, alerts, sent, cleared>>

Channels == {"all", "virus_team", "scam_team", "security_team",
             "research_team", "bridge_net"}

RouteRules ==
  [virus_alert      |-> {"virus_team", "all"},
   scam_alert       |-> {"scam_team", "all"},
   vulnerability    |-> {"security_team", "research_team"},
   threat_pattern   |-> {"research_team", "virus_team", "scam_team"},
   patch_ready      |-> {"all"},
   situation_report |-> {"all"}]

DefaultMembers ==
  channels = [c \in Channels |-> {m \in DOMAIN Founders : Founders[m] = c}]

Init ==
  /\ DefaultMembers
  /\ alerts = <<>>
  /\ sent = 0
  /\ cleared = {}

---------------------------------------------------------------------------
(* route_intel: the message's own channel plays no part in the routing.      *)
RouteIntel(channel, type) ==
  /\ sent < MaxMessages
  /\ sent' = sent + 1
  /\ LET recipients == UNION {channels[c] : c \in RouteRules[type]}
     IN alerts' = Append(alerts, [id |-> sent + 1, channel |-> channel,
                                type |-> type, recipients |-> recipients,
                                acks |-> <<>>])
  /\ UNCHANGED <<channels, cleared>>

(* The three senders of IntelNetwork and the one of CrossPlatformBridge.     *)
Broadcast(type) == RouteIntel("all", type)
ToTeam(team, type) == RouteIntel(team, type)
Critical(type) == RouteIntel("all", type)
CrossPlatform(type) == RouteIntel("bridge_net", type)

Subscribe(m, c) == channels' = [channels EXCEPT ![c] = @ \cup {m}]

(* The requests.  A type, team or channel that is no value of its            *)
(* enumeration is answered with 400 before anything happens.                 *)
BroadcastAlert == \E t \in AlertTypes : Broadcast(t)

SendToTeam == \E team \in OpenChannels, t \in AlertTypes : ToTeam(team, t)

SendCriticalAlert == \E t \in AlertTypes : Critical(t)

BroadcastCrossPlatform == \E t \in AlertTypes : CrossPlatform(t)

(* A second registration leaves the member subscribed to the channel of the  *)
(* first (the roster _members is only counted, and left out).                *)
RegisterMember ==
  \E m \in Members, c \in OpenChannels :
    Subscribe(m, c) /\ UNCHANGED <<alerts, sent, cleared>>

Unsubscribe ==
  \E m \in Members, c \in OpenChannels :
    /\ channels' = [channels EXCEPT ![c] = @ \ {m}]
    /\ UNCHANGED <<alerts, sent, cleared>>

(* Anyone may acknowledge, and as often as they like.                        *)
Acknowledge(i, m) ==
  /\ Len(alerts[i].acks) < MaxAcks
  /\ alerts' = [alerts EXCEPT ![i].acks = Append(@, m)]

AcknowledgeMessage ==
  \E i \in 1..Len(alerts), m \in Members :
    Acknowledge(i, m) /\ UNCHANGED <<channels, sent, cleared>>

StillPending_Variant(m) ==
  \* A bug: the last recipient is not waited for.
  Len(m.acks) + 1 < Cardinality(m.recipients)

StillPending(m) == Len(m.acks) < Cardinality(m.recipients)

\* What a sequence has at the positions I, in its order.
Kept(s, I) == [n \in 1..Cardinality(I) |->
                 s[CHOOSE i \in I : Cardinality({j \in I : j <= i}) = n]]

ClearAcknowledged ==
  /\ alerts' = Kept(alerts, {i \in DOMAIN alerts : StillPending(alerts[i])})
  /\ cleared' = cleared \cup {m \in ToSet(alerts) : ~StillPending(m)}
  /\ UNCHANGED <<channels, sent>>

Next ==
  \/ BroadcastAlert
  \/ SendToTeam
  \/ SendCriticalAlert
  \/ BroadcastCrossPlatform
  \/ RegisterMember
  \/ Unsubscribe
  \/ AcknowledgeMessage
  \/ ClearAcknowledged

Spec == Init /\ [][Next]_intelVars

---------------------------------------------------------------------------
(* Acknowledgements are only counted.  The count is the right test as long   *)
(* as each recipient acknowledges once and nobody else does: then a message  *)
(* leaves the queue only when every recipient has read it, however members   *)
(* came and went in between.                                                 *)
NotClearedUnread ==
  \A m \in cleared :
    IsInjective(m.acks) /\ ToSet(m.acks) \subseteq m.recipients
      => m.recipients \subseteq ToSet(m.acks)
=============================================================================

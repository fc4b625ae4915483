----------------------------- MODULE SwarmServer -----------------------------
(* One connection of network/stream_server.py: packets arrive in any split,   *)
(* the server takes heartbeats and data packets out of its buffer.  A unit of *)
(* the stream is <<packet, k>>: header parts 1 and 2, then the payload.       *)
EXTENDS Naturals, Sequences, FiniteSets

CONSTANTS Nodes,      \* node ids that senders use
          MaxPackets  \* bound: packets sent

VARIABLES sent,       \* the packets, [node, beat, body]: what pack_vector built
          wire,       \* units on their way
          buffer,     \* _handle_client's buffer
          beats,      \* active_nodes, with the number of updates for each node
          ghosts,     \* observation: entries of active_nodes made from misread bytes
          lost,       \* observation: the buffer was dropped at a ValueError
          open        \* the connection

swarmVars == <<sent, wire, buffer, beats, ghosts, lost, open>>

Header == 2
Length(p) == Header + sent[p].body
Units(p, body) == [k \in 1..(Header + body) |-> <<p, k>>]

SwarmInit ==
  /\ sent = <<>> /\ wire = <<>> /\ buffer = <<>>
  /\ beats = [n \in Nodes |-> 0] /\ ghosts = 0
  /\ lost = FALSE /\ open = TRUE

(* _pulse_loop sends headers only; other senders may give a heartbeat a       *)
(* payload.  send_vector sends a payload always.                              *)
Send(node, beat, body) ==
  /\ open /\ Len(sent) < MaxPackets
  /\ body > 0 \/ beat
  /\ sent' = Append(sent, [node |-> node, beat |-> beat, body |-> body])
  /\ wire' = wire \o Units(Len(sent) + 1, body)
  /\ UNCHANGED <<buffer, beats, ghosts, lost, open>>

---------------------------------------------------------------------------
(* One turn of the inner loop on s = [buffer, beats, ghosts, lost, done].     *)
Beat_Variant(s) ==
  \* A bug: the end of a header stays in the buffer.
  LET p == s.buffer[1][1]
  IN [s EXCEPT !.beats[sent[p].node] = @ + 1,
               !.buffer = SubSeq(@, Length(p), Len(@))]

Beat(s) ==    \* a slice behind the end of what has arrived is empty
  LET p == s.buffer[1][1]
  IN [s EXCEPT !.beats[sent[p].node] = @ + 1,
               !.buffer = SubSeq(@, 1 + Length(p), Len(@))]

(* A whole data packet unpacks to an array, never to the three values that    *)
(* are asked of it: ValueError, and the buffer is dropped.  Until it is whole *)
(* unpack_vector answers None.                                                *)
Data(s) ==
  IF Len(s.buffer) < Length(s.buffer[1][1]) THEN [s EXCEPT !.done = TRUE]
  ELSE [s EXCEPT !.buffer = <<>>, !.lost = TRUE, !.done = TRUE]

(* Bytes from the middle of a packet: by chance a heartbeat of some length,   *)
(* or a packet without the magic, which is waited for forever.                *)
Misread(s) ==
  {[s EXCEPT !.done = TRUE]} \cup
  {[s EXCEPT !.ghosts = @ + 1, !.buffer = SubSeq(@, skip, Len(@))] :
     skip \in (1 + Header)..(Len(s.buffer) + 1)}

Turn(s) ==
  IF s.done \/ Len(s.buffer) < Header THEN {s}
  ELSE IF s.buffer[1][2] # 1 THEN Misread(s)
  ELSE IF sent[s.buffer[1][1]].beat THEN {Beat(s)}
  ELSE {Data(s)}

(* What s may become until more is read: a turn shortens the buffer, or is    *)
(* the last.                                                                  *)
Handle(s) ==
  LET after[k \in 0..Len(s.buffer)] ==
        IF k = 0 THEN {s} ELSE UNION {Turn(t) : t \in after[k - 1]}
  IN after[Len(s.buffer)]

(* reader.read: whatever part of the stream there is.                         *)
Read(n) ==
  /\ open /\ n \in 1..Len(wire)
  /\ wire' = SubSeq(wire, n + 1, Len(wire))
  /\ \E s \in Handle([buffer |-> buffer \o SubSeq(wire, 1, n), beats |-> beats,
                      ghosts |-> ghosts, lost |-> lost, done |-> FALSE]) :
       /\ buffer' = s.buffer /\ beats' = s.beats
       /\ ghosts' = s.ghosts /\ lost' = s.lost
  /\ UNCHANGED <<sent, open>>

(* The peer closes, or the server's stop does.                                *)
Close ==
  /\ open /\ open' = FALSE
  /\ UNCHANGED <<sent, wire, buffer, beats, ghosts, lost>>

SwarmNext ==
  \/ \E node \in Nodes, beat \in BOOLEAN, body \in 0..1 : Send(node, beat, body)
  \/ \E n \in 1..Len(wire) : Read(n)
  \/ Close

---------------------------------------------------------------------------
Arrived(p) == \A i \in DOMAIN wire : wire[i][1] # p   \* the whole of packet p

(* However the stream is split, a node is seen once for each of its           *)
(* heartbeats that has arrived, and for nothing else, as long as no data      *)
(* packet has been completed and no heartbeat carries a payload: then the     *)
(* server starts every packet at its first byte.                              *)
HeartbeatsSurviveSplits ==
  ~lost /\ (\A p \in DOMAIN sent : sent[p].beat => sent[p].body = 0) =>
    /\ ghosts = 0
    /\ \A n \in Nodes :
         beats[n] = Cardinality({p \in DOMAIN sent : sent[p].beat /\ sent[p].node = n /\ Arrived(p)})
    /\ buffer # <<>> => buffer[1][2] = 1
=============================================================================

---------------------------- MODULE EventStream -----------------------------
(* The server-sent events of gateway/routes/sse.py: every subscriber has a   *)
(* bounded queue, and _broadcast holds the lock of the subscriber list while *)
(* it waits for room in each queue in turn.  asyncio.Lock serves its waiters *)
(* in order: the head of `line' holds it, the rest wait.                     *)
EXTENDS Naturals, Sequences, FiniteSets, Functions

CONSTANTS Clients, QueueSize,
          Casts,     \* broadcasts: cast -> "metrics" or "trigger"
          MaxCasts   \* Casts is a function on 1..MaxCasts

VARIABLES line,         \* who holds and who waits for _subscribers_lock
          at,           \* where the broadcast at the head is in the list
          subscribers,  \* _subscribers
          state,        \* client -> "new", "joining", "reading", "leaving", "gone"
          queue,        \* client -> its queue
          cast,         \* broadcasts asked for so far
          stopped,      \* the metrics broadcaster was cancelled
          history,      \* observation: broadcasts in the order they got the lock
          joined,       \* observation: client -> Len(history) when it joined
          taken,        \* observation: client -> what it took from its queue
          missed        \* observation: <<client, cast>> of a cancelled broadcast

streamVars == <<line, at, subscribers, state, queue, cast, stopped, history,
                joined, taken, missed>>

Init ==
  /\ line = <<>> /\ at = 0
  /\ subscribers = <<>>
  /\ state = [c \in Clients |-> "new"]
  /\ queue = [c \in Clients |-> <<>>]
  /\ cast = 0
  /\ stopped = FALSE
  /\ history = <<>>
  /\ joined = [c \in Clients |-> 0]
  /\ taken = [c \in Clients |-> <<>>]
  /\ missed = {}

Task(op, id) == [op |-> op, id |-> id]
Holds(op) == line # <<>> /\ Head(line).op = op
MetricsTask == {i \in DOMAIN line : line[i].op = "cast" /\ Casts[line[i].id] = "metrics"}

\* What a sequence has at the positions I, in its order.
Kept(s, I) == [n \in 1..Cardinality(I) |->
                 s[CHOOSE i \in I : Cardinality({j \in I : j <= i}) = n]]

---------------------------------------------------------------------------
SseEvents ==
  \E c \in Clients :
    /\ state[c] = "new"
    /\ state' = [state EXCEPT ![c] = "joining"]
    /\ line' = Append(line, Task("join", c))
    /\ UNCHANGED <<at, subscribers, queue, cast, stopped, history, joined, taken, missed>>

Joins ==
  /\ Holds("join")
  /\ LET c == Head(line).id
     IN /\ subscribers' = Append(subscribers, c)
        /\ state' = [state EXCEPT ![c] = "reading"]
        /\ joined' = [joined EXCEPT ![c] = Len(history)]
  /\ line' = Tail(line)
  /\ UNCHANGED <<at, queue, cast, stopped, history, taken, missed>>

(* trigger_event, broadcast_swarm_incident, and metrics_broadcaster, which   *)
(* broadcasts one event at a time.                                           *)
Broadcast ==
  /\ cast < MaxCasts
  /\ Casts[cast + 1] = "metrics" => ~stopped /\ MetricsTask = {}
  /\ cast' = cast + 1
  /\ line' = Append(line, Task("cast", cast + 1))
  /\ UNCHANGED <<at, subscribers, state, queue, stopped, history, joined, taken, missed>>

SkippedCast ==    \* the stopped broadcaster will not make its event
  /\ cast < MaxCasts /\ Casts[cast + 1] = "metrics" /\ stopped
  /\ cast' = cast + 1
  /\ UNCHANGED <<line, at, subscribers, state, queue, stopped, history, joined, taken, missed>>

Starts ==
  /\ Holds("cast") /\ at = 0
  /\ at' = 1
  /\ history' = Append(history, Head(line).id)
  /\ UNCHANGED <<line, subscribers, state, queue, cast, stopped, joined, taken, missed>>

(* `await queue.put(event)' waits here, lock in hand, while the queue is full.*)
Puts ==
  /\ Holds("cast") /\ at \in 1..Len(subscribers)
  /\ LET c == subscribers[at]
     IN /\ Len(queue[c]) < QueueSize
        /\ queue' = [queue EXCEPT ![c] = Append(@, Head(line).id)]
  /\ at' = at + 1
  /\ UNCHANGED <<line, subscribers, state, cast, stopped, history, joined, taken, missed>>

Finishes ==
  /\ Holds("cast") /\ at > Len(subscribers)
  /\ line' = Tail(line) /\ at' = 0
  /\ UNCHANGED <<subscribers, state, queue, cast, stopped, history, joined, taken, missed>>

(* The generator takes an event; a filter on types only decides whether it   *)
(* is shown.  The 30 s timeout shows a ping and waits again.                 *)
Reads(c) ==
  /\ state[c] = "reading" /\ queue[c] # <<>>
  /\ queue' = [queue EXCEPT ![c] = Tail(@)]
  /\ taken' = [taken EXCEPT ![c] = Append(@, Head(queue[c]))]
  /\ UNCHANGED <<line, at, subscribers, state, cast, stopped, history, joined, missed>>

Disconnects_Variant ==
  \* A bug: the finally block removes the queue without taking the lock.
  \E c \in Clients :
    /\ state[c] = "reading"
    /\ state' = [state EXCEPT ![c] = "gone"]
    /\ subscribers' = Kept(subscribers, {i \in DOMAIN subscribers : subscribers[i] # c})
    /\ UNCHANGED <<line, at, queue, cast, stopped, history, joined, taken, missed>>

(* The finally block of a client that went away.                             *)
Disconnects ==
  \E c \in Clients :
    /\ state[c] = "reading"
    /\ state' = [state EXCEPT ![c] = "leaving"]
    /\ line' = Append(line, Task("leave", c))
    /\ UNCHANGED <<at, subscribers, queue, cast, stopped, history, joined, taken, missed>>

Leaves ==
  /\ Holds("leave")
  /\ LET c == Head(line).id
     IN /\ subscribers' = Kept(subscribers, {i \in DOMAIN subscribers : subscribers[i] # c})
        /\ state' = [state EXCEPT ![c] = "gone"]
  /\ line' = Tail(line)
  /\ UNCHANGED <<at, queue, cast, stopped, history, joined, taken, missed>>

(* stop_broadcaster: the metrics task ends where it waits, for the lock or   *)
(* for room in a queue; cancellation is no Exception, and the lock is freed. *)
StopBroadcaster ==
  /\ ~stopped
  /\ stopped' = TRUE
  /\ line' = Kept(line, DOMAIN line \ MetricsTask)
  /\ IF 1 \in MetricsTask /\ at > 0
       THEN /\ missed' = missed \cup
                 {<<subscribers[i], Head(line).id>> : i \in at..Len(subscribers)}
            /\ at' = 0
       ELSE UNCHANGED <<missed, at>>
  /\ UNCHANGED <<subscribers, state, queue, cast, history, joined, taken>>

Serve == Joins \/ Starts \/ Puts \/ Finishes \/ Leaves

Next ==
  \/ SseEvents
  \/ Broadcast
  \/ SkippedCast
  \/ Serve
  \/ \E c \in Clients : Reads(c)
  \/ Disconnects
  \/ StopBroadcaster

(* The event loop runs whoever holds the lock, and connected clients read.   *)
Fairness == WF_streamVars(Serve) /\ \A c \in Clients : WF_streamVars(Reads(c))

Spec == Init /\ [][Next]_streamVars /\ Fairness

---------------------------------------------------------------------------
(* Client c is still to be reached by the broadcast under way.               *)
Ahead(c, n) ==
  /\ at > 0 /\ n = Head(line).id
  /\ \E i \in at..Len(subscribers) : subscribers[i] = c

(* What a subscriber took and has in its queue is exactly what was broadcast *)
(* since it joined, in one order for all subscribers, however clients join   *)
(* and leave meanwhile: only a cancelled broadcast may miss it.              *)
StreamKeepsOrder ==
  \A c \in Range(subscribers) :
    taken[c] \o queue[c] =
      Kept(history, {i \in (joined[c] + 1)..Len(history) :
                       ~Ahead(c, history[i]) /\ <<c, history[i]>> \notin missed})

(* Every event that is triggered is in the end handed to all subscribers:    *)
(* the stream is "real-time" for whoever triggers and for whoever reads.     *)
EveryBroadcastEnds ==
  \A n \in 1..MaxCasts :
    (\E i \in DOMAIN line : line[i] = Task("cast", n))
      ~> ~(\E i \in DOMAIN line : line[i] = Task("cast", n))
=============================================================================

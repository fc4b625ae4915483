------------------------------ MODULE Webhooks ------------------------------
(* WebhookManager of gateway/routes/webhooks.py: hooks are registered and    *)
(* unregistered, an event goes to every matching hook, and an attempt that   *)
(* failed is repeated by a task that nobody keeps.  An attempt names a       *)
(* variable that _attempt_delivery does not have, inside its try: it fails   *)
(* before anything is sent and never suspends.  Time is in seconds.          *)
EXTENDS Integers, Sequences, FiniteSets, Functions

CONSTANTS Hooks,        \* the ids register hands out
          MaxRetries,   \* hook -> max_retries
          Wanted,       \* hook -> the events it lists, "*" for all
          Events,
          MaxFired,     \* bound: events fired
          MaxTime       \* bound: the clock stops here

VARIABLES client,    \* aiohttp is installed: there is an _http_client
          hooks,     \* _hooks, in insertion order
          gone,      \* hooks that were unregistered
          failures,  \* failure_count, of the objects the tasks hold too
          pending,   \* the retry tasks asleep: [hook, event, attempt, due, delay]
          fired,     \* events fired so far
          clock,
          tried      \* observation: hook -> event -> times of the attempts

hookVars == <<client, hooks, gone, failures, pending, fired, clock, tried>>

Init ==
  /\ client \in BOOLEAN
  /\ hooks = <<>>
  /\ gone = {}
  /\ failures = [h \in Hooks |-> 0]
  /\ pending = {}
  /\ fired = 0
  /\ clock = 0
  /\ tried = [h \in Hooks |-> [n \in 1..MaxFired |-> <<>>]]

---------------------------------------------------------------------------
(* The route refuses to register without aiohttp.                            *)
Register ==
  \E h \in Hooks \ (Range(hooks) \cup gone) :
    /\ client
    /\ hooks' = Append(hooks, h)
    /\ UNCHANGED <<client, gone, failures, pending, fired, clock, tried>>

(* _auto_register_common_webhooks does not ask for aiohttp.                  *)
AutoRegister ==
  \E h \in Hooks \ (Range(hooks) \cup gone) :
    /\ hooks' = Append(hooks, h)
    /\ UNCHANGED <<client, gone, failures, pending, fired, clock, tried>>

(* The retries of an unregistered hook go on: the task holds the object.     *)
Unregister ==
  \E h \in Range(hooks) :
    /\ hooks' = SelectSeq(hooks, LAMBDA x : x # h)
    /\ gone' = gone \cup {h}
    /\ UNCHANGED <<client, failures, pending, fired, clock, tried>>

Matching(e) == {h \in Range(hooks) : Wanted[h] \cap {e, "*"} # {}}

(* _attempt_delivery without a client fails too, but is not counted.         *)
Attempt(hs, n) ==
  /\ failures' = [h \in Hooks |-> failures[h] + IF client /\ h \in hs THEN 1 ELSE 0]
  /\ tried' = [h \in Hooks |-> IF h \in hs
                 THEN [tried[h] EXCEPT ![n] = Append(@, clock)] ELSE tried[h]]

Sleeping_Variant(h, n, attempt, delay) ==
  \* A bug: the last retry is left out.
  IF attempt >= MaxRetries[h] THEN {}
  ELSE {[hook |-> h, event |-> n, attempt |-> attempt,
         due |-> clock + delay, delay |-> delay]}

(* The loop of _retry_delivery, asleep before its attempt-th attempt.        *)
Sleeping(h, n, attempt, delay) ==
  IF attempt > MaxRetries[h] THEN {}
  ELSE {[hook |-> h, event |-> n, attempt |-> attempt,
         due |-> clock + delay, delay |-> delay]}

(* fire_event and deliver: every attempt fails, so every hook gets a task.   *)
FireEvent ==
  \E e \in Events :
    /\ fired < MaxFired
    /\ fired' = fired + 1
    /\ Attempt(Matching(e), fired + 1)
    /\ pending' = pending \cup UNION {Sleeping(h, fired + 1, 2, 1) : h \in Matching(e)}
    /\ UNCHANGED <<client, hooks, gone, clock>>

(* A task wakes when its delay has passed, or later; the delay doubles.      *)
RetryDelivery ==
  \E t \in pending :
    /\ t.due <= clock
    /\ Attempt({t.hook}, t.event)
    /\ pending' = (pending \ {t})
                    \cup Sleeping(t.hook, t.event, t.attempt + 1, 2 * t.delay)
    /\ UNCHANGED <<client, hooks, gone, fired, clock>>

Tick ==
  /\ clock < MaxTime
  /\ clock' = clock + 1
  /\ UNCHANGED <<client, hooks, gone, failures, pending, fired, tried>>

Next ==
  \/ Register
  \/ AutoRegister
  \/ Unregister
  \/ FireEvent
  \/ RetryDelivery
  \/ Tick

Spec == Init /\ [][Next]_hookVars

---------------------------------------------------------------------------
(* The pause before the first retry, the second, ...                         *)
Pause[i \in Nat] == IF i = 0 THEN 1 ELSE 2 * Pause[i - 1]

(* Every attempt made for hook h: which event, and the how manieth.          *)
Attempts(h) == UNION {{n} \X DOMAIN tried[h][n] : n \in 1..MaxFired}

(* The retries of every event run their whole course, whatever hooks come    *)
(* and go meanwhile: attempts are at least 1, 2, 4... seconds apart, there   *)
(* are never more than max_retries (and the first), the event is given up    *)
(* only after the last, and failure_count counts them all.                   *)
RetriesRunTheirCourse ==
  \A h \in Hooks :
    /\ \A n \in 1..MaxFired :
         LET times == tried[h][n]
             last == IF MaxRetries[h] < 1 THEN 1 ELSE MaxRetries[h]
         IN /\ \A i \in 2..Len(times) : times[i] - times[i - 1] >= Pause[i - 2]
            /\ Len(times) <= last
            /\ (times # <<>> /\ ~\E t \in pending : t.hook = h /\ t.event = n)
                 => Len(times) = last
    /\ client => failures[h] = Cardinality(Attempts(h))
=============================================================================

--------------------------- MODULE RequestBatcher ---------------------------
(* RequestBatcher of core_engine/connections/batcher.py.  submit queues a     *)
(* request and awaits its future; flush takes the whole queue and hands it to *)
(* the processor.  flush is run by the background loop, by a task that submit *)
(* creates when the batch is full, and by stop: several flushes may be in the *)
(* processor at once.                                                         *)
EXTENDS Integers, Sequences, FiniteSets, SequencesExt

CONSTANTS
    Requests,        \* the calls of submit, each made once
    Urgent,          \* those made with priority=True
    BatchSize,       \* config.batch_size
    MaxQueueSize,    \* config.max_queue_size
    EnablePriority,  \* config.enable_priority
    Loop, Stopper    \* who runs flush, besides the tasks submit creates

ASSUME BatcherAssumption ==
    /\ IsFiniteSet(Requests) /\ Urgent \subseteq Requests
    /\ BatchSize \in Nat \ {0} /\ MaxQueueSize \in Nat \ {0}
    /\ EnablePriority \in BOOLEAN
    /\ Loop \notin Requests /\ Stopper \notin Requests /\ Loop # Stopper

(* The flush task that request r's submit creates is named r.                 *)
Flushers == Requests \cup {Loop, Stopper}

VARIABLES
    queue,    \* _queue
    lock,     \* the requests whose submit holds _lock across an await
    pc,       \* pc[r]: "new", "direct" (processed under the lock), "waiting"
              \*        (awaits its future), "done"
    fut,      \* fut[r]: its future, or what the direct call gave
    spawned,  \* flush tasks that submit created and that have not run yet
    flight,   \* flight[f]: the batch f is awaiting the processor for
    phase     \* "up", then stop's "stopping", "flushing", "lastBatch", "stopped"

vars == <<queue, lock, pc, fut, spawned, flight, phase>>

Outcome == {"result", "error", "rejected", "cancelled"}

\* A batcher that was started.
Init == /\ queue = <<>> /\ lock = {} /\ spawned = {} /\ phase = "up"
        /\ pc = [r \in Requests |-> "new"]
        /\ fut = [r \in Requests |-> "none"]
        /\ flight = [f \in Flushers |-> <<>>]

-----------------------------------------------------------------------------
(* submit                                                                     *)

QueueFull == Len(queue) >= MaxQueueSize

Reject(r) ==
    /\ pc[r] = "new" /\ lock = {}
    /\ QueueFull
    /\ pc' = [pc EXCEPT ![r] = "done"]
    /\ fut' = [fut EXCEPT ![r] = "rejected"]
    /\ UNCHANGED <<queue, lock, spawned, flight, phase>>

\* `if priority and not self.config.enable_priority`
SkipsBatching(r) == r \in Urgent /\ ~EnablePriority

\* The processor is awaited with the lock held: no submit, no flush meanwhile.
BeginDirect(r) ==
    /\ pc[r] = "new" /\ lock = {}
    /\ ~QueueFull
    /\ SkipsBatching(r)
    /\ lock' = {r}
    /\ pc' = [pc EXCEPT ![r] = "direct"]
    /\ UNCHANGED <<queue, fut, spawned, flight, phase>>

EndDirect(r) ==
    /\ pc[r] = "direct"
    /\ lock' = lock \ {r}
    /\ pc' = [pc EXCEPT ![r] = "done"]
    /\ \E o \in {"result", "error", "cancelled"} : fut' = [fut EXCEPT ![r] = o]
    /\ UNCHANGED <<queue, spawned, flight, phase>>

BatchFull(q) == Len(q) >= BatchSize

\* Queued; a flush task is created if that makes the batch full.
Enqueue(r) ==
    /\ pc[r] = "new" /\ lock = {}
    /\ ~QueueFull
    /\ ~SkipsBatching(r)
    /\ queue' = Append(queue, r)
    /\ pc' = [pc EXCEPT ![r] = "waiting"]
    /\ fut' = [fut EXCEPT ![r] = "pending"]
    /\ spawned' = IF BatchFull(queue') THEN spawned \cup {r} ELSE spawned
    /\ UNCHANGED <<lock, flight, phase>>

\* The caller is cancelled; its future is cancelled with it, its item stays.
Cancel(r) ==
    /\ pc[r] = "waiting" /\ fut[r] = "pending"
    /\ fut' = [fut EXCEPT ![r] = "cancelled"]
    /\ UNCHANGED <<queue, lock, pc, spawned, flight, phase>>

\* The caller runs again, with what its future holds.
Wake(r) ==
    /\ pc[r] = "waiting" /\ fut[r] # "pending"
    /\ pc' = [pc EXCEPT ![r] = "done"]
    /\ UNCHANGED <<queue, lock, fut, spawned, flight, phase>>

-----------------------------------------------------------------------------
(* flush                                                                      *)

\* A bug: the queue is cleared after the processor answered, not before.
TakeQueue_NotCleared(f) ==
    /\ lock = {}
    /\ flight[f] = <<>>
    /\ flight' = [flight EXCEPT ![f] = queue]
    /\ UNCHANGED <<queue, lock, pc, fut>>
\* The whole queue is handed to the processor as f's batch; an empty one is left
\* alone.
TakeQueue(f) ==
    /\ lock = {}
    /\ flight[f] = <<>>
    /\ flight' = [flight EXCEPT ![f] = queue]
    /\ queue' = <<>>
    /\ UNCHANGED <<lock, pc, fut>>

\* The loop wakes up from its sleep.
LoopFlush ==
    /\ phase = "up" /\ queue # <<>>
    /\ TakeQueue(Loop)
    /\ UNCHANGED <<spawned, phase>>

SpawnedFlush(r) ==
    /\ r \in spawned
    /\ TakeQueue(r)
    /\ spawned' = spawned \ {r}
    /\ UNCHANGED phase

\* The futures of a batch that are still pending get an outcome each.
Resolve(batch, outcome) ==
    fut' = [r \in Requests |-> IF r \in ToSet(batch) /\ fut[r] = "pending"
                               THEN outcome ELSE fut[r]]

\* A bug: an exception of the processor is logged and nothing else.
Processed_SilentError(f) ==
    /\ flight[f] # <<>>
    /\ Resolve(flight[f], "result") \/ UNCHANGED fut
    /\ flight' = [flight EXCEPT ![f] = <<>>]
    /\ phase' = IF f = Stopper THEN "stopped" ELSE phase
    /\ UNCHANGED <<queue, lock, pc, spawned>>
\* The processor returns one result per payload, or raises for the whole batch.
Processed(f) ==
    /\ flight[f] # <<>>
    /\ \E o \in {"result", "error"} : Resolve(flight[f], o)
    /\ flight' = [flight EXCEPT ![f] = <<>>]
    /\ phase' = IF f = Stopper THEN "stopped" ELSE phase
    /\ UNCHANGED <<queue, lock, pc, spawned>>

-----------------------------------------------------------------------------
(* stop                                                                       *)

BeginStop ==
    /\ phase = "up"
    /\ phase' = "stopping"
    /\ UNCHANGED <<queue, lock, pc, fut, spawned, flight>>

\* CancelledError ends the loop, also where it awaits the processor: `except
\* Exception` lets it through, and the futures of that batch are forgotten.
LoopEnds ==
    /\ phase = "stopping"
    /\ phase' = "flushing"
    /\ flight' = [flight EXCEPT ![Loop] = <<>>]
    /\ UNCHANGED <<queue, lock, pc, fut, spawned>>

FinalFlush ==
    /\ phase = "flushing"
    /\ TakeQueue(Stopper)
    /\ phase' = IF queue = <<>> THEN "stopped" ELSE "lastBatch"
    /\ UNCHANGED spawned

-----------------------------------------------------------------------------
Submit(r) == Reject(r) \/ BeginDirect(r) \/ Enqueue(r)
Stop == BeginStop \/ LoopEnds \/ FinalFlush

Serve == \/ \E r \in Requests : \/ Submit(r) \/ EndDirect(r) \/ Cancel(r) \/ Wake(r)
                                \/ SpawnedFlush(r)
         \/ LoopFlush
         \/ \E f \in Flushers : Processed(f)

Next == Serve \/ Stop

(* The processor answers, the loop keeps waking up, created tasks and woken   *)
(* callers run.  _lock serves its waiters in order; each request takes it     *)
(* once, so weak fairness is enough for them to get it.                       *)
Fairness ==
    /\ WF_vars(LoopFlush)
    /\ \A r \in Requests : /\ WF_vars(EndDirect(r)) /\ WF_vars(Wake(r))
                           /\ WF_vars(SpawnedFlush(r))
    /\ \A f \in Flushers : WF_vars(Processed(f))
    /\ WF_vars(LoopEnds) /\ WF_vars(FinalFlush)

Spec == Init /\ [][Next]_vars
FairSpec == Spec /\ Fairness
-----------------------------------------------------------------------------
\* Every variable keeps its type, and the queue its limit.
TypeOK ==
    /\ queue \in Seq(Requests)
    /\ Len(queue) <= MaxQueueSize
    /\ lock \subseteq Requests
    /\ pc \in [Requests -> {"new", "direct", "waiting", "done"}]
    /\ fut \in [Requests -> Outcome \cup {"none", "pending"}]
    /\ spawned \subseteq Requests
    /\ flight \in [Flushers -> Seq(Requests)]
    /\ phase \in {"up", "stopping", "flushing", "lastBatch", "stopped"}

InFlight(r) == \E f \in Flushers : r \in ToSet(flight[f])

\* No request reaches the processor twice, however flushes overlap: it is in the
\* queue once, or in one batch once, and there only after it was queued.
ProcessedOnce ==
    /\ IsInjective(queue)
    /\ \A f \in Flushers : IsInjective(flight[f]) /\ ToSet(flight[f]) \cap ToSet(queue) = {}
    /\ \A f, g \in Flushers : f # g => ToSet(flight[f]) \cap ToSet(flight[g]) = {}
    /\ \A r \in ToSet(queue) : fut[r] # "none"

\* Until stop is called, nobody awaits a future that nobody will resolve: a
\* pending request is queued or in a batch.
NothingForgotten ==
    phase = "up" => \A r \in Requests :
        fut[r] = "pending" => r \in ToSet(queue) \/ InFlight(r)

\* A full batch does not wait for the loop's timeout: while the queue holds
\* batch_size requests or more, a flush task is on its way.
FullBatchHasFlush == Len(queue) >= BatchSize => spawned # {}

(* What holds between any two steps, however flushes overlap: the variables   *)
(* are well typed, no request is twice on its way to the processor, and a     *)
(* full batch has its flush.                                                  *)
Consistent == TypeOK /\ ProcessedOnce /\ FullBatchHasFlush

\* Every request is answered, unless somebody stops the batcher: also one that
\* arrives while other flushes are in the processor or a direct call has the lock.
EverySubmitEnds ==
    \A r \in Requests : pc[r] \in {"direct", "waiting"} ~> pc[r] = "done" \/ phase # "up"
=============================================================================

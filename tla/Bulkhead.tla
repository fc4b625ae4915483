------------------------------ MODULE Bulkhead ------------------------------
(* Bulkhead of core_engine/resilience/__init__.py: acquire and release around *)
(* an asyncio.Semaphore, with the queue limit the bulkhead adds.  The         *)
(* semaphore is CPython's (3.11, the Dockerfile's), modelled from how the     *)
(* bulkhead uses it: a release that hands a permit to a waiter takes it out   *)
(* of _value at once, and the waiter runs later.  In between it may be        *)
(* cancelled, and other tasks may enter.                                      *)
EXTENDS Integers, Sequences, FiniteSets, SequencesExt

CONSTANTS
    Tasks,          \* the asyncio tasks that use the bulkhead
    MaxConcurrent,  \* max_concurrent
    MaxQueue        \* max_queue_size; Cardinality(Tasks) or more is "no limit"

ASSUME BulkheadAssumption ==
    IsFiniteSet(Tasks) /\ MaxConcurrent \in Nat \ {0} /\ MaxQueue \in Nat

VARIABLES
    value,    \* _semaphore._value
    waiters,  \* _semaphore._waiters: the tasks blocked in its acquire, in order
    fut,      \* fut[t]: the future a waiter awaits, and whether t is being cancelled
    pc,       \* pc[t]: "out", "fast" or "queued" (blocked, by the branch that
              \*        called the semaphore), "in" (holds a slot)
    current,  \* _current
    waiting   \* _waiting

vars == <<value, waiters, fut, pc, current, waiting>>

FutureState == {"none", "pending", "handed", "cancelled", "handedCancelled"}
Blocked == {t \in Tasks : pc[t] \in {"fast", "queued"}}
Holders == {t \in Tasks : pc[t] = "in"}
\* Waiters that own a permit they have not run to collect.
Handed == {t \in Tasks : fut[t] \in {"handed", "handedCancelled"}}
Pending == {t \in Tasks : fut[t] = "pending"}

Init == /\ value = MaxConcurrent
        /\ waiters = <<>>
        /\ fut = [t \in Tasks |-> "none"]
        /\ pc = [t \in Tasks |-> "out"]
        /\ current = 0
        /\ waiting = 0

-----------------------------------------------------------------------------
(* The semaphore.                                                             *)

Locked == value = 0 \/ \E t \in ToSet(waiters) : fut[t] # "cancelled"

\* deque.remove, for a sequence that holds t
Without(ws, t) == RemoveAt(ws, CHOOSE i \in 1..Len(ws) : ws[i] = t)

\* A bug: the waiters are served from the wrong end.
FirstPending_Newest(ws, f) ==
    {ws[i] : i \in {k \in 1..Len(ws) : /\ f[ws[k]] = "pending"
                                      /\ \A j \in (k + 1)..Len(ws) : f[ws[j]] # "pending"}}
\* The first waiter whose future is not done: a set of at most one task.
FirstPending(ws, f) ==
    {ws[i] : i \in {k \in 1..Len(ws) : /\ f[ws[k]] = "pending"
                                      /\ \A j \in 1..(k - 1) : f[ws[j]] # "pending"}}

\* _wake_up_next, called with _value = v, _waiters = ws and futures f
WakeUpNext(v, ws, f) ==
    LET next == FirstPending(ws, f) IN
    /\ value' = IF next = {} THEN v ELSE v - 1
    /\ fut' = [t \in Tasks |-> IF t \in next THEN "handed" ELSE f[t]]

-----------------------------------------------------------------------------
(* Bulkhead.acquire.                                                          *)

\* The permit is granted without suspending.
EnterNow(t) ==
    /\ pc[t] = "out"
    /\ ~Locked
    /\ value' = value - 1
    /\ pc' = [pc EXCEPT ![t] = "in"]
    /\ current' = current + 1
    /\ UNCHANGED <<waiters, fut, waiting>>

\* semaphore.acquire suspends the caller.
Block(t, branch) ==
    /\ pc' = [pc EXCEPT ![t] = branch]
    /\ waiters' = Append(waiters, t)
    /\ fut' = [fut EXCEPT ![t] = "pending"]
    /\ UNCHANGED <<value, current>>

\* _value > 0, yet the semaphore makes the caller wait behind the waiters that
\* were handed a permit and have not run; the queue limit is not consulted.
EnterFast(t) ==
    /\ pc[t] = "out"
    /\ value > 0 /\ Locked
    /\ Block(t, "fast")
    /\ UNCHANGED waiting

HasQueueRoom == waiting < MaxQueue

EnterQueue(t) ==
    /\ pc[t] = "out"
    /\ value = 0 /\ HasQueueRoom
    /\ Block(t, "queued")
    /\ waiting' = waiting + 1

\* acquire returns False.
Reject(t) == pc[t] = "out" /\ value = 0 /\ ~HasQueueRoom /\ UNCHANGED vars

\* The `finally` of the waiting branch.
LeaveQueue(t) == waiting' = IF pc[t] = "queued" THEN waiting - 1 ELSE waiting

\* The waiter runs with its permit, and passes a spare one on.
Resume_KeepsSpare(t) ==
    /\ fut[t] = "handed"
    /\ waiters' = Without(waiters, t)
    /\ fut' = [fut EXCEPT ![t] = "none"]
    /\ pc' = [pc EXCEPT ![t] = "in"]
    /\ current' = current + 1
    /\ LeaveQueue(t)
    /\ UNCHANGED value
Resume(t) ==
    LET ws == Without(waiters, t)
        f == [fut EXCEPT ![t] = "none"]
    IN /\ fut[t] = "handed"
       /\ waiters' = ws
       /\ IF value > 0 THEN WakeUpNext(value, ws, f) ELSE fut' = f /\ UNCHANGED value
       /\ pc' = [pc EXCEPT ![t] = "in"]
       /\ current' = current + 1
       /\ LeaveQueue(t)

\* task.cancel() of a blocked task.  Its future is cancelled, unless a permit
\* was handed to it; then only the task learns of it, when it runs.
Cancel(t) ==
    /\ fut[t] \in {"pending", "handed"}
    /\ fut' = [fut EXCEPT ![t] = IF @ = "pending" THEN "cancelled" ELSE "handedCancelled"]
    /\ UNCHANGED <<value, waiters, pc, current, waiting>>

\* A bug: the cancelled waiter forgets the permit it was handed.
ResumeCancelled_DropsPermit(t) ==
    /\ fut[t] \in {"cancelled", "handedCancelled"}
    /\ waiters' = Without(waiters, t)
    /\ fut' = [fut EXCEPT ![t] = "none"]
    /\ pc' = [pc EXCEPT ![t] = "out"]
    /\ LeaveQueue(t)
    /\ UNCHANGED <<value, current>>
\* The cancelled waiter runs: CancelledError leaves both acquires, and a permit
\* it was handed goes back or to the next waiter.
ResumeCancelled(t) ==
    LET ws == Without(waiters, t)
        f == [fut EXCEPT ![t] = "none"]
    IN /\ fut[t] \in {"cancelled", "handedCancelled"}
       /\ waiters' = ws
       /\ IF fut[t] = "handedCancelled" THEN WakeUpNext(value + 1, ws, f)
                                        ELSE fut' = f /\ UNCHANGED value
       /\ pc' = [pc EXCEPT ![t] = "out"]
       /\ LeaveQueue(t)
       /\ UNCHANGED current

\* Bulkhead.release, on every way out of the section (__aexit__, finally)
Exit(t) ==
    /\ pc[t] = "in"
    /\ pc' = [pc EXCEPT ![t] = "out"]
    /\ current' = current - 1
    /\ WakeUpNext(value + 1, waiters, fut)
    /\ UNCHANGED <<waiters, waiting>>

Run(t) == Resume(t) \/ ResumeCancelled(t)

Next == \E t \in Tasks :
    \/ EnterNow(t) \/ EnterFast(t) \/ EnterQueue(t) \/ Reject(t)
    \/ Run(t) \/ Cancel(t) \/ Exit(t)

\* The event loop runs every task that is ready, and sections end.
Fairness == \A t \in Tasks : WF_vars(Run(t)) /\ WF_vars(Exit(t))

Spec == Init /\ [][Next]_vars
FairSpec == Spec /\ Fairness
-----------------------------------------------------------------------------
\* Every variable keeps its type; in particular no more than MaxConcurrent tasks
\* are counted in the section.
TypeOK ==
    /\ value \in 0..MaxConcurrent
    /\ waiters \in Seq(Tasks)
    /\ fut \in [Tasks -> FutureState]
    /\ pc \in [Tasks -> {"out", "fast", "queued", "in"}]
    /\ current \in 0..MaxConcurrent
    /\ waiting \in 0..Cardinality(Tasks)

\* No permit is lost or made up, however releases, hand-overs and cancellations
\* interleave: each is in _value, with a holder, or on its way to a waiter.
PermitConservation ==
    value + Cardinality(Holders) + Cardinality(Handed) = MaxConcurrent

\* What stats() reports and the queue limit reads is the truth, also after
\* cancellations: _current counts the holders, _waiting the queued callers.
CountersExact ==
    /\ current = Cardinality(Holders)
    /\ waiting = Cardinality({t \in Tasks : pc[t] = "queued"})

\* The waiters are exactly the blocked tasks, each once.
WaitersAreBlocked ==
    /\ ToSet(waiters) = Blocked
    /\ Len(waiters) = Cardinality(Blocked)
    /\ \A t \in Tasks : t \in Blocked <=> fut[t] # "none"

\* A permit lies free while a task waits for one only if some waiter that was
\* handed a permit has yet to run, and will pass the free one on.
NoStrandedWaiter == value > 0 /\ Pending # {} => Handed # {}

\* The queue limit holds for the callers that go through the waiting branch.
QueueBounded == waiting <= MaxQueue

(* What holds between any two steps, however releases, hand-overs and         *)
(* cancellations interleave: the variables are well typed, each permit is     *)
(* somewhere, the counters tell the truth, the line holds the blocked tasks,  *)
(* the queue its limit, and no waiter is stranded beside a free permit.       *)
Consistent ==
    /\ TypeOK /\ PermitConservation /\ CountersExact
    /\ WaitersAreBlocked /\ NoStrandedWaiter /\ QueueBounded

\* First come, first served: a permit goes to a waiter only if nobody who still
\* waits came before it, and to a newcomer only if nobody waits at all.
NoOvertaking ==
    [][\A t \in Tasks :
         /\ pc[t] = "out" /\ pc'[t] = "in" => Pending = {}
         /\ fut[t] = "pending" /\ fut'[t] = "handed" =>
              \A i, j \in 1..Len(waiters) :
                waiters[j] = t /\ fut[waiters[i]] = "pending" => i >= j]_vars

\* Every blocked caller gets its slot, or was cancelled, as long as holders
\* leave: no interleaving of cancellations and releases loses a wake-up.
EveryWaiterServed == \A t \in Tasks : pc[t] \in {"fast", "queued"} ~> pc[t] \in {"in", "out"}

\* With max_queue_size = 0 no caller ever waits: acquire never suspends.
ZeroQueueNeverBlocks == MaxQueue = 0 => waiters = <<>>

=============================================================================

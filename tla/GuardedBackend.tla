--------------------------- MODULE GuardedBackend ---------------------------
(* create_guarded_backend of core_engine/resilience/__init__.py: a backend    *)
(* call behind a circuit breaker, a bulkhead with no queue and a timeout,     *)
(* followed by the strategies of a FallbackChain.                             *)
(*                                                                            *)
(* A bulkhead with max_queue_size = 0 never makes a caller wait (theorem      *)
(* ZeroQueue of Bulkhead_proofs), so entering the guarded function up to the  *)
(* backend call is one step: breaker check, slot, deadline.                   *)
EXTENDS Breaker, FiniteSets

CONSTANTS
    Callers,        \* the asyncio tasks
    MaxConcurrent,  \* bulkhead_max
    Timeout,        \* timeout_seconds, in clock ticks
    Strategies      \* 1 is the guarded backend, 2..Strategies the fallbacks

ASSUME GuardedAssumption ==
    /\ IsFiniteSet(Callers)
    /\ MaxConcurrent \in Nat \ {0} /\ Timeout \in Nat \ {0} /\ Strategies \in Nat \ {0}

VARIABLES
    breaker,   \* the registered breaker, shared with the middleware
    slots,     \* free permits of the bulkhead's semaphore
    at,        \* at[c]: the strategy c awaits, 0 when c is not in a call
    elapsed,   \* elapsed[c]: time since the backend call of c began
    attempts   \* FallbackChain._attempts, one list shared by all calls

vars == <<breaker, slots, at, elapsed, attempts>>

Init == /\ breaker = NewBreaker
        /\ slots = MaxConcurrent
        /\ at = [c \in Callers |-> 0]
        /\ elapsed = [c \in Callers |-> 0]
        /\ attempts = <<>>

Guarded == {c \in Callers : at[c] = 1}

\* Without fallbacks there is no chain and no list of attempts.
ResetAttempts == attempts' = <<>>
NoteAttempt(idx) == attempts' = IF Strategies = 1 THEN attempts ELSE Append(attempts, idx)

\* The strategy at k raised: the next one is tried, or the caller gets the error.
AfterFailure(k) == IF k < Strategies THEN k + 1 ELSE 0

\* Circuit open: RuntimeError before the wrapped function is called.
CircuitRejects(c) ==
    /\ at[c] = 0
    /\ ~CanExecute(breaker)
    /\ at' = [at EXCEPT ![c] = AfterFailure(1)]
    /\ ResetAttempts
    /\ UNCHANGED <<breaker, slots, elapsed>>

\* Bulkhead full: RuntimeError inside the wrapped function, which the middleware
\* records as a failure of the backend.
BulkheadRejects(c) ==
    /\ at[c] = 0
    /\ CanExecute(breaker)
    /\ slots = 0
    /\ breaker' = RecordFailure(Admitted(breaker))
    /\ at' = [at EXCEPT ![c] = AfterFailure(1)]
    /\ ResetAttempts
    /\ UNCHANGED <<slots, elapsed>>

\* A bug: the slot is taken first, and the breaker asked only for its transition.
CallBackend_Unchecked(c) ==
    /\ at[c] = 0
    /\ slots > 0
    /\ breaker' = Admitted(breaker)
    /\ slots' = slots - 1
    /\ at' = [at EXCEPT ![c] = 1]
    /\ elapsed' = [elapsed EXCEPT ![c] = 0]
    /\ ResetAttempts
\* A bug: the bulkhead is entered without looking for a free slot.
CallBackend_Overfull(c) ==
    /\ at[c] = 0
    /\ CanExecute(breaker)
    /\ breaker' = Admitted(breaker)
    /\ slots' = slots - 1
    /\ at' = [at EXCEPT ![c] = 1]
    /\ elapsed' = [elapsed EXCEPT ![c] = 0]
    /\ ResetAttempts
\* wait_for runs the backend in a task of its own, so the caller suspends.
CallBackend(c) ==
    /\ at[c] = 0
    /\ CanExecute(breaker)
    /\ slots > 0
    /\ breaker' = Admitted(breaker)
    /\ slots' = slots - 1
    /\ at' = [at EXCEPT ![c] = 1]
    /\ elapsed' = [elapsed EXCEPT ![c] = 0]
    /\ ResetAttempts

\* A bug: only a successful call gives its slot back.
Leave_OnlyFirst(c, k) == /\ at[c] = 1
                         /\ slots' = IF k = 0 THEN slots + 1 ELSE slots
                         /\ at' = [at EXCEPT ![c] = k]
\* The guarded function ends, releasing its slot; the call goes on at k.
Leave(c, k) == /\ at[c] = 1
               /\ slots' = slots + 1
               /\ at' = [at EXCEPT ![c] = k]

BackendSucceeds(c) ==
    /\ Leave(c, 0)
    /\ breaker' = RecordSuccess(breaker)
    /\ NoteAttempt(1)
    /\ UNCHANGED elapsed

BackendFails(c) ==
    /\ Leave(c, AfterFailure(1))
    /\ breaker' = RecordFailure(breaker)
    /\ UNCHANGED <<elapsed, attempts>>

\* A bug: the backend call has no timeout.
TimesOut_Never(c) == FALSE
\* asyncio.wait_for gives up on the backend.
TimesOut(c) ==
    /\ elapsed[c] = Timeout
    /\ Leave(c, AfterFailure(1))
    /\ breaker' = RecordFailure(breaker)
    /\ UNCHANGED <<elapsed, attempts>>

\* The caller is cancelled: the slot is released, the breaker hears nothing.
BackendCancelled(c) ==
    Leave(c, 0) /\ UNCHANGED <<breaker, elapsed, attempts>>

\* The fallbacks are bare functions: no breaker, no slot, no timeout.
FallbackSucceeds(c) ==
    /\ at[c] > 1
    /\ at' = [at EXCEPT ![c] = 0]
    /\ NoteAttempt(at[c])
    /\ UNCHANGED <<breaker, slots, elapsed>>

FallbackFails(c) ==
    /\ at[c] > 1
    /\ at' = [at EXCEPT ![c] = AfterFailure(at[c])]
    /\ UNCHANGED <<breaker, slots, elapsed, attempts>>

FallbackCancelled(c) ==
    /\ at[c] > 1
    /\ at' = [at EXCEPT ![c] = 0]
    /\ UNCHANGED <<breaker, slots, elapsed, attempts>>

Tick == /\ breaker' = Aged(breaker)
        /\ elapsed' = [c \in Callers |->
                         IF at[c] = 1 /\ elapsed[c] < Timeout THEN elapsed[c] + 1
                                                              ELSE elapsed[c]]
        /\ UNCHANGED <<slots, at, attempts>>

Start(c) == CircuitRejects(c) \/ BulkheadRejects(c) \/ CallBackend(c)
BackendAnswers(c) == BackendSucceeds(c) \/ BackendFails(c)
FallbackAnswers(c) == FallbackSucceeds(c) \/ FallbackFails(c)
Cancelled(c) == BackendCancelled(c) \/ FallbackCancelled(c)

Next == \/ Tick
        \/ \E c \in Callers : \/ Start(c) \/ BackendAnswers(c) \/ TimesOut(c)
                              \/ FallbackAnswers(c) \/ Cancelled(c)

(* Clock and timers run.  A backend owes nobody an answer, a fallback has no  *)
(* timer and must answer by itself.                                           *)
Fairness == /\ WF_vars(Tick)
            /\ \A c \in Callers : WF_vars(TimesOut(c)) /\ WF_vars(FallbackAnswers(c))

Spec == Init /\ [][Next]_vars
FairSpec == Spec /\ Fairness
\* The load of a service in use: callers keep calling.
BusySpec == FairSpec /\ \A c \in Callers : WF_vars(Start(c))
-----------------------------------------------------------------------------
\* Every variable keeps its type; in particular no slot is taken from an empty bulkhead.
TypeOK ==
    /\ breaker \in BreakerType
    /\ slots \in 0..MaxConcurrent
    /\ at \in [Callers -> 0..Strategies]
    /\ elapsed \in [Callers -> 0..Timeout]
    /\ attempts \in Seq(1..Strategies)

\* Every slot is free or with a caller that awaits the backend: no outcome,
\* timeout or cancellation leaks one, and no caller holds one in a fallback.
SlotsConserved == slots + Cardinality(Guarded) = MaxConcurrent

(* What holds between any two steps: the variables are well typed, and every  *)
(* slot is free or with a caller that awaits the backend.                     *)
Consistent == TypeOK /\ SlotsConserved

\* Seen from its breaker, the guarded backend is a middleware whose function
\* may also fail at once: every step is one of CircuitBreaker's, and the breaker
\* is told the outcome of exactly the calls it admitted.
CB == INSTANCE CircuitBreaker WITH
        call <- [c \in Callers |-> IF at[c] = 1 THEN "running" ELSE "idle"]
ImplementsBreaker == CB!Spec

\* Seen from its slots, it is a bulkhead that never queues.
BH == INSTANCE Bulkhead WITH
        Tasks <- Callers, MaxQueue <- 0,
        value <- slots, waiters <- <<>>, fut <- [c \in Callers |-> "none"],
        pc <- [c \in Callers |-> IF at[c] = 1 THEN "in" ELSE "out"],
        current <- MaxConcurrent - slots, waiting <- 0
ImplementsBulkhead == BH!Spec

\* A caller is never stuck, even with a backend that never answers: the timeout
\* ends the guarded call and frees its slot, and the chain moves on.
EveryCallEnds == \A c \in Callers : at[c] # 0 ~> at[c] = 0

\* Once the backend answers in time, every so often to a caller that is not
\* cancelled, and the bulkhead turns nobody away, the circuit closes for good.
\* A caller the full bulkhead rejects counts as a failed test and reopens it.
HealthyBackendRecovers ==
    /\ <>[][~ \E c \in Callers : BackendFails(c) \/ TimesOut(c) \/ BulkheadRejects(c)]_vars
    /\ []<><<\E c \in Callers : BackendSucceeds(c)>>_vars
    => <>[](breaker.state = "CLOSED")
=============================================================================

--------------------------- MODULE CircuitBreaker ---------------------------
(* CircuitBreakerMiddleware of core_engine/resilience/__init__.py: tasks call *)
(* one wrapped coroutine function.  The wrapper suspends only in              *)
(* `await func(...)`: can_execute and the record_* call that follows are run  *)
(* at different times, and the circuit may change in between.                 *)
EXTENDS Breaker

CONSTANT Callers  \* the asyncio tasks

VARIABLES breaker,  \* self.breaker
          call      \* call[c]: "running" while c awaits the wrapped function

vars == <<breaker, call>>

Init == breaker = NewBreaker /\ call = [c \in Callers |-> "idle"]

\* can_execute() is true and the wrapped function suspends.
Admit(c) ==
    /\ call[c] = "idle"
    /\ CanExecute(breaker)
    /\ breaker' = Admitted(breaker)
    /\ call' = [call EXCEPT ![c] = "running"]

\* can_execute() is true and the wrapped function returns, or raises, without
\* suspending: the whole wrapper is one step.
CallSucceeds(c) ==
    /\ call[c] = "idle"
    /\ CanExecute(breaker)
    /\ breaker' = RecordSuccess(Admitted(breaker))
    /\ UNCHANGED call

CallFails(c) ==
    /\ call[c] = "idle"
    /\ CanExecute(breaker)
    /\ breaker' = RecordFailure(Admitted(breaker))
    /\ UNCHANGED call

\* can_execute() is false: RuntimeError, nothing is recorded.
Reject(c) ==
    /\ call[c] = "idle"
    /\ ~CanExecute(breaker)
    /\ UNCHANGED vars

Return(c) ==
    /\ call[c] = "running"
    /\ call' = [call EXCEPT ![c] = "idle"]

Succeed(c) == Return(c) /\ breaker' = RecordSuccess(breaker)

\* asyncio.TimeoutError, or an exception of config.expected_exception
Fail(c) == Return(c) /\ breaker' = RecordFailure(breaker)

\* A CancelledError, or an exception expected_exception leaves out, passes the
\* two except clauses: the call ends and the breaker hears nothing of it.
Escape(c) == Return(c) /\ UNCHANGED breaker

Tick == breaker' = Aged(breaker) /\ UNCHANGED call

Call(c) == Admit(c) \/ CallSucceeds(c) \/ CallFails(c)
Finish(c) == Succeed(c) \/ Fail(c) \/ Escape(c)

Next == \/ Tick
        \/ \E c \in Callers : Call(c) \/ Reject(c) \/ Finish(c)

(* Time passes, every admitted call ends, and callers keep calling.           *)
Fairness == /\ WF_vars(Tick)
            /\ \A c \in Callers : WF_vars(Finish(c)) /\ WF_vars(Call(c))

Spec == Init /\ [][Next]_vars
FairSpec == Spec /\ Fairness

-----------------------------------------------------------------------------
\* Every variable keeps its type, and the window never outgrows its maxlen.
TypeOK == /\ breaker \in BreakerType
          /\ Len(breaker.recent) <= WindowSize
          /\ call \in [Callers -> {"idle", "running"}]

\* A closed circuit is always below the threshold, whatever stragglers admitted
\* before an outage record after it: no caller gets through a circuit that
\* record_failure should have opened.
ClosedBelowThreshold ==
    breaker.state = "CLOSED" => breaker.consecutive < FailureThreshold

\* The counter and the window tell the same story: the newest `consecutive`
\* outcomes that the window still holds are failures.
CounterMatchesWindow ==
    \A i \in 1..Len(breaker.recent) :
        i > Len(breaker.recent) - breaker.consecutive => breaker.recent[i] = "failure"

\* The circuit is half-open only when no failure was recorded for a whole
\* recovery timeout: a straggler that fails during the pause restarts it.
HalfOpenIsQuiet ==
    breaker.state = "HALF_OPEN" => breaker.age = RecoveryTimeout

(* What holds between calls, whatever stragglers of an outage still record:   *)
(* the breaker is well typed, never closed on a run of failures that should   *)
(* have opened it, half-open only after a quiet recovery timeout, and its     *)
(* counter agrees with its window.                                            *)
Consistent == TypeOK /\ ClosedBelowThreshold /\ CounterMatchesWindow /\ HalfOpenIsQuiet

\* The circuit closes only by a success recorded when nothing failed for a whole
\* recovery timeout, and goes from OPEN to CLOSED only through a probe that was
\* admitted (here the probe that returned at once).
ClosesOnlyByProbe ==
    [][breaker.state # "CLOSED" /\ breaker'.state = "CLOSED"
         => /\ breaker.age = RecoveryTimeout
            /\ breaker'.recent[Len(breaker'.recent)] = "success"]_vars

\* From CLOSED the circuit opens only on a run of FailureThreshold failures,
\* with no success among them, however the calls of several tasks interleave.
TripsOnlyOnARun ==
    [][breaker.state = "CLOSED" /\ breaker'.state = "OPEN" =>
         \A i \in 1..Len(breaker'.recent) :
            i > Len(breaker'.recent) - FailureThreshold => breaker'.recent[i] = "failure"]_vars

\* The circuit moves for cause only: it opens on a run of failures and closes by
\* a probe after a quiet time, never by a straggler's late success or failure.
MovesForCause == ClosesOnlyByProbe /\ TripsOnlyOnARun

\* An open circuit does not reject for ever: it comes back to admitting calls,
\* whatever the stragglers of the outage still record.  And once the protected
\* service stops failing, and not every call of it is cancelled, the circuit
\* closes and stays closed.
Recovers ==
    /\ []<>CanExecute(breaker)
    /\ /\ <>[][~ \E c \in Callers : Fail(c) \/ CallFails(c)]_vars
       /\ []<><<\E c \in Callers : Succeed(c) \/ CallSucceeds(c)>>_vars
       => <>[](breaker.state = "CLOSED")
=============================================================================

------------------------------- MODULE Breaker -------------------------------
(* The breaker object of core_engine/resilience/__init__.py: the value a      *)
(* CircuitBreaker keeps and what each of its methods does to it.  The methods *)
(* never suspend, so each is one operator from breaker to breaker.            *)
EXTENDS Integers, Sequences

CONSTANTS
    FailureThreshold,  \* config.failure_threshold
    RecoveryTimeout,   \* config.recovery_timeout_seconds, in clock ticks
    WindowSize         \* config.window_size, the maxlen of _recent_calls

ASSUME BreakerAssumption ==
    /\ FailureThreshold \in Nat \ {0}
    /\ RecoveryTimeout \in Nat \ {0}
    /\ WindowSize \in Nat \ {0}

CircuitState == {"CLOSED", "OPEN", "HALF_OPEN"}

\* What _recent_calls says of a call: True is "success", False is "failure".
Outcome == {"success", "failure"}

\* _last_failure_time is None: no failure was ever recorded.
Never == -1

(* state       self.state                                                     *)
(* consecutive _consecutive_failures; it is only compared with the threshold  *)
(*             and reset to 0, so counting stops at the threshold             *)
(* recent      _recent_calls, the newest outcome last                         *)
(* age         now - _last_failure_time, counted up to RecoveryTimeout        *)
BreakerType == [state : CircuitState, consecutive : 0..FailureThreshold,
                recent : Seq(Outcome), age : Never..RecoveryTimeout]

NewBreaker == [state |-> "CLOSED", consecutive |-> 0, recent |-> <<>>, age |-> Never]

\* deque(maxlen=WindowSize).append
Remember(recent, outcome) ==
    Append(IF Len(recent) < WindowSize THEN recent ELSE Tail(recent), outcome)

\* A bug: a success is not allowed to reset the run of failures unless it closes the circuit.
RecordSuccess_KeepsCount(b) ==
    [b EXCEPT !.recent = Remember(@, "success"),
              !.state = IF @ = "HALF_OPEN" THEN "CLOSED" ELSE @,
              !.consecutive = IF b.state = "HALF_OPEN" THEN 0 ELSE @]
\* A bug: a success never closes a half-open circuit.
RecordSuccess_NeverCloses(b) ==
    [b EXCEPT !.consecutive = 0, !.recent = Remember(@, "success")]

\* record_success
RecordSuccess(b) ==
    [state |-> IF b.state = "HALF_OPEN" THEN "CLOSED" ELSE b.state,
     consecutive |-> 0,
     recent |-> Remember(b.recent, "success"),
     age |-> b.age]

\* One more consecutive failure.
Counted(b) == IF b.consecutive < FailureThreshold THEN b.consecutive + 1
                                                  ELSE FailureThreshold

\* A bug: the run of failures must exceed the threshold.
Trips_Late(b) == \/ b.state = "CLOSED" /\ b.consecutive >= FailureThreshold
                 \/ b.state = "HALF_OPEN"

\* The failure being recorded opens the circuit.
Trips(b) == \/ b.state = "CLOSED" /\ Counted(b) >= FailureThreshold
            \/ b.state = "HALF_OPEN"

\* record_failure, and record_timeout, which only calls it
RecordFailure(b) ==
    [state |-> IF Trips(b) THEN "OPEN" ELSE b.state,
     consecutive |-> Counted(b),
     recent |-> Remember(b.recent, "failure"),
     age |-> 0]

\* `_last_failure_time and now - _last_failure_time >= recovery_timeout_seconds`
Recovered(b) == b.age >= RecoveryTimeout

\* What can_execute returns.
CanExecute(b) == b.state = "OPEN" => Recovered(b)

\* What can_execute leaves behind when it returns True.
Admitted(b) == [b EXCEPT !.state = IF @ = "OPEN" THEN "HALF_OPEN" ELSE @]

\* One tick of time.time().
Aged(b) == [b EXCEPT !.age = IF @ \in 0..(RecoveryTimeout - 1) THEN @ + 1 ELSE @]
==============================================================================

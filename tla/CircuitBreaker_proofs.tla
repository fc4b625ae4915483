----------------------- MODULE CircuitBreaker_proofs -----------------------
(* For any number of tasks and every threshold, timeout and window: the       *)
(* safety properties of CircuitBreaker that the run `breaker` checks on one   *)
(* instance.  All of them follow from one invariant of the breaker, GoodBreaker, *)
(* that every method keeps whatever the state it is called in; the only fact  *)
(* the interleavings add is that can_execute was true where it transitioned.  *)
EXTENDS CircuitBreaker, SequenceTheorems, TLAPS

(* The inductive invariant.  TypeOK bounds the counter by the threshold, and  *)
(* the counter bounds from below the run of failures at the end of the window. *)
GoodBreaker(b) ==
    /\ b \in BreakerType
    /\ Len(b.recent) <= WindowSize
    /\ b.state = "CLOSED" => b.consecutive < FailureThreshold
    /\ b.state = "HALF_OPEN" => b.age = RecoveryTimeout
    /\ \A i \in 1..Len(b.recent) :
         i > Len(b.recent) - b.consecutive => b.recent[i] = "failure"

IInv == GoodBreaker(breaker) /\ call \in [Callers -> {"idle", "running"}]

(* The outcome goes to the end of the window, and what stays keeps its place  *)
(* counted from the end.                                                      *)
LEMMA RememberWindow ==
    ASSUME NEW recent \in Seq(Outcome), Len(recent) <= WindowSize, NEW o \in Outcome
    PROVE  LET r == Remember(recent, o) IN
           /\ r \in Seq(Outcome)
           /\ Len(r) \in 1..WindowSize
           /\ r[Len(r)] = o
           /\ \A i \in 1..(Len(r) - 1) :
                /\ i + (Len(recent) + 1 - Len(r)) \in 1..Len(recent)
                /\ r[i] = recent[i + (Len(recent) + 1 - Len(r))]
  <1> USE BreakerAssumption
  <1>1. CASE Len(recent) < WindowSize
    BY <1>1 DEF Remember
  <1>2. CASE ~(Len(recent) < WindowSize)
    <2>1. Len(recent) = WindowSize /\ recent # <<>>
      BY <1>2, EmptySeq
    <2>2. /\ Tail(recent) \in Seq(Outcome)
          /\ Len(Tail(recent)) = WindowSize - 1
          /\ \A i \in 1..(WindowSize - 1) : Tail(recent)[i] = recent[i + 1]
      BY <2>1, HeadTailProperties
    <2> QED BY <1>2, <2>1, <2>2 DEF Remember
  <1> QED BY <1>1, <1>2

LEMMA NewIsGood == GoodBreaker(NewBreaker)
  BY BreakerAssumption
  DEF GoodBreaker, NewBreaker, BreakerType, CircuitState, Never

LEMMA SuccessKeepsGood ==
    ASSUME NEW b, GoodBreaker(b)
    PROVE  GoodBreaker(RecordSuccess(b))
  <1> USE BreakerAssumption
  <1> DEFINE r == Remember(b.recent, "success")
             g == RecordSuccess(b)
             s == IF b.state = "HALF_OPEN" THEN "CLOSED" ELSE b.state
  <1>1. /\ b \in BreakerType /\ b.recent \in Seq(Outcome) /\ "success" \in Outcome
        /\ Len(b.recent) <= WindowSize
    BY DEF GoodBreaker, BreakerType, Outcome
  <1>2. r \in Seq(Outcome) /\ Len(r) \in 1..WindowSize
    BY <1>1, RememberWindow, Zenon
  <1>3. g = [state |-> s, consecutive |-> 0, recent |-> r, age |-> b.age]
    BY DEF RecordSuccess
  <1> HIDE DEF r, g
  <1>4. g \in BreakerType
    BY <1>1, <1>2, <1>3 DEF BreakerType, CircuitState
  <1>5. GoodBreaker(g)
    BY <1>1, <1>2, <1>3, <1>4 DEF GoodBreaker, BreakerType, CircuitState
  <1> QED BY <1>5 DEF g

LEMMA FailureKeepsGood ==
    ASSUME NEW b, GoodBreaker(b)
    PROVE  GoodBreaker(RecordFailure(b))
  <1> USE BreakerAssumption
  <1> DEFINE r == Remember(b.recent, "failure")
             n == Counted(b)
             g == RecordFailure(b)
             old == Len(b.recent)
             s == IF Trips(b) THEN "OPEN" ELSE b.state
  <1>1. /\ b \in BreakerType /\ b.recent \in Seq(Outcome) /\ "failure" \in Outcome
        /\ old <= WindowSize /\ b.consecutive \in 0..FailureThreshold
    BY DEF GoodBreaker, BreakerType, Outcome
  <1>2. /\ r \in Seq(Outcome) /\ Len(r) \in 1..WindowSize
        /\ r[Len(r)] = "failure"
        /\ \A i \in 1..(Len(r) - 1) :
             /\ i + (old + 1 - Len(r)) \in 1..old
             /\ r[i] = b.recent[i + (old + 1 - Len(r))]
    BY <1>1, RememberWindow, Zenon
  <1>3. n \in 1..FailureThreshold /\ n <= b.consecutive + 1
    BY <1>1 DEF Counted
  <1>4. g = [state |-> s, consecutive |-> n, recent |-> r, age |-> 0]
    BY DEF RecordFailure
  <1>5. /\ s \in CircuitState /\ s # "HALF_OPEN"
        /\ s = "CLOSED" => n < FailureThreshold
    BY <1>1, <1>3 DEF Trips, BreakerType, CircuitState
  <1>6. ASSUME NEW i \in 1..Len(r), i > Len(r) - n
        PROVE  r[i] = "failure"
    <2> HIDE DEF r, n, g, s
    <2>1. CASE i = Len(r)
      BY <2>1, <1>2
    <2>2. CASE i \in 1..(Len(r) - 1)
      <3>1. r[i] = b.recent[i + (old + 1 - Len(r))] /\ i + (old + 1 - Len(r)) \in 1..old
        BY <2>2, <1>2
      <3>2. i + (old + 1 - Len(r)) > old - b.consecutive
        BY <1>1, <1>2, <1>3, <1>6
      <3> QED BY <3>1, <3>2 DEF GoodBreaker
    <2> QED BY <2>1, <2>2, <1>2
  <1> HIDE DEF r, n, g, s
  <1>7. g \in BreakerType
    BY <1>2, <1>3, <1>4, <1>5 DEF BreakerType, Never
  <1>8. GoodBreaker(g)
    BY <1>2, <1>4, <1>5, <1>6, <1>7 DEF GoodBreaker
  <1> QED BY <1>8 DEF g

LEMMA AdmittedKeepsGood ==
    ASSUME NEW b, GoodBreaker(b), CanExecute(b)
    PROVE  GoodBreaker(Admitted(b))
  BY BreakerAssumption
  DEF GoodBreaker, CanExecute, Recovered, Admitted, BreakerType, CircuitState, Never

LEMMA AgedKeepsGood ==
    ASSUME NEW b, GoodBreaker(b)
    PROVE  GoodBreaker(Aged(b))
  BY BreakerAssumption DEF GoodBreaker, Aged, BreakerType, CircuitState, Never

LEMMA InitIInv == Init => IInv
  BY NewIsGood DEF Init, IInv

(* Every step, with what it leaves in the breaker.                            *)
LEMMA NextIInv == IInv /\ [Next]_vars => IInv'
  <1> SUFFICES ASSUME IInv, [Next]_vars
               PROVE  IInv'
    OBVIOUS
  <1> USE DEF IInv
  <1>1. CASE Tick
    BY <1>1, AgedKeepsGood DEF Tick
  <1>2. ASSUME NEW c \in Callers, Call(c)
        PROVE  IInv'
    <2>1. CanExecute(breaker) /\ GoodBreaker(Admitted(breaker))
      BY <1>2, AdmittedKeepsGood DEF Call, Admit, CallSucceeds, CallFails
    <2>2. CASE Admit(c)
      BY <2>1, <2>2 DEF Admit
    <2>3. CASE CallSucceeds(c)
      BY <2>1, <2>3, SuccessKeepsGood DEF CallSucceeds
    <2>4. CASE CallFails(c)
      BY <2>1, <2>4, FailureKeepsGood DEF CallFails
    <2> QED BY <1>2, <2>2, <2>3, <2>4 DEF Call
  <1>3. ASSUME NEW c \in Callers, Finish(c)
        PROVE  IInv'
    <2>1. CASE Succeed(c)
      BY <2>1, SuccessKeepsGood DEF Succeed, Return
    <2>2. CASE Fail(c)
      BY <2>2, FailureKeepsGood DEF Fail, Return
    <2>3. CASE Escape(c)
      BY <2>3 DEF Escape, Return
    <2> QED BY <1>3, <2>1, <2>2, <2>3 DEF Finish
  <1>4. CASE UNCHANGED vars
    BY <1>4 DEF vars
  <1> QED BY <1>1, <1>2, <1>3, <1>4 DEF Next, Reject

(* The invariant holds in every reachable state.                              *)
THEOREM Invariance == Spec => []IInv
  BY InitIInv, NextIInv, PTL DEF Spec

(* The breaker keeps its type and its window its bound.                       *)
THEOREM TypeCorrect == Spec => []TypeOK
  <1>1. IInv => TypeOK
    BY DEF IInv, GoodBreaker, TypeOK
  <1> QED BY <1>1, Invariance, PTL

(* record_failure and can_execute never leave the circuit closed on a run of  *)
(* failures that reaches the threshold.                                       *)
THEOREM ClosedIsBelow == Spec => []ClosedBelowThreshold
  <1>1. IInv => ClosedBelowThreshold
    BY DEF IInv, GoodBreaker, ClosedBelowThreshold
  <1> QED BY <1>1, Invariance, PTL

(* The counter and the window never disagree.                                 *)
THEOREM CounterAgrees == Spec => []CounterMatchesWindow
  <1>1. IInv => CounterMatchesWindow
    BY DEF IInv, GoodBreaker, CounterMatchesWindow
  <1> QED BY <1>1, Invariance, PTL

(* A half-open circuit had a whole recovery timeout without a failure.        *)
THEOREM HalfOpenAfterQuiet == Spec => []HalfOpenIsQuiet
  <1>1. IInv => HalfOpenIsQuiet
    BY DEF IInv, GoodBreaker, HalfOpenIsQuiet
  <1> QED BY <1>1, Invariance, PTL

(* The four hold together, whatever the tasks do and however many they are:   *)
(* the breaker is well typed, never closed at its threshold, half-open only   *)
(* after a quiet time, and its counter agrees with its window.                *)
THEOREM StaysConsistent == Spec => []Consistent
  BY TypeCorrect, ClosedIsBelow, CounterAgrees, HalfOpenAfterQuiet, PTL DEF Consistent

(* A success closes only a half-open circuit, and is the newest outcome.      *)
LEMMA SuccessCloses ==
    ASSUME NEW b, GoodBreaker(b), b.state # "CLOSED", RecordSuccess(b).state = "CLOSED"
    PROVE  /\ b.age = RecoveryTimeout
           /\ RecordSuccess(b).recent[Len(RecordSuccess(b).recent)] = "success"
  <1>1. b.recent \in Seq(Outcome) /\ "success" \in Outcome /\ Len(b.recent) <= WindowSize
    BY DEF GoodBreaker, BreakerType, Outcome
  <1>2. Remember(b.recent, "success")[Len(Remember(b.recent, "success"))] = "success"
    BY <1>1, RememberWindow, Zenon
  <1> QED BY <1>2 DEF RecordSuccess, GoodBreaker

(* The circuit closes only by a success after a quiet recovery timeout,       *)
(* whichever calls of whichever tasks are still under way.                    *)
THEOREM ClosesByProbe == Spec => ClosesOnlyByProbe
  <1> DEFINE Closes == breaker.state # "CLOSED" /\ breaker'.state = "CLOSED"
             Probed == /\ breaker.age = RecoveryTimeout
                       /\ breaker'.recent[Len(breaker'.recent)] = "success"
  <1>1. ASSUME IInv, [Next]_vars, Closes
        PROVE  Probed
    <2>1. CASE \E c \in Callers : CallSucceeds(c)
      <3>1. /\ CanExecute(breaker)
            /\ breaker' = RecordSuccess(Admitted(breaker))
        BY <2>1 DEF CallSucceeds
      <3>2. GoodBreaker(Admitted(breaker))
        BY <1>1, <3>1, AdmittedKeepsGood DEF IInv
      <3>3. Admitted(breaker).state # "CLOSED" /\ Admitted(breaker).age = breaker.age
        BY <1>1 DEF Admitted, IInv, GoodBreaker, BreakerType, CircuitState
      <3> QED BY <1>1, <3>1, <3>2, <3>3, SuccessCloses
    <2>2. CASE \E c \in Callers : Succeed(c)
      BY <1>1, <2>2, SuccessCloses DEF Succeed, IInv
    <2>3. CASE \E c \in Callers : Admit(c) \/ CallFails(c) \/ Fail(c)
      BY <1>1, <2>3 DEF Admit, CallFails, Fail, Admitted, RecordFailure, Trips,
                        IInv, GoodBreaker, BreakerType, CircuitState
    <2>4. CASE Tick
      BY <1>1, <2>4 DEF Tick, Aged, IInv, GoodBreaker, BreakerType
    <2>5. CASE UNCHANGED breaker
      BY <1>1, <2>5
    <2> QED BY <1>1, <2>1, <2>2, <2>3, <2>4, <2>5
            DEF Next, Call, Finish, Reject, Escape, vars
  <1>2. IInv /\ [Next]_vars => [Closes => Probed]_vars
    BY <1>1
  <1> QED BY <1>2, Invariance, PTL DEF Spec, ClosesOnlyByProbe

(* From CLOSED the circuit opens only when the newest FailureThreshold        *)
(* outcomes the window holds are failures.                                    *)
THEOREM TripsOnRun == Spec => TripsOnlyOnARun
  <1> DEFINE Opens == breaker.state = "CLOSED" /\ breaker'.state = "OPEN"
             Run == \A i \in 1..Len(breaker'.recent) :
                      i > Len(breaker'.recent) - FailureThreshold
                        => breaker'.recent[i] = "failure"
  <1>1. ASSUME IInv, [Next]_vars, Opens
        PROVE  Run
    <2>1. GoodBreaker(breaker)'
      BY <1>1, NextIInv DEF IInv
    <2>2. breaker'.consecutive = FailureThreshold
      <3>1. CASE \E c \in Callers : CallFails(c) \/ Fail(c)
        BY <1>1, <3>1, BreakerAssumption
        DEF CallFails, Fail, Admitted, RecordFailure, Trips, Counted,
            IInv, GoodBreaker, BreakerType, CircuitState
      <3>2. CASE \E c \in Callers : Admit(c) \/ CallSucceeds(c) \/ Succeed(c)
        BY <1>1, <3>2 DEF Admit, CallSucceeds, Succeed, Admitted, RecordSuccess,
                          IInv, GoodBreaker, BreakerType, CircuitState
      <3>3. CASE Tick
        BY <1>1, <3>3 DEF Tick, Aged, IInv, GoodBreaker, BreakerType
      <3>4. CASE UNCHANGED breaker
        BY <1>1, <3>4
      <3> QED BY <1>1, <3>1, <3>2, <3>3, <3>4
              DEF Next, Call, Finish, Reject, Escape, vars
    <2> QED BY <2>1, <2>2 DEF GoodBreaker
  <1>2. IInv /\ [Next]_vars => [Opens => Run]_vars
    BY <1>1
  <1> QED BY <1>2, Invariance, PTL DEF Spec, TripsOnlyOnARun

(* The circuit opens and closes for cause only.                               *)
THEOREM MovesAreForCause == Spec => MovesForCause
  BY ClosesByProbe, TripsOnRun, PTL DEF MovesForCause
============================================================================

----------------------- MODULE GuardedBackend_proofs -----------------------
(* For any finite set of callers and every limit: create_guarded_backend      *)
(* conserves its slots, and is a CircuitBreakerMiddleware as seen from its    *)
(* breaker and a Bulkhead without a queue as seen from its slots.  So what is *)
(* proved of those two holds for every guarded backend.                       *)
EXTENDS GuardedBackend, FiniteSetTheorems, TLAPS

(* Every slot is free or with a caller that awaits the backend.               *)
IInv == /\ slots \in Nat
        /\ at \in [Callers -> 0..Strategies]
        /\ SlotsConserved

LEMMA Counting ==
    /\ \A S \in SUBSET Callers : Cardinality(S) \in Nat
    /\ \A S \in SUBSET Callers, c \in Callers :
         /\ c \notin S => Cardinality(S \cup {c}) = Cardinality(S) + 1
         /\ c \in S => Cardinality(S \ {c}) = Cardinality(S) - 1
  <1>1. \A S \in SUBSET Callers : IsFiniteSet(S)
    BY FS_Subset, GuardedAssumption
  <1>2. \A S \in SUBSET Callers : Cardinality(S) \in Nat
    BY <1>1, FS_CardinalityType
  <1>3. \A S \in SUBSET Callers, c \in Callers :
          c \notin S => Cardinality(S \cup {c}) = Cardinality(S) + 1
    BY <1>1, FS_AddElement
  <1>4. \A S \in SUBSET Callers, c \in Callers :
          c \in S => Cardinality(S \ {c}) = Cardinality(S) - 1
    BY <1>1, FS_RemoveElement
  <1> QED BY <1>2, <1>3, <1>4

LEMMA AfterFailureType ==
    \A k \in 1..Strategies : AfterFailure(k) \in (0..Strategies) \ {1}
  BY GuardedAssumption DEF AfterFailure

LEMMA InitIInv == Init => IInv
  <1> SUFFICES ASSUME Init
               PROVE  IInv
    OBVIOUS
  <1>1. Guarded = {}
    BY DEF Init, Guarded
  <1> QED BY <1>1, FS_EmptySet, GuardedAssumption DEF Init, IInv, SlotsConserved

(* The backend's call starts or ends: a slot goes with it.                    *)
LEMMA CallBackendKeeps ==
    ASSUME IInv, NEW c \in Callers, CallBackend(c)
    PROVE  IInv'
  <1>1. Guarded' = Guarded \cup {c} /\ c \notin Guarded /\ Guarded \subseteq Callers
    BY GuardedAssumption DEF IInv, CallBackend, Guarded
  <1>2. Cardinality(Guarded') = Cardinality(Guarded) + 1 /\ Cardinality(Guarded) \in Nat
    BY <1>1, Counting
  <1> QED BY <1>2, GuardedAssumption DEF IInv, CallBackend, SlotsConserved

LEMMA LeaveKeeps ==
    ASSUME IInv, NEW c \in Callers, NEW k \in (0..Strategies) \ {1}, Leave(c, k)
    PROVE  IInv'
  <1>1. Guarded' = Guarded \ {c} /\ c \in Guarded /\ Guarded \subseteq Callers
    BY DEF IInv, Leave, Guarded
  <1>2. Cardinality(Guarded') = Cardinality(Guarded) - 1 /\ Cardinality(Guarded) \in Nat
    BY <1>1, Counting
  <1> QED BY <1>2, GuardedAssumption DEF IInv, Leave, SlotsConserved

(* A step that moves a caller between no call and the fallbacks.              *)
LEMMA OutsideKeeps ==
    ASSUME IInv, NEW c \in Callers, at[c] # 1, NEW k \in (0..Strategies) \ {1},
           at' = [at EXCEPT ![c] = k], UNCHANGED slots
    PROVE  IInv' /\ Guarded' = Guarded
  <1>1. Guarded' = Guarded
    BY DEF IInv, Guarded
  <1> QED BY <1>1, GuardedAssumption DEF IInv, SlotsConserved

LEMMA NextIInv == IInv /\ [Next]_vars => IInv'
  <1> SUFFICES ASSUME IInv, [Next]_vars
               PROVE  IInv'
    OBVIOUS
  <1>1. 1 \in 1..Strategies
    BY GuardedAssumption
  <1>2. ASSUME NEW c \in Callers, Start(c)
        PROVE  IInv'
    <2>1. CASE CircuitRejects(c) \/ BulkheadRejects(c)
      BY <1>1, <2>1, AfterFailureType, OutsideKeeps DEF CircuitRejects, BulkheadRejects
    <2> QED BY <1>2, <2>1, CallBackendKeeps DEF Start
  <1>3. ASSUME NEW c \in Callers, BackendAnswers(c) \/ TimesOut(c) \/ BackendCancelled(c)
        PROVE  IInv'
    <2>1. \E k \in (0..Strategies) \ {1} : Leave(c, k)
      BY <1>1, <1>3, AfterFailureType, GuardedAssumption
      DEF BackendAnswers, BackendSucceeds, BackendFails, TimesOut, BackendCancelled
    <2> QED BY <2>1, LeaveKeeps
  <1>4. ASSUME NEW c \in Callers, FallbackAnswers(c) \/ FallbackCancelled(c)
        PROVE  IInv'
    <2>1. at[c] \in 1..Strategies /\ at[c] # 1
      BY <1>4 DEF IInv, FallbackAnswers, FallbackSucceeds, FallbackFails, FallbackCancelled
    <2>2. \E k \in (0..Strategies) \ {1} : at' = [at EXCEPT ![c] = k]
      BY <1>4, <2>1, AfterFailureType, GuardedAssumption
      DEF FallbackAnswers, FallbackSucceeds, FallbackFails, FallbackCancelled
    <2>3. UNCHANGED slots
      BY <1>4 DEF FallbackAnswers, FallbackSucceeds, FallbackFails, FallbackCancelled
    <2> QED BY <2>1, <2>2, <2>3, OutsideKeeps
  <1>5. CASE Tick \/ UNCHANGED vars
    BY <1>5 DEF Tick, vars, IInv, SlotsConserved, Guarded
  <1> QED BY <1>2, <1>3, <1>4, <1>5 DEF Next, Cancelled

THEOREM Invariance == Spec => []IInv
  BY InitIInv, NextIInv, PTL DEF Spec

(* No outcome, timeout or cancellation of a guarded call leaks its slot.      *)
THEOREM SlotsAreConserved == Spec => []SlotsConserved
  <1>1. IInv => SlotsConserved
    BY DEF IInv
  <1> QED BY <1>1, Invariance, PTL

(* What every method of the breaker leaves is a breaker.                      *)
LEMMA MethodsKeepBreaker ==
    ASSUME NEW b \in BreakerType
    PROVE  /\ RecordSuccess(b) \in BreakerType
           /\ RecordFailure(b) \in BreakerType
           /\ Admitted(b) \in BreakerType
           /\ Aged(b) \in BreakerType
  <1> USE BreakerAssumption
  <1>1. /\ b.state \in CircuitState /\ b.consecutive \in 0..FailureThreshold
        /\ b.recent \in Seq(Outcome) /\ b.age \in Never..RecoveryTimeout
    BY DEF BreakerType
  <1>2. ASSUME NEW o \in Outcome
        PROVE  Remember(b.recent, o) \in Seq(Outcome)
    <2>1. CASE Len(b.recent) < WindowSize
      BY <1>1, <2>1 DEF Remember
    <2>2. CASE ~(Len(b.recent) < WindowSize)
      <3>1. b.recent # <<>>
        BY <1>1, <2>2
      <3>2. Tail(b.recent) \in Seq(Outcome)
        BY <1>1, <3>1
      <3> QED BY <2>2, <3>2 DEF Remember
    <2> QED BY <2>1, <2>2
  <1>3. Remember(b.recent, "success") \in Seq(Outcome)
        /\ Remember(b.recent, "failure") \in Seq(Outcome)
    BY <1>2 DEF Outcome
  <1>4. RecordSuccess(b) \in BreakerType
    BY <1>1, <1>3 DEF RecordSuccess, BreakerType, CircuitState
  <1>5. Counted(b) \in 0..FailureThreshold
    BY <1>1 DEF Counted
  <1>6. RecordFailure(b) \in BreakerType
    BY <1>1, <1>3, <1>5 DEF RecordFailure, BreakerType, CircuitState, Never
  <1>7. Admitted(b) \in BreakerType
    BY <1>1 DEF Admitted, BreakerType, CircuitState
  <1>8. Aged(b) \in BreakerType
    BY <1>1 DEF Aged, BreakerType, Never
  <1> QED BY <1>4, <1>6, <1>7, <1>8

LEMMA InitTyped == Init => TypeOK
  BY GuardedAssumption, BreakerAssumption
  DEF Init, TypeOK, NewBreaker, BreakerType, CircuitState, Never

(* The slots are typed because they are conserved; each other variable keeps  *)
(* its type by itself.                                                        *)
LEMMA NextTyped == TypeOK /\ IInv' /\ [Next]_vars => TypeOK'
  <1> SUFFICES ASSUME TypeOK, IInv', [Next]_vars
               PROVE  TypeOK'
    OBVIOUS
  <1> USE GuardedAssumption
  <1>1. (slots \in 0..MaxConcurrent)'
    <2>1. Guarded' \subseteq Callers
      BY DEF Guarded
    <2>2. Cardinality(Guarded') \in Nat
      BY <2>1, Counting
    <2> QED BY <2>2 DEF IInv, SlotsConserved
  <1>2. (at \in [Callers -> 0..Strategies])'
    BY DEF IInv
  <1>3. (breaker \in BreakerType)'
    BY MethodsKeepBreaker
    DEF TypeOK, Next, Start, BackendAnswers, FallbackAnswers, Cancelled, Tick,
        CircuitRejects, BulkheadRejects, CallBackend, BackendSucceeds, BackendFails,
        TimesOut, BackendCancelled, FallbackSucceeds, FallbackFails,
        FallbackCancelled, vars
  <1>4. (elapsed \in [Callers -> 0..Timeout])'
    BY DEF TypeOK, Next, Start, BackendAnswers, FallbackAnswers, Cancelled, Tick,
        CircuitRejects, BulkheadRejects, CallBackend, BackendSucceeds, BackendFails,
        TimesOut, BackendCancelled, FallbackSucceeds, FallbackFails,
        FallbackCancelled, vars
  <1>5. (attempts \in Seq(1..Strategies))'
    <2>1. ASSUME NEW k \in 1..Strategies, NoteAttempt(k)
          PROVE  attempts' \in Seq(1..Strategies)
      <3>1. attempts \in Seq(1..Strategies)
        BY DEF TypeOK
      <3>2. Append(attempts, k) \in Seq(1..Strategies)
        BY <3>1
      <3> QED BY <2>1, <3>1, <3>2, Zenon DEF NoteAttempt
    <2>2. ASSUME NEW c \in Callers, FallbackSucceeds(c)
          PROVE  attempts' \in Seq(1..Strategies)
      BY <2>1, <2>2 DEF FallbackSucceeds, TypeOK
    <2>3. ASSUME NEW c \in Callers, BackendSucceeds(c)
          PROVE  attempts' \in Seq(1..Strategies)
      BY <2>1, <2>3 DEF BackendSucceeds
    <2>4. ResetAttempts => attempts' \in Seq(1..Strategies)
      BY DEF ResetAttempts
    <2> QED BY <2>2, <2>3, <2>4
        DEF TypeOK, Next, Start, BackendAnswers, FallbackAnswers, Cancelled, Tick,
            CircuitRejects, BulkheadRejects, CallBackend, BackendFails,
            TimesOut, BackendCancelled, FallbackFails, FallbackCancelled, vars
  <1> QED BY <1>1, <1>2, <1>3, <1>4, <1>5 DEF TypeOK

(* The variables keep their types; in particular no caller takes a slot that  *)
(* is not there.                                                              *)
THEOREM TypeCorrect == Spec => []TypeOK
  BY InitTyped, NextTyped, Invariance, PTL DEF Spec

(* Slots and callers agree between any two steps.                             *)
THEOREM StaysConsistent == Spec => []Consistent
  BY TypeCorrect, SlotsAreConserved, PTL DEF Consistent

-----------------------------------------------------------------------------
(* The breaker of the guarded backend is CircuitBreaker's: its operators are  *)
(* the same ones, under the name of the instance.                             *)
LEMMA SameBreaker ==
    /\ CB!NewBreaker = NewBreaker
    /\ \A b : /\ CB!CanExecute(b) = CanExecute(b) /\ CB!Admitted(b) = Admitted(b)
              /\ CB!RecordSuccess(b) = RecordSuccess(b)
              /\ CB!RecordFailure(b) = RecordFailure(b)
              /\ CB!Aged(b) = Aged(b)
  BY DEF CB!NewBreaker, NewBreaker, CB!Never, Never, CB!CanExecute, CanExecute,
         CB!Recovered, Recovered, CB!Admitted, Admitted, CB!RecordSuccess, RecordSuccess,
         CB!Remember, Remember, CB!RecordFailure, RecordFailure, CB!Trips, Trips,
         CB!Counted, Counted, CB!Aged, Aged

(* call as the middleware sees it                                             *)
Call == [c \in Callers |-> IF at[c] = 1 THEN "running" ELSE "idle"]

(* Each step is the middleware's step of the same caller, or changes nothing  *)
(* the middleware has.                                                        *)
LEMMA StepOfBreaker == IInv /\ [Next]_vars => [CB!Next]_(CB!vars)
  <1> SUFFICES ASSUME IInv, [Next]_vars
               PROVE  CB!Next \/ (breaker' = breaker /\ Call' = Call)
    BY DEF CB!vars, Call
  <1>1. 1 \in 1..Strategies /\ AfterFailure(1) # 1
    BY GuardedAssumption, AfterFailureType
  <1>2. at \in [Callers -> 0..Strategies]
    BY DEF IInv
  <1>3. ASSUME NEW c \in Callers, CircuitRejects(c) \/ FallbackAnswers(c) \/ FallbackCancelled(c)
        PROVE  breaker' = breaker /\ Call' = Call
    <2>1. at[c] \in 0..Strategies /\ at[c] # 1
      BY <1>2, <1>3 DEF CircuitRejects, FallbackAnswers, FallbackSucceeds, FallbackFails,
                        FallbackCancelled
    <2>2. PICK k \in (0..Strategies) \ {1} : at' = [at EXCEPT ![c] = k]
      BY <1>1, <1>3, <2>1, AfterFailureType, GuardedAssumption
      DEF CircuitRejects, FallbackAnswers, FallbackSucceeds, FallbackFails, FallbackCancelled
    <2>3. Call' = Call
      BY <1>2, <2>1, <2>2 DEF Call
    <2>4. breaker' = breaker
      BY <1>3 DEF CircuitRejects, FallbackAnswers, FallbackSucceeds, FallbackFails,
                  FallbackCancelled
    <2> QED BY <2>3, <2>4
  <1>4. ASSUME NEW c \in Callers, BulkheadRejects(c)
        PROVE  CB!CallFails(c)
    <2>1. Call[c] = "idle" /\ Call' = Call
      BY <1>1, <1>2, <1>4 DEF BulkheadRejects, Call
    <2> QED BY <1>4, <2>1, SameBreaker DEF BulkheadRejects, CB!CallFails, Call
  <1>5. ASSUME NEW c \in Callers, CallBackend(c)
        PROVE  CB!Admit(c)
    <2>1. Call[c] = "idle" /\ Call' = [Call EXCEPT ![c] = "running"]
      <3>1. at[c] = 0 /\ at' = [at EXCEPT ![c] = 1]
        BY <1>5 DEF CallBackend
      <3>2. Call[c] = "idle"
        BY <3>1 DEF Call
      <3>3. \A x \in Callers : at'[x] = IF x = c THEN 1 ELSE at[x]
        BY <1>2, <3>1
      <3>4. \A x \in Callers : Call'[x] = IF x = c THEN "running" ELSE Call[x]
        BY <3>3 DEF Call
      <3> QED BY <3>2, <3>4 DEF Call
    <2> QED BY <1>5, <2>1, SameBreaker DEF CallBackend, CB!Admit, Call
  <1>6. ASSUME NEW c \in Callers, NEW k \in (0..Strategies) \ {1}, Leave(c, k)
        PROVE  Call[c] = "running" /\ Call' = [Call EXCEPT ![c] = "idle"]
    BY <1>2, <1>6 DEF Leave, Call
  <1>7. ASSUME NEW c \in Callers, BackendAnswers(c) \/ TimesOut(c) \/ BackendCancelled(c)
        PROVE  CB!Finish(c)
    <2>1. 0 \in (0..Strategies) \ {1} /\ AfterFailure(1) \in (0..Strategies) \ {1}
      BY <1>1, AfterFailureType, GuardedAssumption
    <2>2. Call[c] = "running" /\ Call' = [Call EXCEPT ![c] = "idle"]
      BY <1>6, <1>7, <2>1 DEF BackendAnswers, BackendSucceeds, BackendFails, TimesOut,
                              BackendCancelled
    <2>3. \/ breaker' = RecordSuccess(breaker)
          \/ breaker' = RecordFailure(breaker)
          \/ breaker' = breaker
      BY <1>7 DEF BackendAnswers, BackendSucceeds, BackendFails, TimesOut, BackendCancelled
    <2> QED BY <2>2, <2>3, SameBreaker
            DEF CB!Finish, CB!Succeed, CB!Fail, CB!Escape, CB!Return, Call
  <1>8. CASE Tick
    <2>1. breaker' = Aged(breaker) /\ Call' = Call
      BY <1>8 DEF Tick, Call
    <2> QED BY <2>1, SameBreaker DEF CB!Next, CB!Tick, Call
  <1>9. CASE UNCHANGED vars
    BY <1>9 DEF vars, Call
  <1> QED BY <1>3, <1>4, <1>5, <1>7, <1>8, <1>9
          DEF Next, Start, Cancelled, CB!Next, CB!Call

(* The guarded backend implements CircuitBreakerMiddleware.                   *)
THEOREM IsABreaker == Spec => ImplementsBreaker
  <1>1. Init => CB!Init
    BY SameBreaker, GuardedAssumption DEF Init, CB!Init
  <1> QED BY <1>1, StepOfBreaker, Invariance, PTL DEF Spec, ImplementsBreaker, CB!Spec

-----------------------------------------------------------------------------
(* The bulkhead as its slots show it: nobody in line, no future.              *)
Place == [c \in Callers |-> IF at[c] = 1 THEN "in" ELSE "out"]
NoFuture == [c \in Callers |-> "none"]

(* With nobody in line, a release gives the permit back to the semaphore and  *)
(* the semaphore lets everybody in while it has one.                          *)
LEMMA EmptyLine ==
    /\ BH!FirstPending(<<>>, NoFuture) = {}
    /\ BH!Locked <=> slots = 0
  BY DEF BH!FirstPending, BH!Locked, BH!ToSet

LEMMA StepOfBulkhead == IInv /\ [Next]_vars => [BH!Next]_(BH!vars)
  <1> SUFFICES ASSUME IInv, [Next]_vars
               PROVE  BH!Next \/ (slots' = slots /\ Place' = Place)
    BY DEF BH!vars, Place
  <1>1. 1 \in 1..Strategies /\ AfterFailure(1) # 1
    BY GuardedAssumption, AfterFailureType
  <1>2. at \in [Callers -> 0..Strategies] /\ slots \in Nat
    BY DEF IInv
  <1>3. ASSUME NEW c \in Callers,
               \/ CircuitRejects(c) \/ BulkheadRejects(c)
               \/ FallbackAnswers(c) \/ FallbackCancelled(c)
        PROVE  slots' = slots /\ Place' = Place
    <2>1. at[c] \in 0..Strategies /\ at[c] # 1
      BY <1>2, <1>3 DEF CircuitRejects, BulkheadRejects, FallbackAnswers, FallbackSucceeds,
                        FallbackFails, FallbackCancelled
    <2>2. PICK k \in (0..Strategies) \ {1} : at' = [at EXCEPT ![c] = k]
      BY <1>1, <1>3, <2>1, AfterFailureType, GuardedAssumption
      DEF CircuitRejects, BulkheadRejects, FallbackAnswers, FallbackSucceeds, FallbackFails,
          FallbackCancelled
    <2>3. Place' = Place
      BY <1>2, <2>1, <2>2 DEF Place
    <2>4. slots' = slots
      BY <1>3 DEF CircuitRejects, BulkheadRejects, FallbackAnswers, FallbackSucceeds,
                  FallbackFails, FallbackCancelled
    <2> QED BY <2>3, <2>4
  <1>4. ASSUME NEW c \in Callers, CallBackend(c)
        PROVE  BH!EnterNow(c)
    <2>1. at[c] = 0 /\ at' = [at EXCEPT ![c] = 1] /\ slots > 0 /\ slots' = slots - 1
      BY <1>4 DEF CallBackend
    <2>2. Place[c] = "out" /\ Place' = [Place EXCEPT ![c] = "in"]
      <3>1. Place[c] = "out"
        BY <2>1 DEF Place
      <3>2. \A x \in Callers : at'[x] = IF x = c THEN 1 ELSE at[x]
        BY <1>2, <2>1
      <3>3. \A x \in Callers : Place'[x] = IF x = c THEN "in" ELSE Place[x]
        BY <3>2 DEF Place
      <3> QED BY <3>1, <3>3 DEF Place
    <2>3. MaxConcurrent - slots' = (MaxConcurrent - slots) + 1
      BY <1>2, <2>1, GuardedAssumption
    <2> QED BY <2>1, <2>2, <2>3, EmptyLine DEF BH!EnterNow, Place
  <1>5. ASSUME NEW c \in Callers, NEW k \in (0..Strategies) \ {1}, Leave(c, k)
        PROVE  BH!Exit(c)
    <2>1. at[c] = 1 /\ at' = [at EXCEPT ![c] = k] /\ slots' = slots + 1
      BY <1>5 DEF Leave
    <2>2. Place[c] = "in" /\ Place' = [Place EXCEPT ![c] = "out"]
      BY <1>2, <2>1 DEF Place
    <2>3. MaxConcurrent - slots' = (MaxConcurrent - slots) - 1
      BY <1>2, <2>1, GuardedAssumption
    <2>4. BH!WakeUpNext(slots + 1, <<>>, NoFuture)
      <3>1. slots' = slots + 1
        BY <2>1
      <3> QED BY <3>1, EmptyLine DEF BH!WakeUpNext, NoFuture
    <2> QED BY <2>1, <2>2, <2>3, <2>4 DEF BH!Exit, Place, NoFuture
  <1>6. ASSUME NEW c \in Callers, BackendAnswers(c) \/ TimesOut(c) \/ BackendCancelled(c)
        PROVE  BH!Exit(c)
    <2>1. 0 \in (0..Strategies) \ {1} /\ AfterFailure(1) \in (0..Strategies) \ {1}
      BY <1>1, AfterFailureType, GuardedAssumption
    <2> QED BY <1>5, <1>6, <2>1 DEF BackendAnswers, BackendSucceeds, BackendFails, TimesOut,
                                    BackendCancelled
  <1>7. CASE Tick \/ UNCHANGED vars
    BY <1>7 DEF Tick, vars, Place
  <1> QED BY <1>3, <1>4, <1>6, <1>7 DEF Next, Start, Cancelled, BH!Next

(* The guarded backend implements a Bulkhead whose max_queue_size is 0.       *)
THEOREM IsABulkhead == Spec => ImplementsBulkhead
  <1>1. Init => BH!Init
    BY GuardedAssumption DEF Init, BH!Init
  <1> QED BY <1>1, StepOfBulkhead, Invariance, PTL DEF Spec, ImplementsBulkhead, BH!Spec
============================================================================

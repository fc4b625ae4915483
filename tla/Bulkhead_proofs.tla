--------------------------- MODULE Bulkhead_proofs ---------------------------
(* For any finite set of tasks and every limit: the safety properties of      *)
(* Bulkhead that the run `bulkhead` checks on one instance.  The invariant    *)
(* joins the semaphore's bookkeeping (each permit is in _value, with a holder *)
(* or on its way), the line (the blocked tasks, each once) and the bulkhead's *)
(* two counters; none of them is inductive alone, since a hand-over moves a   *)
(* permit to whoever the line says is first.                                  *)
EXTENDS Bulkhead, FiniteSetTheorems, SequenceTheorems, WellFoundedInduction, TLAPS

(* At most one task is first, it is a pending one of the line, and there is   *)
(* one unless no task of the line is pending.                                 *)
LEMMA FirstPendingProperties ==
    ASSUME NEW ws \in Seq(Tasks), NEW f \in [Tasks -> FutureState]
    PROVE  /\ \A t \in FirstPending(ws, f) : t \in ToSet(ws) /\ f[t] = "pending"
           /\ FirstPending(ws, f) = {} \/ \E t \in Tasks : FirstPending(ws, f) = {t}
           /\ FirstPending(ws, f) = {} => \A t \in ToSet(ws) : f[t] # "pending"
  <1> DEFINE P == {i \in 1..Len(ws) : f[ws[i]] = "pending"}
             First(k) == f[ws[k]] = "pending" /\ \A j \in 1..(k - 1) : f[ws[j]] # "pending"
  <1>1. Len(ws) \in Nat /\ \A i \in 1..Len(ws) : ws[i] \in Tasks
    BY ElementOfSeq
  <1>2. ToSet(ws) = {ws[i] : i \in 1..Len(ws)}
    BY LenProperties DEF ToSet
  <1>3. ASSUME P # {}
        PROVE  \E k \in P : First(k)
    <2>1. P \subseteq Nat
      BY <1>1
    <2>2. PICK k \in P : \A i \in P : <<i, k>> \notin OpToRel(<, Nat)
      <3> HIDE DEF P
      <3> QED BY <1>3, <2>1, NatLessThanWellFounded, WFMin, Zenon
    <2>3. \A i \in P : ~(i < k)
      <3> HIDE DEF P
      <3> QED BY <2>1, <2>2, Zenon DEF OpToRel
    <2> QED BY <2>3, <1>1
  <1>4. \A i, j \in 1..Len(ws) : First(i) /\ First(j) => i = j
    BY <1>1
  <1>5. FirstPending(ws, f) = {ws[i] : i \in {k \in 1..Len(ws) : First(k)}}
    BY DEF FirstPending
  <1>6. FirstPending(ws, f) = {} \/ \E t \in Tasks : FirstPending(ws, f) = {t}
    <2>1. CASE \E k \in 1..Len(ws) : First(k)
      <3>1. PICK k \in 1..Len(ws) : First(k)
        BY <2>1
      <3>2. FirstPending(ws, f) = {ws[k]}
        <4> HIDE DEF First
        <4> QED BY <1>4, <1>5, <3>1
      <3> QED BY <1>1, <3>2
    <2>2. CASE ~ \E k \in 1..Len(ws) : First(k)
      BY <1>5, <2>2
    <2> QED BY <2>1, <2>2
  <1>7. FirstPending(ws, f) = {} => P = {}
    BY <1>3, <1>5
  <1> QED BY <1>2, <1>5, <1>6, <1>7

(* Taking a task out of the line leaves the others, each once.                *)
LEMMA WithoutProperties ==
    ASSUME NEW ws \in Seq(Tasks), NEW t \in ToSet(ws),
           \A i, j \in 1..Len(ws) : ws[i] = ws[j] => i = j
    PROVE  LET w == Without(ws, t) IN
           /\ w \in Seq(Tasks)
           /\ Len(w) = Len(ws) - 1
           /\ ToSet(w) = ToSet(ws) \ {t}
           /\ \A i, j \in 1..Len(w) : w[i] = w[j] => i = j
           /\ \E k \in 1..Len(ws) :
                 /\ ws[k] = t
                 /\ \A i \in 1..Len(w) : w[i] = IF i < k THEN ws[i] ELSE ws[i + 1]
  <1> DEFINE w == Without(ws, t)
             k == CHOOSE i \in 1..Len(ws) : ws[i] = t
             s1 == SubSeq(ws, 1, k - 1)
             s2 == SubSeq(ws, k + 1, Len(ws))
  <1>1. Len(ws) \in Nat /\ \A i \in 1..Len(ws) : ws[i] \in Tasks
    BY ElementOfSeq
  <1>2. k \in 1..Len(ws) /\ ws[k] = t
    BY DEF ToSet
  <1> HIDE DEF k
  <1>3. /\ s1 \in Seq(Tasks) /\ Len(s1) = k - 1
        /\ \A i \in 1..(k - 1) : s1[i] = ws[i]
    <2>1. \A i \in 1..(k - 1) : ws[i] \in Tasks
      BY <1>1, <1>2
    <2> QED BY <1>1, <1>2, <2>1, SubSeqProperties
  <1>4. /\ s2 \in Seq(Tasks) /\ Len(s2) = Len(ws) - k
        /\ \A i \in 1..(Len(ws) - k) : s2[i] = ws[i + k]
    <2>1. \A i \in (k + 1)..Len(ws) : ws[i] \in Tasks
      BY <1>1, <1>2
    <2> QED BY <1>1, <1>2, <2>1, SubSeqProperties
  <1>5. w = s1 \o s2
    BY DEF Without, RemoveAt, k
  <1> HIDE DEF w, s1, s2
  <1>6. /\ w \in Seq(Tasks) /\ Len(w) = Len(ws) - 1
        /\ \A i \in 1..Len(w) : w[i] = IF i < k THEN ws[i] ELSE ws[i + 1]
    <2>1. /\ w \in Seq(Tasks) /\ Len(w) = Len(s1) + Len(s2)
          /\ \A i \in 1..(Len(s1) + Len(s2)) :
               w[i] = IF i <= Len(s1) THEN s1[i] ELSE s2[i - Len(s1)]
      BY <1>3, <1>4, <1>5, ConcatProperties
    <2> QED BY <1>1, <1>2, <1>3, <1>4, <2>1
  <1>7. ToSet(w) = ToSet(ws) \ {t}
    <2>1. \A i \in 1..Len(w) : \E j \in 1..Len(ws) : j # k /\ w[i] = ws[j]
      BY <1>1, <1>2, <1>6
    <2>2. \A j \in 1..Len(ws) : j # k => \E i \in 1..Len(w) : w[i] = ws[j]
      <3> SUFFICES ASSUME NEW j \in 1..Len(ws), j # k
                   PROVE  \E i \in 1..Len(w) : w[i] = ws[j]
        OBVIOUS
      <3>1. CASE j < k
        BY <3>1, <1>1, <1>2, <1>6
      <3>2. CASE j > k
        <4>1. j - 1 \in 1..Len(w) /\ w[j - 1] = ws[j]
          BY <3>2, <1>1, <1>2, <1>6
        <4> QED BY <4>1
      <3> QED BY <3>1, <3>2, <1>2
    <2>3. DOMAIN w = 1..Len(w) /\ DOMAIN ws = 1..Len(ws)
      BY <1>6, LenProperties
    <2>4. \A j \in 1..Len(ws) : ws[j] = t <=> j = k
      BY <1>2
    <2>5. ToSet(w) \subseteq ToSet(ws) \ {t}
      BY <2>1, <2>3, <2>4 DEF ToSet
    <2>6. ToSet(ws) \ {t} \subseteq ToSet(w)
      BY <2>2, <2>3, <2>4 DEF ToSet
    <2> QED BY <2>5, <2>6
  <1>8. \A i, j \in 1..Len(w) : w[i] = w[j] => i = j
    BY <1>1, <1>2, <1>6
  <1> QED BY <1>2, <1>6, <1>7, <1>8 DEF w

-----------------------------------------------------------------------------
HandedIn(f) == {t \in Tasks : f[t] \in {"handed", "handedCancelled"}}
PendingIn(f) == {t \in Tasks : f[t] = "pending"}
Queued == {t \in Tasks : pc[t] = "queued"}

(* The inductive invariant.                                                   *)
TypeInv ==
    /\ value \in Nat /\ current \in Int /\ waiting \in Int
    /\ waiters \in Seq(Tasks)
    /\ fut \in [Tasks -> FutureState]
    /\ pc \in [Tasks -> {"out", "fast", "queued", "in"}]
LineInv ==
    /\ \A i, j \in 1..Len(waiters) : waiters[i] = waiters[j] => i = j
    /\ ToSet(waiters) = Blocked
    /\ \A t \in Tasks : t \in Blocked <=> fut[t] # "none"
CountInv == current = Cardinality(Holders) /\ waiting = Cardinality(Queued)
IInv == /\ TypeInv /\ LineInv /\ CountInv
        /\ PermitConservation /\ NoStrandedWaiter /\ QueueBounded

(* Adding a task to a set of tasks, or taking it away, changes the count by one. *)
LEMMA Counting ==
    /\ \A S \in SUBSET Tasks : Cardinality(S) \in Nat
    /\ \A S \in SUBSET Tasks : Cardinality(S) = 0 => S = {}
    /\ \A S \in SUBSET Tasks, t \in Tasks :
         /\ t \notin S => Cardinality(S \cup {t}) = Cardinality(S) + 1
         /\ t \in S => Cardinality(S \ {t}) = Cardinality(S) - 1
  <1>1. \A S \in SUBSET Tasks : IsFiniteSet(S)
    BY FS_Subset, BulkheadAssumption
  <1>2. \A S \in SUBSET Tasks : Cardinality(S) \in Nat /\ (Cardinality(S) = 0 => S = {})
    BY <1>1, FS_CardinalityType, FS_EmptySet
  <1>3. \A S \in SUBSET Tasks, t \in Tasks :
          t \notin S => Cardinality(S \cup {t}) = Cardinality(S) + 1
    BY <1>1, FS_AddElement
  <1>4. \A S \in SUBSET Tasks, t \in Tasks :
          t \in S => Cardinality(S \ {t}) = Cardinality(S) - 1
    BY <1>1, FS_RemoveElement
  <1> QED BY <1>2, <1>3, <1>4

(* _wake_up_next moves at most one permit, from _value to the first waiter whose *)
(* future is pending, and leaves a permit free only if nobody waits for one.  *)
LEMMA WakeUpMovesOne ==
    ASSUME NEW v \in Nat \ {0}, NEW ws \in Seq(Tasks), NEW f \in [Tasks -> FutureState],
           PendingIn(f) \subseteq ToSet(ws), WakeUpNext(v, ws, f)
    PROVE  /\ fut' \in [Tasks -> FutureState] /\ value' \in Nat
           /\ \A t \in Tasks : fut'[t] = "none" <=> f[t] = "none"
           /\ value' + Cardinality(HandedIn(fut')) = v + Cardinality(HandedIn(f))
           /\ PendingIn(fut') = {} \/ HandedIn(fut') # {}
  <1> DEFINE n == FirstPending(ws, f)
  <1>1. /\ \A t \in n : f[t] = "pending"
        /\ n = {} \/ \E t \in Tasks : n = {t}
        /\ n = {} => \A t \in ToSet(ws) : f[t] # "pending"
    BY FirstPendingProperties
  <1>2. /\ value' = IF n = {} THEN v ELSE v - 1
        /\ fut' = [t \in Tasks |-> IF t \in n THEN "handed" ELSE f[t]]
    BY DEF WakeUpNext
  <1> HIDE DEF n
  <1>3. CASE n = {}
    <2>1. fut' = f /\ value' = v
      BY <1>2, <1>3
    <2>2. PendingIn(f) = {}
      BY <1>1, <1>3 DEF PendingIn
    <2> QED BY <2>1, <2>2
  <1>4. CASE n # {}
    <2>1. PICK u \in Tasks : n = {u}
      BY <1>1, <1>4
    <2>2. fut' = [f EXCEPT ![u] = "handed"] /\ f[u] = "pending"
      BY <1>1, <1>2, <2>1
    <2>3. HandedIn(fut') = HandedIn(f) \cup {u} /\ u \notin HandedIn(f)
      BY <2>2 DEF HandedIn
    <2>4. Cardinality(HandedIn(fut')) = Cardinality(HandedIn(f)) + 1
      BY <2>3, Counting DEF HandedIn
    <2>5. fut' \in [Tasks -> FutureState] /\ \A t \in Tasks : fut'[t] = "none" <=> f[t] = "none"
      BY <2>2 DEF FutureState
    <2>6. Cardinality(HandedIn(f)) \in Nat
      BY Counting DEF HandedIn
    <2>7. HandedIn(fut') # {}
      BY <2>3
    <2>8. value' \in Nat /\ value' + Cardinality(HandedIn(fut')) = v + Cardinality(HandedIn(f))
      BY <1>2, <1>4, <2>4, <2>6
    <2> QED BY <2>5, <2>7, <2>8
  <1> QED BY <1>3, <1>4

LEMMA InitIInv == Init => IInv
  <1> SUFFICES ASSUME Init
               PROVE  IInv
    OBVIOUS
  <1> USE DEF Init
  <1>1. Blocked = {} /\ Holders = {} /\ Queued = {} /\ Handed = {} /\ Pending = {}
    BY DEF Blocked, Holders, Queued, Handed, Pending
  <1>2. ToSet(waiters) = {} /\ Len(waiters) = 0 /\ waiters \in Seq(Tasks)
    BY DEF ToSet
  <1> QED BY <1>1, <1>2, FS_EmptySet, BulkheadAssumption
          DEF IInv, TypeInv, LineInv, CountInv, PermitConservation, NoStrandedWaiter,
              QueueBounded, FutureState

-----------------------------------------------------------------------------
(* What the invariant says of the sets of tasks, in the words of the lemmas.  *)
LEMMA Facts ==
    ASSUME IInv
    PROVE  /\ Handed = HandedIn(fut) /\ Pending = PendingIn(fut)
           /\ Pending \subseteq ToSet(waiters)
           /\ Blocked \subseteq Tasks /\ Holders \subseteq Tasks
           /\ Queued \subseteq Tasks /\ Handed \subseteq Tasks
           /\ value + Cardinality(Holders) + Cardinality(HandedIn(fut)) = MaxConcurrent
           /\ Cardinality(Holders) \in Nat /\ Cardinality(HandedIn(fut)) \in Nat
  <1>1. /\ Handed = HandedIn(fut) /\ Pending = PendingIn(fut)
        /\ Pending \subseteq ToSet(waiters)
        /\ Blocked \subseteq Tasks /\ Holders \subseteq Tasks
        /\ Queued \subseteq Tasks /\ Handed \subseteq Tasks
    BY DEF IInv, LineInv, Handed, HandedIn, Pending, PendingIn, Blocked, Holders, Queued
  <1>2. value + Cardinality(Holders) + Cardinality(HandedIn(fut)) = MaxConcurrent
    BY <1>1 DEF IInv, PermitConservation
  <1> QED BY <1>1, <1>2, Counting

(* What a step has to show of the permits.                                    *)
LEMMA Conserved ==
    ASSUME value' + Cardinality(Holders') + Cardinality(HandedIn(fut')) = MaxConcurrent,
           value' > 0 => PendingIn(fut') = {} \/ HandedIn(fut') # {}
    PROVE  PermitConservation' /\ NoStrandedWaiter'
  <1>1. Handed' = HandedIn(fut') /\ Pending' = PendingIn(fut')
    BY DEF Handed, HandedIn, Pending, PendingIn
  <1> QED BY <1>1 DEF PermitConservation, NoStrandedWaiter

LEMMA EnterNowKeeps ==
    ASSUME IInv, NEW t \in Tasks, EnterNow(t)
    PROVE  IInv'
  <1> USE DEF EnterNow
  <1>1. Pending = {}
    <2>1. \A u \in ToSet(waiters) : fut[u] = "cancelled"
      BY DEF Locked
    <2> QED BY <2>1, Facts DEF Pending
  <1>2. value > 0
    BY DEF Locked, IInv, TypeInv
  <1>3. TypeInv'
    BY <1>2 DEF IInv, TypeInv
  <1>4. /\ Blocked' = Blocked /\ Queued' = Queued /\ Handed' = Handed /\ Pending' = Pending
        /\ Holders' = Holders \cup {t} /\ t \notin Holders
    BY DEF IInv, TypeInv, Blocked, Queued, Holders, Handed, Pending
  <1>5. LineInv'
    BY <1>4 DEF IInv, LineInv
  <1>6. Cardinality(Holders') = Cardinality(Holders) + 1
    BY <1>4, Facts, Counting
  <1>7. CountInv' /\ PermitConservation'
    <2>1. Cardinality(Holders) \in Nat /\ Cardinality(Handed) \in Nat
      BY Facts, Counting
    <2> QED BY <1>4, <1>6, <2>1, BulkheadAssumption
            DEF IInv, TypeInv, CountInv, PermitConservation
  <1> QED BY <1>1, <1>3, <1>4, <1>5, <1>7 DEF IInv, NoStrandedWaiter, QueueBounded

(* Both branches of acquire that suspend.                                     *)
LEMMA BlockKeepsLine ==
    ASSUME IInv, NEW t \in Tasks, pc[t] = "out", NEW b \in {"fast", "queued"}, Block(t, b)
    PROVE  /\ LineInv' /\ Holders' = Holders /\ Handed' = Handed
           /\ t \notin Queued
           /\ Queued' = IF b = "queued" THEN Queued \cup {t} ELSE Queued
           /\ waiters' \in Seq(Tasks) /\ fut' \in [Tasks -> FutureState]
           /\ pc' \in [Tasks -> {"out", "fast", "queued", "in"}]
  <1> USE DEF Block
  <1>1. t \notin Blocked /\ fut[t] = "none" /\ Blocked' = Blocked \cup {t}
    BY DEF IInv, TypeInv, LineInv, Blocked
  <1>2. /\ waiters' \in Seq(Tasks) /\ Len(waiters') = Len(waiters) + 1
        /\ waiters'[Len(waiters) + 1] = t
        /\ \A i \in 1..Len(waiters) : waiters'[i] = waiters[i]
        /\ Len(waiters) \in Nat
    BY DEF IInv, TypeInv
  <1>3. \A i \in 1..Len(waiters) : waiters[i] # t /\ waiters[i] \in ToSet(waiters)
    <2>1. \A i \in 1..Len(waiters) : waiters[i] \in ToSet(waiters)
      BY LenProperties DEF IInv, TypeInv, ToSet
    <2> QED BY <1>1, <2>1 DEF IInv, LineInv
  <1>4. ToSet(waiters') = ToSet(waiters) \cup {t}
    <2>1. DOMAIN waiters' = 1..(Len(waiters) + 1) /\ DOMAIN waiters = 1..Len(waiters)
      BY <1>2, LenProperties DEF IInv, TypeInv
    <2>2. ToSet(waiters') \subseteq ToSet(waiters) \cup {t}
      BY <1>2, <2>1 DEF ToSet
    <2>3. ToSet(waiters) \subseteq ToSet(waiters')
      BY <1>2, <2>1 DEF ToSet
    <2>4. t \in ToSet(waiters')
      BY <1>2, <2>1 DEF ToSet
    <2> QED BY <2>2, <2>3, <2>4
  <1>5. \A i, j \in 1..Len(waiters') : waiters'[i] = waiters'[j] => i = j
    BY <1>2, <1>3 DEF IInv, LineInv
  <1>6. \A u \in Tasks : u \in Blocked' <=> fut'[u] # "none"
    BY <1>1 DEF IInv, TypeInv, LineInv
  <1>7. LineInv'
    BY <1>1, <1>4, <1>5, <1>6 DEF IInv, LineInv
  <1>8. /\ Holders' = Holders /\ Handed' = Handed /\ t \notin Queued
        /\ Queued' = IF b = "queued" THEN Queued \cup {t} ELSE Queued
    BY <1>1 DEF IInv, TypeInv, Holders, Handed, Queued
  <1> QED BY <1>2, <1>7, <1>8 DEF IInv, TypeInv, FutureState

LEMMA EnterFastKeeps ==
    ASSUME IInv, NEW t \in Tasks, EnterFast(t)
    PROVE  IInv'
  <1> USE DEF EnterFast
  <1>1. /\ LineInv' /\ Holders' = Holders /\ Handed' = Handed /\ Queued' = Queued
        /\ waiters' \in Seq(Tasks) /\ fut' \in [Tasks -> FutureState]
        /\ pc' \in [Tasks -> {"out", "fast", "queued", "in"}]
    BY BlockKeepsLine
  <1>2. UNCHANGED <<value, current, waiting>>
    BY DEF Block
  <1>3. Handed # {}
    <2>1. PICK u \in ToSet(waiters) : fut[u] # "cancelled"
      BY DEF Locked
    <2>2. u \in Tasks /\ fut[u] # "none"
      BY Facts DEF IInv, LineInv
    <2> QED BY <2>1, <2>2 DEF IInv, TypeInv, NoStrandedWaiter, FutureState, Pending, Handed
  <1> QED BY <1>1, <1>2, <1>3
          DEF IInv, TypeInv, CountInv, PermitConservation, NoStrandedWaiter, QueueBounded

LEMMA EnterQueueKeeps ==
    ASSUME IInv, NEW t \in Tasks, EnterQueue(t)
    PROVE  IInv'
  <1> USE DEF EnterQueue
  <1>1. /\ LineInv' /\ Holders' = Holders /\ Handed' = Handed
        /\ t \notin Queued /\ Queued' = Queued \cup {t}
        /\ waiters' \in Seq(Tasks) /\ fut' \in [Tasks -> FutureState]
        /\ pc' \in [Tasks -> {"out", "fast", "queued", "in"}]
    BY BlockKeepsLine
  <1>2. UNCHANGED <<value, current>> /\ waiting' = waiting + 1 /\ waiting < MaxQueue /\ value = 0
    BY DEF Block, HasQueueRoom
  <1>3. Cardinality(Queued') = Cardinality(Queued) + 1
    BY <1>1, Facts, Counting
  <1> QED BY <1>1, <1>2, <1>3, BulkheadAssumption
          DEF IInv, TypeInv, CountInv, PermitConservation, NoStrandedWaiter, QueueBounded

(* A blocked task that runs takes its future out of the line.                 *)
LEMMA LeavingLine ==
    ASSUME IInv, NEW t \in Tasks, fut[t] # "none"
    PROVE  LET ws == Without(waiters, t)
               f == [fut EXCEPT ![t] = "none"]
           IN /\ t \in Blocked
              /\ ws \in Seq(Tasks) /\ f \in [Tasks -> FutureState]
              /\ \A i, j \in 1..Len(ws) : ws[i] = ws[j] => i = j
              /\ ToSet(ws) = Blocked \ {t}
              /\ PendingIn(f) = PendingIn(fut) \ {t}
              /\ PendingIn(f) \subseteq ToSet(ws)
              /\ HandedIn(f) = HandedIn(fut) \ {t}
              /\ \A u \in Tasks : f[u] = "none" <=> u \notin Blocked \ {t}
  <1> DEFINE ws == Without(waiters, t)
             f == [fut EXCEPT ![t] = "none"]
  <1>1. t \in Blocked /\ t \in ToSet(waiters)
    BY DEF IInv, LineInv
  <1>2. /\ ws \in Seq(Tasks) /\ ToSet(ws) = Blocked \ {t}
        /\ \A i, j \in 1..Len(ws) : ws[i] = ws[j] => i = j
    BY <1>1, WithoutProperties DEF IInv, TypeInv, LineInv
  <1>3. f \in [Tasks -> FutureState] /\ \A u \in Tasks : f[u] = IF u = t THEN "none" ELSE fut[u]
    BY DEF IInv, TypeInv, FutureState
  <1> HIDE DEF ws, f
  <1>4. \A u \in Tasks : f[u] = "none" <=> u \notin Blocked \ {t}
    BY <1>3 DEF IInv, LineInv
  <1>5. PendingIn(f) = PendingIn(fut) \ {t} /\ HandedIn(f) = HandedIn(fut) \ {t}
    BY <1>3 DEF PendingIn, HandedIn
  <1>6. PendingIn(f) \subseteq ToSet(ws)
    BY <1>2, <1>5, Facts DEF IInv, LineInv
  <1> QED BY <1>1, <1>2, <1>3, <1>4, <1>5, <1>6 DEF ws, f

(* The `finally` of the waiting branch keeps _waiting exact.                  *)
LEMMA LeaveQueueCounts ==
    ASSUME IInv, NEW t \in Tasks, t \in Blocked, LeaveQueue(t),
           NEW to \in {"in", "out"}, pc' = [pc EXCEPT ![t] = to]
    PROVE  /\ waiting' = Cardinality(Queued') /\ waiting' <= waiting /\ waiting' \in Int
           /\ Blocked' = Blocked \ {t} /\ t \notin Holders
           /\ Holders' = IF to = "in" THEN Holders \cup {t} ELSE Holders
           /\ pc' \in [Tasks -> {"out", "fast", "queued", "in"}]
  <1>1. /\ Queued' = Queued \ {t} /\ Blocked' = Blocked \ {t} /\ t \notin Holders
        /\ Holders' = IF to = "in" THEN Holders \cup {t} ELSE Holders
        /\ pc' \in [Tasks -> {"out", "fast", "queued", "in"}]
        /\ t \in Queued <=> pc[t] = "queued"
    BY DEF IInv, TypeInv, Queued, Blocked, Holders
  <1>2. CASE t \in Queued
    <2>1. Cardinality(Queued') = Cardinality(Queued) - 1
      BY <1>1, <1>2, Facts, Counting
    <2>2. waiting' = waiting - 1
      BY <1>1, <1>2 DEF LeaveQueue
    <2>3. waiting = Cardinality(Queued) /\ waiting \in Int
      BY DEF IInv, TypeInv, CountInv
    <2> QED BY <1>1, <2>1, <2>2, <2>3
  <1>3. CASE t \notin Queued
    <2>1. Queued' = Queued
      BY <1>1, <1>3
    <2>2. waiting' = waiting
      BY <1>1, <1>3 DEF LeaveQueue
    <2>3. waiting = Cardinality(Queued) /\ waiting \in Int
      BY DEF IInv, TypeInv, CountInv
    <2> QED BY <1>1, <2>1, <2>2, <2>3
  <1> QED BY <1>1, <1>2, <1>3

LEMMA ResumeKeeps ==
    ASSUME IInv, NEW t \in Tasks, Resume(t)
    PROVE  IInv'
  <1> DEFINE ws == Without(waiters, t)
             f == [fut EXCEPT ![t] = "none"]
  <1>1. /\ t \in Blocked /\ ws \in Seq(Tasks) /\ f \in [Tasks -> FutureState]
        /\ \A i, j \in 1..Len(ws) : ws[i] = ws[j] => i = j
        /\ ToSet(ws) = Blocked \ {t}
        /\ PendingIn(f) \subseteq ToSet(ws)
        /\ HandedIn(f) = HandedIn(fut) \ {t}
        /\ \A u \in Tasks : f[u] = "none" <=> u \notin Blocked \ {t}
    BY LeavingLine DEF Resume
  <1>2. /\ waiters' = ws /\ current' = current + 1 /\ LeaveQueue(t)
        /\ pc' = [pc EXCEPT ![t] = "in"] /\ t \in HandedIn(fut)
        /\ IF value > 0 THEN WakeUpNext(value, ws, f) ELSE fut' = f /\ UNCHANGED value
    BY DEF Resume, HandedIn
  <1> HIDE DEF ws, f
  <1>3. /\ waiting' = Cardinality(Queued') /\ waiting' <= waiting /\ waiting' \in Int
        /\ Blocked' = Blocked \ {t} /\ t \notin Holders /\ Holders' = Holders \cup {t}
        /\ pc' \in [Tasks -> {"out", "fast", "queued", "in"}]
    BY <1>1, <1>2, LeaveQueueCounts
  <1>4. /\ fut' \in [Tasks -> FutureState] /\ value' \in Nat
        /\ \A u \in Tasks : fut'[u] = "none" <=> f[u] = "none"
        /\ value' + Cardinality(HandedIn(fut')) = value + Cardinality(HandedIn(f))
        /\ value' > 0 => PendingIn(fut') = {} \/ HandedIn(fut') # {}
    <2>1. value \in Nat
      BY DEF IInv, TypeInv
    <2>2. CASE value > 0
      <3>1. value \in Nat \ {0} /\ WakeUpNext(value, ws, f)
        BY <1>2, <2>1, <2>2
      <3>2. /\ fut' \in [Tasks -> FutureState] /\ value' \in Nat
            /\ \A u \in Tasks : fut'[u] = "none" <=> f[u] = "none"
            /\ value' + Cardinality(HandedIn(fut')) = value + Cardinality(HandedIn(f))
            /\ PendingIn(fut') = {} \/ HandedIn(fut') # {}
        BY <1>1, <3>1, WakeUpMovesOne
      <3> QED BY <3>2
    <2>3. CASE ~(value > 0)
      BY <1>1, <1>2, <2>1, <2>3
    <2> QED BY <2>2, <2>3
  <1>5. /\ Cardinality(HandedIn(f)) = Cardinality(HandedIn(fut)) - 1
        /\ Cardinality(Holders') = Cardinality(Holders) + 1
        /\ Cardinality(HandedIn(fut)) \in Nat /\ Cardinality(Holders) \in Nat
        /\ Cardinality(HandedIn(fut')) \in Nat
    BY <1>1, <1>2, <1>3, Facts, Counting DEF HandedIn
  <1>6. TypeInv'
    BY <1>1, <1>2, <1>3, <1>4 DEF IInv, TypeInv
  <1>7. LineInv'
    BY <1>1, <1>2, <1>3, <1>4 DEF LineInv
  <1>8. CountInv' /\ QueueBounded'
    BY <1>2, <1>3, <1>5, BulkheadAssumption DEF IInv, TypeInv, CountInv, QueueBounded
  <1>9. value' + Cardinality(Holders') + Cardinality(HandedIn(fut')) = MaxConcurrent
    <2>1. value + Cardinality(Holders) + Cardinality(HandedIn(fut)) = MaxConcurrent /\ value \in Nat
      BY Facts DEF IInv, TypeInv
    <2> QED BY <1>4, <1>5, <2>1, BulkheadAssumption
  <1> QED BY <1>4, <1>6, <1>7, <1>8, <1>9, Conserved DEF IInv

LEMMA ResumeCancelledKeeps ==
    ASSUME IInv, NEW t \in Tasks, ResumeCancelled(t)
    PROVE  IInv'
  <1> DEFINE ws == Without(waiters, t)
             f == [fut EXCEPT ![t] = "none"]
  <1>1. /\ t \in Blocked /\ ws \in Seq(Tasks) /\ f \in [Tasks -> FutureState]
        /\ \A i, j \in 1..Len(ws) : ws[i] = ws[j] => i = j
        /\ ToSet(ws) = Blocked \ {t}
        /\ PendingIn(f) = PendingIn(fut) \ {t} /\ PendingIn(f) \subseteq ToSet(ws)
        /\ HandedIn(f) = HandedIn(fut) \ {t}
        /\ \A u \in Tasks : f[u] = "none" <=> u \notin Blocked \ {t}
    BY LeavingLine DEF ResumeCancelled
  <1>2. /\ waiters' = ws /\ current' = current /\ LeaveQueue(t)
        /\ pc' = [pc EXCEPT ![t] = "out"]
        /\ IF t \in HandedIn(fut) THEN WakeUpNext(value + 1, ws, f)
                                  ELSE fut' = f /\ UNCHANGED value
    BY DEF ResumeCancelled, HandedIn
  <1> HIDE DEF ws, f
  <1>3. /\ waiting' = Cardinality(Queued') /\ waiting' <= waiting /\ waiting' \in Int
        /\ Blocked' = Blocked \ {t} /\ Holders' = Holders
        /\ pc' \in [Tasks -> {"out", "fast", "queued", "in"}]
    BY <1>1, <1>2, LeaveQueueCounts
  <1>4. /\ Handed = HandedIn(fut) /\ Handed' = HandedIn(fut')
        /\ Pending = PendingIn(fut) /\ Pending' = PendingIn(fut')
    BY DEF Handed, HandedIn, Pending, PendingIn
  <1>5. value \in Nat
    BY DEF IInv, TypeInv
  <1>6. /\ fut' \in [Tasks -> FutureState] /\ value' \in Nat
        /\ \A u \in Tasks : fut'[u] = "none" <=> f[u] = "none"
        /\ value' + Cardinality(HandedIn(fut')) = value + Cardinality(HandedIn(fut))
        /\ value' > 0 => PendingIn(fut') = {} \/ HandedIn(fut') # {}
    <2>1. CASE t \in HandedIn(fut)
      <3>1. Cardinality(HandedIn(f)) = Cardinality(HandedIn(fut)) - 1
        BY <1>1, <2>1, Counting DEF HandedIn
      <3>2. /\ fut' \in [Tasks -> FutureState] /\ value' \in Nat
            /\ \A u \in Tasks : fut'[u] = "none" <=> f[u] = "none"
            /\ value' + Cardinality(HandedIn(fut')) = value + 1 + Cardinality(HandedIn(f))
            /\ PendingIn(fut') = {} \/ HandedIn(fut') # {}
        <4>1. value + 1 \in Nat \ {0} /\ WakeUpNext(value + 1, ws, f)
          BY <1>2, <1>5, <2>1
        <4> QED BY <1>1, <4>1, WakeUpMovesOne
      <3>3. Cardinality(HandedIn(fut)) \in Nat /\ Cardinality(HandedIn(fut')) \in Nat
        BY Counting DEF HandedIn
      <3>4. value' + Cardinality(HandedIn(fut')) = value + Cardinality(HandedIn(fut))
        BY <1>5, <3>1, <3>2, <3>3
      <3> QED BY <3>2, <3>4
    <2>2. CASE t \notin HandedIn(fut)
      <3>1. fut' = f /\ value' = value /\ HandedIn(f) = HandedIn(fut)
        BY <1>1, <1>2, <2>2
      <3>2. value > 0 /\ PendingIn(fut) # {} => HandedIn(fut) # {}
        BY <1>4 DEF IInv, NoStrandedWaiter
      <3> QED BY <1>1, <1>5, <3>1, <3>2
    <2> QED BY <2>1, <2>2
  <1>7. TypeInv'
    BY <1>1, <1>2, <1>3, <1>6 DEF IInv, TypeInv
  <1>8. LineInv'
    BY <1>1, <1>2, <1>3, <1>6 DEF LineInv
  <1>9. CountInv' /\ QueueBounded'
    BY <1>2, <1>3, BulkheadAssumption DEF IInv, TypeInv, CountInv, QueueBounded
  <1>10. value' + Cardinality(Holders') + Cardinality(HandedIn(fut')) = MaxConcurrent
    <2>1. /\ value + Cardinality(Holders) + Cardinality(HandedIn(fut)) = MaxConcurrent
          /\ Cardinality(Holders) \in Nat /\ Cardinality(HandedIn(fut)) \in Nat
      BY Facts
    <2>2. Cardinality(HandedIn(fut')) \in Nat /\ Cardinality(Holders') = Cardinality(Holders)
      BY <1>3, Counting DEF HandedIn
    <2> QED BY <1>5, <1>6, <2>1, <2>2, BulkheadAssumption
  <1> QED BY <1>6, <1>7, <1>8, <1>9, <1>10, Conserved DEF IInv

LEMMA CancelKeeps ==
    ASSUME IInv, NEW t \in Tasks, Cancel(t)
    PROVE  IInv'
  <1> USE DEF Cancel
  <1>1. /\ fut' \in [Tasks -> FutureState]
        /\ \A u \in Tasks : fut'[u] = "none" <=> fut[u] = "none"
    BY DEF IInv, TypeInv, FutureState
  <1>2. Handed' = Handed /\ Pending' \subseteq Pending
    BY DEF IInv, TypeInv, Handed, Pending
  <1>3. Blocked' = Blocked /\ Holders' = Holders /\ Queued' = Queued
    BY DEF Blocked, Holders, Queued
  <1> QED BY <1>1, <1>2, <1>3
          DEF IInv, TypeInv, LineInv, CountInv, PermitConservation, NoStrandedWaiter, QueueBounded

LEMMA ExitKeeps ==
    ASSUME IInv, NEW t \in Tasks, Exit(t)
    PROVE  IInv'
  <1>1. /\ pc[t] = "in" /\ pc' = [pc EXCEPT ![t] = "out"] /\ current' = current - 1
        /\ WakeUpNext(value + 1, waiters, fut) /\ UNCHANGED <<waiters, waiting>>
    BY DEF Exit
  <1>2. value \in Nat /\ waiters \in Seq(Tasks) /\ fut \in [Tasks -> FutureState]
    BY DEF IInv, TypeInv
  <1>3. /\ fut' \in [Tasks -> FutureState] /\ value' \in Nat
        /\ \A u \in Tasks : fut'[u] = "none" <=> fut[u] = "none"
        /\ value' + Cardinality(HandedIn(fut')) = value + 1 + Cardinality(HandedIn(fut))
        /\ PendingIn(fut') = {} \/ HandedIn(fut') # {}
    BY <1>1, <1>2, Facts, WakeUpMovesOne
  <1>4. /\ Blocked' = Blocked /\ Queued' = Queued
        /\ t \in Holders /\ Holders' = Holders \ {t}
        /\ pc' \in [Tasks -> {"out", "fast", "queued", "in"}]
    BY <1>1 DEF IInv, TypeInv, Blocked, Queued, Holders
  <1>5. /\ Cardinality(Holders') = Cardinality(Holders) - 1
        /\ Cardinality(Holders) \in Nat
        /\ Cardinality(HandedIn(fut)) \in Nat /\ Cardinality(HandedIn(fut')) \in Nat
    BY <1>4, Facts, Counting DEF HandedIn
  <1>6. TypeInv' /\ CountInv' /\ QueueBounded'
    BY <1>1, <1>3, <1>4, <1>5, BulkheadAssumption
    DEF IInv, TypeInv, CountInv, QueueBounded
  <1>7. LineInv'
    BY <1>1, <1>3, <1>4 DEF IInv, LineInv
  <1>8. value' + Cardinality(Holders') + Cardinality(HandedIn(fut')) = MaxConcurrent
    <2>1. value + Cardinality(Holders) + Cardinality(HandedIn(fut)) = MaxConcurrent
      BY Facts
    <2> QED BY <1>2, <1>3, <1>5, <2>1, BulkheadAssumption
  <1> QED BY <1>3, <1>6, <1>7, <1>8, Conserved DEF IInv

LEMMA NextIInv == IInv /\ [Next]_vars => IInv'
  <1> SUFFICES ASSUME IInv, [Next]_vars
               PROVE  IInv'
    OBVIOUS
  <1>1. CASE UNCHANGED vars
    BY <1>1 DEF vars, IInv, TypeInv, LineInv, CountInv, PermitConservation,
                NoStrandedWaiter, QueueBounded, Blocked, Holders, Queued, Handed, Pending
  <1>2. CASE \E t \in Tasks : Reject(t)
    BY <1>1, <1>2 DEF Reject
  <1>3. CASE \E t \in Tasks : EnterNow(t) \/ EnterFast(t) \/ EnterQueue(t)
    BY <1>3, EnterNowKeeps, EnterFastKeeps, EnterQueueKeeps
  <1>4. CASE \E t \in Tasks : Run(t) \/ Cancel(t) \/ Exit(t)
    BY <1>4, ResumeKeeps, ResumeCancelledKeeps, CancelKeeps, ExitKeeps DEF Run
  <1> QED BY <1>1, <1>2, <1>3, <1>4 DEF Next

(* The invariant holds in every reachable state.                              *)
THEOREM Invariance == Spec => []IInv
  BY InitIInv, NextIInv, PTL DEF Spec

(* No release, hand-over or cancellation loses a permit or makes one up.      *)
THEOREM PermitsConserved == Spec => []PermitConservation
  <1>1. IInv => PermitConservation
    BY DEF IInv
  <1> QED BY <1>1, Invariance, PTL

(* stats() and the queue limit read the truth.                                *)
THEOREM CountersAreExact == Spec => []CountersExact
  <1>1. IInv => CountersExact
    BY DEF IInv, CountInv, CountersExact, Queued
  <1> QED BY <1>1, Invariance, PTL

(* A free permit beside a stranded waiter is always about to be passed on.    *)
THEOREM NobodyStranded == Spec => []NoStrandedWaiter
  <1>1. IInv => NoStrandedWaiter
    BY DEF IInv
  <1> QED BY <1>1, Invariance, PTL

(* The queue limit holds for the callers the waiting branch admits.           *)
THEOREM QueueIsBounded == Spec => []QueueBounded
  <1>1. IInv => QueueBounded
    BY DEF IInv
  <1> QED BY <1>1, Invariance, PTL

(* The line holds the blocked tasks, each once.                               *)
THEOREM LineIsBlocked == Spec => []WaitersAreBlocked
  <1>1. ASSUME IInv
        PROVE  WaitersAreBlocked
    <2> DEFINE n == Len(waiters)
    <2>1. /\ n \in Nat /\ waiters \in [1..n -> Blocked] /\ ToSet(waiters) = Blocked
          /\ ToSet(waiters) = {waiters[i] : i \in 1..n}
      <3>1. waiters \in [1..n -> Tasks] /\ DOMAIN waiters = 1..n /\ n \in Nat
        BY <1>1, LenProperties DEF IInv, TypeInv
      <3>2. ToSet(waiters) = {waiters[i] : i \in 1..n} /\ ToSet(waiters) = Blocked
        BY <1>1, <3>1 DEF ToSet, IInv, LineInv
      <3> QED BY <3>1, <3>2
    <2>2. waiters \in Bijection(1..n, Blocked)
      BY <1>1, <2>1 DEF Bijection, Injection, Surjection, IsInjective, IInv, LineInv
    <2>3. Cardinality(1..n) = n /\ IsFiniteSet(1..n)
      <3>1. 1 \in Int /\ n \in Int /\ (IF 1 > n THEN 0 ELSE n - 1 + 1) = n
        BY <2>1
      <3> HIDE DEF n
      <3>2. Cardinality(1..n) = (IF 1 > n THEN 0 ELSE n - 1 + 1) /\ IsFiniteSet(1..n)
        BY <3>1, FS_Interval, Zenon
      <3> QED BY <3>1, <3>2
    <2>4. Cardinality(Blocked) = n
      BY <2>2, <2>3, FS_Bijection DEF ExistsBijection
    <2> QED BY <1>1, <2>4 DEF WaitersAreBlocked, IInv, LineInv
  <1> QED BY <1>1, Invariance, PTL

(* Every variable keeps its type, _current and _value between 0 and the limit. *)
THEOREM TypeCorrect == Spec => []TypeOK
  <1>1. ASSUME IInv
        PROVE  TypeOK
    <2>1. /\ value + Cardinality(Holders) + Cardinality(HandedIn(fut)) = MaxConcurrent
          /\ Cardinality(Holders) \in Nat /\ Cardinality(HandedIn(fut)) \in Nat
      BY <1>1, Facts
    <2>2. value \in 0..MaxConcurrent /\ current \in 0..MaxConcurrent
      BY <1>1, <2>1, BulkheadAssumption DEF IInv, TypeInv, CountInv
    <2>3. waiting \in 0..Cardinality(Tasks)
      <3>1. Cardinality(Queued) <= Cardinality(Tasks)
        BY FS_Subset, BulkheadAssumption DEF Queued
      <3>2. Cardinality(Queued) \in Nat /\ Cardinality(Tasks) \in Nat
        BY Counting DEF Queued
      <3> QED BY <1>1, <3>1, <3>2 DEF IInv, CountInv
    <2> QED BY <1>1, <2>2, <2>3 DEF IInv, TypeInv, TypeOK
  <1> QED BY <1>1, Invariance, PTL

(* All of it at once: however entering, leaving, hand-over and cancellation   *)
(* interleave, permits, counters and the line of waiters agree.               *)
THEOREM StaysConsistent == Spec => []Consistent
  BY TypeCorrect, PermitsConserved, CountersAreExact, LineIsBlocked,
     NobodyStranded, QueueIsBounded, PTL DEF Consistent

-----------------------------------------------------------------------------
(* With max_queue_size = 0 no caller is ever made to wait: nobody can be in   *)
(* the semaphore's line, because a caller joins it only behind another or     *)
(* through the waiting branch, which admits nobody.  GuardedBackend rests on it. *)
THEOREM ZeroQueue == Spec => []ZeroQueueNeverBlocks
  <1>1. Init => ZeroQueueNeverBlocks
    BY DEF Init, ZeroQueueNeverBlocks
  <1>2. IInv /\ ZeroQueueNeverBlocks /\ [Next]_vars => ZeroQueueNeverBlocks'
    <2> SUFFICES ASSUME IInv, [Next]_vars, MaxQueue = 0, waiters = <<>>
                 PROVE  waiters' = <<>>
      BY DEF ZeroQueueNeverBlocks
    <2>1. ToSet(waiters) = {} /\ Blocked = {} /\ \A t \in Tasks : fut[t] = "none"
      BY DEF ToSet, IInv, LineInv
    <2>2. ASSUME NEW t \in Tasks, EnterFast(t) \/ EnterQueue(t)
          PROVE  FALSE
      <3>1. waiting \in Nat
        BY Counting DEF IInv, CountInv, Queued
      <3> QED BY <2>1, <2>2, <3>1 DEF EnterFast, EnterQueue, Locked, HasQueueRoom
    <2>3. ASSUME NEW t \in Tasks, Run(t)
          PROVE  FALSE
      BY <2>1, <2>3 DEF Run, Resume, ResumeCancelled
    <2>4. ASSUME NEW t \in Tasks, EnterNow(t) \/ Reject(t) \/ Cancel(t) \/ Exit(t)
          PROVE  waiters' = waiters
      BY <2>4 DEF EnterNow, Reject, Cancel, Exit, vars
    <2> QED BY <2>2, <2>3, <2>4 DEF Next, vars
  <1> QED BY <1>1, <1>2, Invariance, PTL DEF Spec

-----------------------------------------------------------------------------
(* Whoever is handed a permit is the first pending one of the line.           *)
LEMMA FirstIsHanded ==
    ASSUME NEW ws \in Seq(Tasks), NEW f \in [Tasks -> FutureState], NEW v,
           WakeUpNext(v, ws, f), NEW t \in Tasks, f[t] # "handed", fut'[t] = "handed"
    PROVE  \E k \in 1..Len(ws) : ws[k] = t /\ \A j \in 1..(k - 1) : f[ws[j]] # "pending"
  <1>1. t \in FirstPending(ws, f)
    BY DEF WakeUpNext
  <1> QED BY <1>1 DEF FirstPending

Behind(t) == \A i, j \in 1..Len(waiters) :
               waiters[j] = t /\ fut[waiters[i]] = "pending" => i >= j

LEMMA HandedInOrder ==
    ASSUME IInv, NEW v, WakeUpNext(v, waiters, fut),
           NEW t \in Tasks, fut[t] = "pending", fut'[t] = "handed"
    PROVE  Behind(t)
  <1>1. waiters \in Seq(Tasks) /\ fut \in [Tasks -> FutureState]
        /\ \A i, j \in 1..Len(waiters) : waiters[i] = waiters[j] => i = j
    BY DEF IInv, TypeInv, LineInv
  <1>2. PICK k \in 1..Len(waiters) :
          waiters[k] = t /\ \A j \in 1..(k - 1) : fut[waiters[j]] # "pending"
    BY <1>1, FirstIsHanded
  <1>3. ASSUME NEW i \in 1..Len(waiters), NEW j \in 1..Len(waiters),
               waiters[j] = t, fut[waiters[i]] = "pending"
        PROVE  i >= j
    <2>1. j = k /\ i \notin 1..(k - 1)
      BY <1>1, <1>2, <1>3
    <2> QED BY <1>1, <2>1, LenProperties
  <1> QED BY <1>3 DEF Behind

(* Also where the task that runs leaves the line first.                       *)
LEMMA HandedByAnother ==
    ASSUME IInv, NEW u \in Tasks, fut[u] # "none", fut[u] # "pending", NEW v,
           WakeUpNext(v, Without(waiters, u), [fut EXCEPT ![u] = "none"]),
           NEW t \in Tasks, fut[t] = "pending", fut'[t] = "handed"
    PROVE  Behind(t)
  <1> DEFINE ws == Without(waiters, u)
             f == [fut EXCEPT ![u] = "none"]
             n == Len(waiters)
  <1>1. /\ waiters \in Seq(Tasks) /\ fut \in [Tasks -> FutureState] /\ n \in Nat
        /\ \A i, j \in 1..n : waiters[i] = waiters[j] => i = j
        /\ u \in ToSet(waiters)
    BY LenProperties DEF IInv, TypeInv, LineInv
  <1>2. f \in [Tasks -> FutureState] /\ \A w \in Tasks : w # u => f[w] = fut[w]
    BY <1>1 DEF FutureState
  <1>3. ws \in Seq(Tasks) /\ Len(ws) = n - 1
    BY <1>1, WithoutProperties
  <1>4. PICK p \in 1..n :
          /\ waiters[p] = u
          /\ \A i \in 1..Len(ws) : ws[i] = IF i < p THEN waiters[i] ELSE waiters[i + 1]
    BY <1>1, WithoutProperties
  <1>5. f[t] # "handed" /\ WakeUpNext(v, ws, f)
    BY <1>1, <1>2
  <1> HIDE DEF ws, f, n
  <1>6. PICK k \in 1..Len(ws) : ws[k] = t /\ \A j \in 1..(k - 1) : f[ws[j]] # "pending"
    BY <1>2, <1>3, <1>5, FirstIsHanded
  <1>7. ASSUME NEW i \in 1..n, NEW j \in 1..n,
               waiters[j] = t, fut[waiters[i]] = "pending", i < j
        PROVE  FALSE
    <2>1. i # p /\ waiters[i] # u /\ waiters[i] \in Tasks
      BY <1>1, <1>4, <1>7 DEF n
    <2>2. j = IF k < p THEN k ELSE k + 1
      <3>1. k \in 1..n /\ k + 1 \in 1..n
        BY <1>1, <1>3
      <3>2. waiters[IF k < p THEN k ELSE k + 1] = t
        BY <1>4, <1>6
      <3> QED BY <1>1, <1>7, <3>1, <3>2
    <2> DEFINE q == IF i < p THEN i ELSE i - 1
    <2>3. q \in 1..(k - 1) /\ q \in 1..Len(ws)
      BY <1>1, <1>3, <1>7, <2>1, <2>2
    <2>4. ws[q] = waiters[i]
      BY <1>1, <1>4, <2>1, <2>3
    <2> QED BY <1>2, <1>6, <1>7, <2>1, <2>3, <2>4
  <1> QED BY <1>1, <1>7 DEF Behind, n

(* Permits go round in the order in which tasks came: one that comes enters   *)
(* only where nobody waits for a permit, and of those that wait the first is  *)
(* handed it, whatever is cancelled or passed on in between.                  *)
THEOREM ServedInOrder == Spec => NoOvertaking
  <1> DEFINE Ordered == \A t \in Tasks :
               /\ pc[t] = "out" /\ pc'[t] = "in" => Pending = {}
               /\ fut[t] = "pending" /\ fut'[t] = "handed" =>
                    \A i, j \in 1..Len(waiters) :
                      waiters[j] = t /\ fut[waiters[i]] = "pending" => i >= j
  <1>1. IInv /\ [Next]_vars => [Ordered]_vars
    <2> SUFFICES ASSUME IInv, Next, NEW t \in Tasks
                 PROVE  /\ pc[t] = "out" /\ pc'[t] = "in" => Pending = {}
                        /\ fut[t] = "pending" /\ fut'[t] = "handed" => Behind(t)
      BY DEF Behind
    <2>1. PICK u \in Tasks : \/ EnterNow(u) \/ EnterFast(u) \/ EnterQueue(u) \/ Reject(u)
                            \/ Run(u) \/ Cancel(u) \/ Exit(u)
      BY DEF Next
    <2>2. pc \in [Tasks -> {"out", "fast", "queued", "in"}] /\ fut \in [Tasks -> FutureState]
      BY DEF IInv, TypeInv
    <2>3. CASE EnterNow(u)
      <3>1. \A w \in ToSet(waiters) : fut[w] = "cancelled"
        BY <2>3 DEF EnterNow, Locked
      <3>2. Pending = {}
        BY <3>1, Facts DEF Pending
      <3> QED BY <2>3, <3>2 DEF EnterNow
    <2>4. CASE EnterFast(u) \/ EnterQueue(u)
      BY <2>2, <2>4 DEF EnterFast, EnterQueue, Block
    <2>5. CASE Reject(u)
      BY <2>5 DEF Reject, vars
    <2>6. CASE Resume(u)
      <3>1. fut[u] = "handed" /\ pc' = [pc EXCEPT ![u] = "in"]
        BY <2>6 DEF Resume
      <3>2. pc[u] # "out"
        BY <3>1, <2>2 DEF IInv, LineInv, Blocked
      <3>3. pc[t] = "out" => pc'[t] # "in"
        BY <2>2, <3>1, <3>2
      <3>4. CASE value > 0
        <4>1. WakeUpNext(value, Without(waiters, u), [fut EXCEPT ![u] = "none"])
          BY <2>6, <3>4 DEF Resume
        <4> QED BY <3>1, <3>3, <4>1, HandedByAnother
      <3>5. CASE ~(value > 0)
        <4>1. fut' = [fut EXCEPT ![u] = "none"]
          BY <2>6, <3>5 DEF Resume
        <4> QED BY <2>2, <3>3, <4>1
      <3> QED BY <3>4, <3>5
    <2>7. CASE ResumeCancelled(u)
      <3>1. fut[u] \in {"cancelled", "handedCancelled"} /\ pc' = [pc EXCEPT ![u] = "out"]
        BY <2>7 DEF ResumeCancelled
      <3>2. pc[t] = "out" => pc'[t] # "in"
        BY <2>2, <3>1
      <3>3. CASE fut[u] = "handedCancelled"
        <4>1. WakeUpNext(value + 1, Without(waiters, u), [fut EXCEPT ![u] = "none"])
          BY <2>7, <3>3 DEF ResumeCancelled
        <4> QED BY <3>1, <3>2, <4>1, HandedByAnother
      <3>4. CASE fut[u] # "handedCancelled"
        <4>1. fut' = [fut EXCEPT ![u] = "none"]
          BY <2>7, <3>4 DEF ResumeCancelled
        <4> QED BY <2>2, <3>2, <4>1
      <3> QED BY <3>3, <3>4
    <2>8. CASE Cancel(u)
      BY <2>2, <2>8 DEF Cancel
    <2>9. CASE Exit(u)
      <3>1. WakeUpNext(value + 1, waiters, fut) /\ pc' = [pc EXCEPT ![u] = "out"]
        BY <2>9 DEF Exit
      <3>2. pc[t] = "out" => pc'[t] # "in"
        BY <2>2, <3>1
      <3> QED BY <3>1, <3>2, HandedInOrder
    <2> QED BY <2>1, <2>3, <2>4, <2>5, <2>6, <2>7, <2>8, <2>9 DEF Run
  <1> QED BY <1>1, Invariance, PTL DEF Spec, NoOvertaking
==============================================================================

----------------------- MODULE RequestBatcher_proofs -----------------------
(* For any requests, batch size and queue limit: the safety properties of     *)
(* RequestBatcher that the run `batcher` checks on one instance, stop         *)
(* included.  The invariant adds to them what submit owes to the flushes: a   *)
(* request has no future before it is queued, so none that comes can be in    *)
(* the queue or in a batch already.                                           *)
EXTENDS RequestBatcher, SequenceTheorems, TLAPS

PCs == {"new", "direct", "waiting", "done"}
Futures == Outcome \cup {"none", "pending"}
Phases == {"up", "stopping", "flushing", "lastBatch", "stopped"}

\* A request is queued, or in a batch, only after submit made its future.
FutureFirst ==
    /\ \A r \in Requests : pc[r] \in {"new", "direct"} => fut[r] = "none"
    /\ \A f \in Flushers : \A r \in ToSet(flight[f]) : fut[r] # "none"

IInv == /\ TypeOK /\ ProcessedOnce /\ FutureFirst
        /\ NothingForgotten /\ FullBatchHasFlush

-----------------------------------------------------------------------------
(* Sequences                                                                  *)

\* Nothing is in an empty batch.
LEMMA EmptyBatch ==
    /\ <<>> \in Seq(Requests) /\ Len(<<>>) = 0
    /\ ToSet(<<>>) = {} /\ IsInjective(<<>>)
  BY DEF ToSet, IsInjective

\* Appending a newcomer keeps a sequence without repetitions.
LEMMA AppendNewcomer ==
    ASSUME NEW s \in Seq(Requests), NEW r \in Requests
    PROVE  /\ Append(s, r) \in Seq(Requests)
           /\ Len(Append(s, r)) = Len(s) + 1
           /\ ToSet(Append(s, r)) = ToSet(s) \cup {r}
           /\ IsInjective(s) /\ r \notin ToSet(s) => IsInjective(Append(s, r))
  <1> DEFINE a == Append(s, r)
  <1>1. /\ a \in Seq(Requests) /\ Len(a) = Len(s) + 1 /\ a[Len(s) + 1] = r
        /\ \A i \in 1..Len(s) : a[i] = s[i]
    BY AppendProperties
  <1>2. DOMAIN s = 1..Len(s) /\ DOMAIN a = 1..(Len(s) + 1) /\ Len(s) \in Nat
    BY <1>1, LenProperties
  <1> HIDE DEF a
  <1>3. ToSet(a) = ToSet(s) \cup {r}
    <2>1. ToSet(a) \subseteq ToSet(s) \cup {r}
      BY <1>1, <1>2 DEF ToSet
    <2>2. ToSet(s) \subseteq ToSet(a)
      BY <1>1, <1>2 DEF ToSet
    <2>3. r \in ToSet(a)
      BY <1>1, <1>2 DEF ToSet
    <2> QED BY <2>1, <2>2, <2>3
  <1>4. ASSUME IsInjective(s), r \notin ToSet(s)
        PROVE  IsInjective(a)
    <2>1. \A i \in 1..Len(s) : s[i] # r
      BY <1>2, <1>4 DEF ToSet
    <2>2. \A i, j \in 1..Len(s) : s[i] = s[j] => i = j
      BY <1>2, <1>4 DEF IsInjective
    <2> QED BY <1>1, <1>2, <2>1, <2>2 DEF IsInjective
  <1> QED BY <1>1, <1>3, <1>4 DEF a

\* What a sequence of requests holds are requests.
LEMMA ElementsAreRequests ==
    ASSUME NEW s \in Seq(Requests)
    PROVE  ToSet(s) \subseteq Requests
  BY LenProperties, ElementOfSeq DEF ToSet

-----------------------------------------------------------------------------
(* Every action keeps the invariant                                           *)

LEMMA InitEstablishes == Init => IInv
  <1> SUFFICES ASSUME Init PROVE IInv
    OBVIOUS
  <1> USE EmptyBatch DEF Init
  <1>1. \A f \in Flushers : flight[f] = <<>>
    OBVIOUS
  <1>2. TypeOK
    BY BatcherAssumption DEF TypeOK
  <1>3. ProcessedOnce
    BY <1>1 DEF ProcessedOnce
  <1>4. FutureFirst
    BY <1>1 DEF FutureFirst
  <1>5. NothingForgotten
    BY DEF NothingForgotten
  <1>6. FullBatchHasFlush
    BY BatcherAssumption DEF FullBatchHasFlush
  <1> QED BY <1>2, <1>3, <1>4, <1>5, <1>6 DEF IInv

\* The queue moves, whole, into a batch of its own.
LEMMA TakeQueueKeeps ==
    ASSUME IInv, NEW f \in Flushers, TakeQueue(f),
           spawned' \subseteq spawned, phase' \in Phases, phase' = "up" => phase = "up"
    PROVE  IInv'
  <1>1. /\ flight \in [Flushers -> Seq(Requests)] /\ queue \in Seq(Requests)
        /\ flight[f] = <<>> /\ queue' = <<>> /\ pc' = pc /\ fut' = fut
        /\ lock' = lock
    BY DEF IInv, TypeOK, TakeQueue
  <1>2. /\ flight' \in [Flushers -> Seq(Requests)]
        /\ flight'[f] = queue
        /\ \A g \in Flushers : g # f => flight'[g] = flight[g]
    BY <1>1 DEF TakeQueue
  <1>3. TypeOK'
    BY <1>1, <1>2, EmptyBatch, BatcherAssumption DEF IInv, TypeOK, Phases
  <1>4. ToSet(queue') = {} /\ IsInjective(queue') /\ Len(queue') = 0
    BY <1>1, EmptyBatch
  <1>5. ProcessedOnce'
    BY <1>2, <1>4 DEF IInv, ProcessedOnce
  <1>6. FutureFirst'
    BY <1>1, <1>2 DEF IInv, FutureFirst, ProcessedOnce
  <1>7. NothingForgotten'
    <2> SUFFICES ASSUME phase' = "up", NEW r \in Requests, fut'[r] = "pending"
                 PROVE  \E g \in Flushers : r \in ToSet(flight'[g])
      BY DEF NothingForgotten, InFlight
    <2>1. r \in ToSet(queue) \/ \E g \in Flushers : r \in ToSet(flight[g])
      BY <1>1 DEF IInv, NothingForgotten, InFlight
    <2>2. \A g \in Flushers : r \in ToSet(flight[g]) => g # f
      BY <1>1, EmptyBatch
    <2> QED BY <1>2, <2>1, <2>2
  <1>8. FullBatchHasFlush'
    BY <1>4, BatcherAssumption DEF FullBatchHasFlush
  <1> QED BY <1>3, <1>5, <1>6, <1>7, <1>8 DEF IInv

\* An action that leaves queue, batches and flush tasks alone, gives no request a
\* future that nobody resolves, and takes none away.
LEMMA CallerStepKeeps ==
    ASSUME IInv, UNCHANGED <<queue, spawned, flight, phase>>,
           lock' \subseteq Requests, pc' \in [Requests -> PCs],
           fut' \in [Requests -> Futures],
           \A r \in Requests : /\ fut'[r] = "pending" => fut[r] = "pending"
                               /\ fut'[r] = "none" => fut[r] = "none"
                               /\ pc'[r] \in {"new", "direct"} => fut'[r] = "none"
    PROVE  IInv'
  <1>1. TypeOK'
    BY DEF IInv, TypeOK, PCs, Futures
  <1>2. ToSet(queue) \subseteq Requests
    BY ElementsAreRequests DEF IInv, TypeOK
  <1>3. \A f \in Flushers : ToSet(flight[f]) \subseteq Requests
    BY ElementsAreRequests DEF IInv, TypeOK
  <1>4. ProcessedOnce'
    BY <1>2 DEF IInv, ProcessedOnce
  <1>5. FutureFirst'
    BY <1>3 DEF IInv, FutureFirst
  <1>6. NothingForgotten'
    BY DEF IInv, NothingForgotten, InFlight
  <1>7. FullBatchHasFlush'
    BY DEF IInv, FullBatchHasFlush
  <1> QED BY <1>1, <1>4, <1>5, <1>6, <1>7 DEF IInv

LEMMA EnqueueKeeps ==
    ASSUME IInv, NEW r \in Requests, Enqueue(r)
    PROVE  IInv'
  <1>1. /\ queue \in Seq(Requests) /\ flight \in [Flushers -> Seq(Requests)]
        /\ fut \in [Requests -> Futures] /\ pc \in [Requests -> PCs]
        /\ queue' = Append(queue, r) /\ flight' = flight /\ lock' = lock /\ phase' = phase
        /\ fut[r] = "none" /\ Len(queue) < MaxQueueSize
    BY BatcherAssumption, LenProperties
    DEF IInv, TypeOK, FutureFirst, Enqueue, QueueFull, Futures, PCs
  <1>2. /\ fut' \in [Requests -> Futures] /\ fut'[r] = "pending"
        /\ \A q \in Requests : q # r => fut'[q] = fut[q]
    BY <1>1 DEF Enqueue, Futures
  <1>3. /\ pc' \in [Requests -> PCs] /\ pc'[r] = "waiting"
        /\ \A q \in Requests : q # r => pc'[q] = pc[q]
    BY <1>1 DEF Enqueue, PCs
  <1>4. ToSet(queue) \subseteq Requests /\ r \notin ToSet(queue)
    BY <1>1, ElementsAreRequests DEF IInv, ProcessedOnce
  <1>5. \A f \in Flushers : ToSet(flight[f]) \subseteq Requests /\ r \notin ToSet(flight[f])
    BY <1>1, ElementsAreRequests DEF IInv, FutureFirst
  <1>6. /\ queue' \in Seq(Requests) /\ Len(queue') = Len(queue) + 1
        /\ ToSet(queue') = ToSet(queue) \cup {r} /\ IsInjective(queue')
    BY <1>1, <1>4, AppendNewcomer DEF IInv, ProcessedOnce
  <1>7. /\ spawned' \subseteq Requests
        /\ Len(queue') >= BatchSize => spawned' # {}
    BY DEF Enqueue, BatchFull, IInv, TypeOK
  <1>8. TypeOK'
    <2>1. Len(queue') <= MaxQueueSize
      BY <1>1, <1>6, BatcherAssumption, LenProperties
    <2> QED BY <1>1, <1>2, <1>3, <1>6, <1>7, <2>1 DEF IInv, TypeOK, PCs, Futures
  <1>9. ProcessedOnce'
    BY <1>1, <1>2, <1>4, <1>5, <1>6 DEF IInv, ProcessedOnce
  <1>10. FutureFirst'
    BY <1>1, <1>2, <1>3, <1>5 DEF IInv, FutureFirst
  <1>11. NothingForgotten'
    BY <1>1, <1>2, <1>6 DEF IInv, NothingForgotten, InFlight
  <1>12. FullBatchHasFlush'
    BY <1>7 DEF FullBatchHasFlush
  <1> QED BY <1>8, <1>9, <1>10, <1>11, <1>12 DEF IInv

\* The batch leaves the processor with no future of its own pending.
LEMMA ProcessedKeeps ==
    ASSUME IInv, NEW f \in Flushers, Processed(f)
    PROVE  IInv'
  <1>1. /\ flight \in [Flushers -> Seq(Requests)] /\ fut \in [Requests -> Futures]
        /\ queue' = queue /\ lock' = lock /\ pc' = pc /\ spawned' = spawned
    BY DEF IInv, TypeOK, Processed, Futures
  <1>2. PICK o \in {"result", "error"} : Resolve(flight[f], o)
    BY DEF Processed
  <1>3. /\ fut' \in [Requests -> Futures]
        /\ \A r \in Requests :
             fut'[r] = IF r \in ToSet(flight[f]) /\ fut[r] = "pending" THEN o ELSE fut[r]
    BY <1>1, <1>2 DEF Resolve, Futures, Outcome
  <1>4. /\ flight' \in [Flushers -> Seq(Requests)] /\ flight'[f] = <<>>
        /\ \A g \in Flushers : g # f => flight'[g] = flight[g]
    BY <1>1, EmptyBatch DEF Processed
  <1>5. phase' \in Phases /\ (phase' = "up" => phase = "up")
    BY DEF Processed, IInv, TypeOK, Phases
  <1>6. ToSet(queue) \subseteq Requests
        /\ \A g \in Flushers : ToSet(flight[g]) \subseteq Requests
    BY ElementsAreRequests DEF IInv, TypeOK
  <1>7. /\ ToSet(flight'[f]) = {} /\ IsInjective(flight'[f])
        /\ \A r \in Requests : fut[r] # "none" => fut'[r] # "none"
    BY <1>3, <1>4, EmptyBatch
  <1>8. TypeOK'
    BY <1>1, <1>3, <1>4, <1>5 DEF IInv, TypeOK, Futures, Phases
  <1>9. ProcessedOnce'
    BY <1>1, <1>4, <1>6, <1>7 DEF IInv, ProcessedOnce
  <1>10. FutureFirst'
    <2>1. \A r \in Requests : pc[r] \in {"new", "direct"} => fut'[r] = "none"
      BY <1>3 DEF IInv, FutureFirst
    <2>2. ASSUME NEW g \in Flushers, NEW r \in ToSet(flight'[g]) PROVE fut'[r] # "none"
      BY <1>4, <1>6, <1>7 DEF IInv, FutureFirst
    <2> QED BY <1>1, <2>1, <2>2 DEF FutureFirst
  <1>11. NothingForgotten'
    <2> SUFFICES ASSUME phase' = "up", NEW r \in Requests, fut'[r] = "pending",
                        r \notin ToSet(queue)
                 PROVE  \E g \in Flushers : r \in ToSet(flight'[g])
      BY <1>1 DEF NothingForgotten, InFlight
    <2>1. fut[r] = "pending" /\ r \notin ToSet(flight[f])
      BY <1>3
    <2>2. PICK g \in Flushers : r \in ToSet(flight[g])
      BY <1>5, <2>1 DEF IInv, NothingForgotten, InFlight
    <2> QED BY <1>4, <2>1, <2>2
  <1>12. FullBatchHasFlush'
    BY <1>1 DEF IInv, FullBatchHasFlush
  <1> QED BY <1>8, <1>9, <1>10, <1>11, <1>12 DEF IInv

\* The loop that stop cancels drops its batch; nothing is promised after that.
LEMMA StopKeeps ==
    ASSUME IInv, BeginStop \/ LoopEnds
    PROVE  IInv'
  <1>1. /\ queue' = queue /\ lock' = lock /\ pc' = pc /\ fut' = fut /\ spawned' = spawned
        /\ phase' \in Phases /\ phase' # "up"
    BY DEF BeginStop, LoopEnds, Phases
  <1>2. flight \in [Flushers -> Seq(Requests)]
    BY DEF IInv, TypeOK
  <1>3. /\ flight' \in [Flushers -> Seq(Requests)]
        /\ \A f \in Flushers : flight'[f] = flight[f] \/ flight'[f] = <<>>
    BY <1>2, EmptyBatch DEF BeginStop, LoopEnds
  <1>4. \A f \in Flushers : /\ ToSet(flight'[f]) \subseteq ToSet(flight[f])
                            /\ IsInjective(flight'[f])
    BY <1>3, EmptyBatch DEF IInv, ProcessedOnce
  <1>5. TypeOK'
    BY <1>1, <1>3 DEF IInv, TypeOK, Phases
  <1>6. ProcessedOnce'
    BY <1>1, <1>4 DEF IInv, ProcessedOnce
  <1>7. FutureFirst'
    BY <1>1, <1>4 DEF IInv, FutureFirst
  <1>8. NothingForgotten' /\ FullBatchHasFlush'
    BY <1>1 DEF IInv, NothingForgotten, FullBatchHasFlush
  <1> QED BY <1>5, <1>6, <1>7, <1>8 DEF IInv

LEMMA NextKeeps == IInv /\ [Next]_vars => IInv'
  <1> SUFFICES ASSUME IInv, [Next]_vars PROVE IInv'
    OBVIOUS
  <1>1. /\ pc \in [Requests -> PCs] /\ fut \in [Requests -> Futures]
        /\ lock \subseteq Requests /\ phase \in Phases /\ Requests \subseteq Flushers
        /\ Loop \in Flushers /\ Stopper \in Flushers
        /\ \A r \in Requests : pc[r] \in {"new", "direct"} => fut[r] = "none"
    BY DEF IInv, TypeOK, PCs, Futures, Phases, Flushers, FutureFirst
  <1>2. ASSUME NEW r \in Requests, Reject(r) PROVE IInv'
    BY <1>1, <1>2, CallerStepKeeps DEF Reject, PCs, Futures, Outcome
  <1>3. ASSUME NEW r \in Requests, BeginDirect(r) PROVE IInv'
    BY <1>1, <1>3, CallerStepKeeps DEF BeginDirect, PCs
  <1>4. ASSUME NEW r \in Requests, EndDirect(r) PROVE IInv'
    BY <1>1, <1>4, CallerStepKeeps DEF EndDirect, PCs, Futures, Outcome
  <1>5. ASSUME NEW r \in Requests, Cancel(r) PROVE IInv'
    BY <1>1, <1>5, CallerStepKeeps DEF Cancel, PCs, Futures, Outcome
  <1>6. ASSUME NEW r \in Requests, Wake(r) PROVE IInv'
    BY <1>1, <1>6, CallerStepKeeps DEF Wake, PCs
  <1>7. ASSUME NEW r \in Requests, Enqueue(r) PROVE IInv'
    BY <1>7, EnqueueKeeps
  <1>8. ASSUME NEW r \in Requests, SpawnedFlush(r) PROVE IInv'
    BY <1>1, <1>8, TakeQueueKeeps DEF SpawnedFlush
  <1>9. ASSUME LoopFlush PROVE IInv'
    BY <1>1, <1>9, TakeQueueKeeps DEF LoopFlush
  <1>10. ASSUME NEW f \in Flushers, Processed(f) PROVE IInv'
    BY <1>10, ProcessedKeeps
  <1>11. ASSUME BeginStop \/ LoopEnds PROVE IInv'
    BY <1>11, StopKeeps
  <1>12. ASSUME FinalFlush PROVE IInv'
    <2>1. spawned' = spawned /\ phase' \in Phases /\ phase' # "up" /\ TakeQueue(Stopper)
      BY <1>12 DEF FinalFlush, Phases
    <2> QED BY <1>1, <2>1, TakeQueueKeeps
  <1>13. CASE UNCHANGED vars
    BY <1>13 DEF vars, IInv, TypeOK, ProcessedOnce, FutureFirst, NothingForgotten, InFlight,
                 FullBatchHasFlush
  <1> QED BY <1>2, <1>3, <1>4, <1>5, <1>6, <1>7, <1>8, <1>9, <1>10, <1>11, <1>12, <1>13
          DEF Next, Serve, Stop, Submit

THEOREM Inductive == Spec => []IInv
  BY InitEstablishes, NextKeeps, PTL DEF Spec

-----------------------------------------------------------------------------
(* The theorems                                                               *)

\* The variables keep their types, and the queue never exceeds max_queue_size,
\* whatever requests, flushes and stop do between each other's awaits.
THEOREM TypeCorrect == Spec => []TypeOK
  <1>1. IInv => TypeOK
    BY DEF IInv
  <1> QED BY <1>1, Inductive, PTL

\* No request reaches the processor twice, however many flushes overlap.
THEOREM NoDuplicates == Spec => []ProcessedOnce
  <1>1. IInv => ProcessedOnce
    BY DEF IInv
  <1> QED BY <1>1, Inductive, PTL

\* Until stop is called, whoever awaits a future is in the queue or in a batch
\* that the processor has, whatever it answers and whoever is cancelled.
THEOREM NobodyForgotten == Spec => []NothingForgotten
  <1>1. IInv => NothingForgotten
    BY DEF IInv
  <1> QED BY <1>1, Inductive, PTL

\* A full batch has a flush task that was created for it and has not run.
THEOREM FullBatchesAreFlushed == Spec => []FullBatchHasFlush
  <1>1. IInv => FullBatchHasFlush
    BY DEF IInv
  <1> QED BY <1>1, Inductive, PTL

\* All of it at once: however flushes overlap, the queue, the batches and the
\* flush tasks agree.
THEOREM StaysConsistent == Spec => []Consistent
  BY TypeCorrect, NoDuplicates, FullBatchesAreFlushed, PTL DEF Consistent
=============================================================================

---------------------------- MODULE Engine_proofs ----------------------------
(* Proofs about the engine's services and the cache, for every value of their *)
(* constants: telemetry and the integrity guard, failover between nodes, what *)
(* is read at the start, the plugins, agents, the swarm's server, and the     *)
(* tiers of the cache.                                                        *)
EXTENDS EngineServices, TieredCache, FiniteSetTheorems, SequenceTheorems,
        WellFoundedInduction, TLAPS

(* Every step of the engine is a step of a service or leaves it alone.        *)
LEMMA OneServiceSteps ==
  ASSUME [EngineNext]_vars
  PROVE  /\ Life!LifespanNext \/ UNCHANGED life
         /\ Swarm!SwarmNext \/ UNCHANGED swarm
         /\ Node!NodeNext \/ UNCHANGED node
         /\ Agent!RouterNext \/ UNCHANGED router
         /\ Agent!TeamNext \/ UNCHANGED team
         /\ Observe!TelemetryNext \/ UNCHANGED telemetry
         /\ Observe!GuardNext \/ UNCHANGED guard
         /\ Config!ConfigNext \/ UNCHANGED config
         /\ Config!PhaseNext \/ UNCHANGED phases
         /\ Skill!SkillNext \/ UNCHANGED skills
         /\ Model!ModelNext \/ UNCHANGED model
         /\ Model!BackendNext \/ UNCHANGED backend
  BY DEF EngineNext, vars, agents, observers, startup

-----------------------------------------------------------------------------
(* Observers.                                                                 *)

SpanState == [pc : {"new", "inside", "done", "raised"}, old : Requests \cup {"none"}]

TelemetryTyped ==
  /\ span \in Requests \cup {"none"}
  /\ request \in [Requests -> SpanState]
  /\ samples \in Seq(Readings) /\ recorded \in Seq(Readings)

(* One request at most is in a span that found none, and while it is the      *)
(* thread has a span.                                                         *)
Outermost(r) == request[r].pc = "inside" /\ request[r].old = "none"
OneOutermost ==
  /\ \A r, q \in Requests : Outermost(r) /\ Outermost(q) => r = q
  /\ \A r \in Requests : Outermost(r) => span # "none"

TelemetryInv == TelemetryTyped /\ OneOutermost /\ Observe!SpansEndCleanly

LEMMA TelemetryStarts == EngineInit => TelemetryInv
  <1> SUFFICES ASSUME Observe!TelemetryInit PROVE TelemetryInv
    BY DEF EngineInit
  <1> USE DEF Observe!TelemetryInit
  <1>1. TelemetryTyped
    BY DEF TelemetryTyped, SpanState
  <1>2. OneOutermost
    BY DEF OneOutermost, Outermost
  <1>3. Observe!SpansEndCleanly
    BY ReadingsAssumption DEF Observe!SpansEndCleanly, Observe!Smaller, Observe!IsSuffix, Observe!IsPrefix, Observe!Reverse
  <1> QED BY <1>1, <1>2, <1>3 DEF TelemetryInv

LEMMA SpanStartKeeps ==
  ASSUME TelemetryInv, NEW r \in Requests, Observe!SpanStart(r)
  PROVE  TelemetryInv'
  <1> USE ReadingsAssumption DEF TelemetryInv
  <1>1. /\ request[r].pc = "new" /\ span' = r /\ UNCHANGED <<samples, recorded, sorted>>
        /\ request' = [request EXCEPT ![r] = [pc |-> "inside", old |-> span]]
    BY DEF Observe!SpanStart
  <1>2. TelemetryTyped'
    BY <1>1 DEF TelemetryTyped, SpanState
  <1>3. OneOutermost'
    BY <1>1 DEF TelemetryTyped, SpanState, OneOutermost, Outermost
  <1>4. Observe!SpansEndCleanly'
    BY <1>1 DEF TelemetryTyped, SpanState, Observe!SpansEndCleanly
  <1> QED BY <1>2, <1>3, <1>4

LEMMA SpanEndKeeps ==
  ASSUME TelemetryInv, NEW r \in Requests, Observe!SpanEnd(r)
  PROVE  TelemetryInv'
  <1> USE ReadingsAssumption DEF TelemetryInv
  <1>1. /\ request[r].pc = "inside" /\ UNCHANGED <<samples, recorded, sorted>>
        /\ request[r] \in SpanState
    BY DEF Observe!SpanEnd, TelemetryTyped
  <1>2. /\ span' = request[r].old
        /\ request' = [request EXCEPT ![r].pc = "done"]
    BY <1>1 DEF Observe!SpanEnd, OneOutermost, Outermost
  <1>3. TelemetryTyped'
    BY <1>1, <1>2 DEF TelemetryTyped, SpanState
  <1>4. OneOutermost'
    BY <1>1, <1>2 DEF TelemetryTyped, SpanState, OneOutermost, Outermost
  <1>5. Observe!SpansEndCleanly'
    BY <1>1, <1>2 DEF TelemetryTyped, SpanState, Observe!SpansEndCleanly
  <1> QED BY <1>3, <1>4, <1>5

(* A suffix, position by position.                                            *)
LEMMA SuffixByPosition ==
  ASSUME NEW S, NEW s \in Seq(S), NEW t \in Seq(S)
  PROVE  Observe!IsSuffix(s, t) <=>
           /\ Len(s) <= Len(t)
           /\ \A i \in 1..Len(s) : s[i] = t[Len(t) - Len(s) + i]
  <1> DEFINE r == Observe!Reverse(s)
             q == Observe!Reverse(t)
  <1>1. /\ r \in Seq(S) /\ Len(r) = Len(s) /\ q \in Seq(S) /\ Len(q) = Len(t)
        /\ \A i \in 1..Len(s) : r[i] = s[Len(s) - i + 1]
        /\ \A i \in 1..Len(t) : q[i] = t[Len(t) - i + 1]
    BY DEF Observe!Reverse
  <1> HIDE DEF r, q
  <1>2. Observe!IsSuffix(s, t) <=>
          Len(s) <= Len(t) /\ SubSeq(r, 1, Len(s)) = SubSeq(q, 1, Len(s))
    BY <1>1 DEF Observe!IsSuffix, Observe!IsPrefix, r, q
  <1>3. ASSUME Len(s) <= Len(t)
        PROVE  SubSeq(r, 1, Len(s)) = SubSeq(q, 1, Len(s)) <=>
                 \A i \in 1..Len(s) : r[i] = q[i]
    BY <1>1, <1>3
  <1>4. ASSUME Len(s) <= Len(t), NEW i \in 1..Len(s)
        PROVE  \E j \in 1..Len(s) :
                 /\ r[j] = s[i] /\ q[j] = t[Len(t) - Len(s) + i]
                 /\ r[i] = s[j] /\ q[i] = t[Len(t) - Len(s) + j]
    <2> DEFINE j == Len(s) - i + 1
    <2>1. j \in 1..Len(s) /\ j \in 1..Len(t) /\ i \in 1..Len(t) /\ Len(s) \in Nat /\ Len(t) \in Nat
      BY <1>4
    <2>2. /\ Len(s) - j + 1 = i /\ Len(t) - j + 1 = Len(t) - Len(s) + i
          /\ Len(t) - i + 1 = Len(t) - Len(s) + j
      BY <2>1
    <2>3. r[j] = s[Len(s) - j + 1] /\ q[j] = t[Len(t) - j + 1] /\ q[i] = t[Len(t) - i + 1]
      BY <1>1, <2>1
    <2>4. r[i] = s[j]
      BY <1>1
    <2>5. r[j] = s[i] /\ q[j] = t[Len(t) - Len(s) + i] /\ q[i] = t[Len(t) - Len(s) + j]
      BY <2>2, <2>3
    <2> HIDE DEF j
    <2> QED BY <2>1, <2>4, <2>5
  <1>5. ASSUME Len(s) <= Len(t)
        PROVE  (\A i \in 1..Len(s) : r[i] = q[i])
                 <=> \A i \in 1..Len(s) : s[i] = t[Len(t) - Len(s) + i]
    <2>1. ASSUME \A i \in 1..Len(s) : r[i] = q[i], NEW i \in 1..Len(s)
          PROVE  s[i] = t[Len(t) - Len(s) + i]
      <3>1. PICK j \in 1..Len(s) : r[j] = s[i] /\ q[j] = t[Len(t) - Len(s) + i]
        BY <1>4, <1>5
      <3> QED BY <2>1, <3>1
    <2>2. ASSUME \A i \in 1..Len(s) : s[i] = t[Len(t) - Len(s) + i], NEW i \in 1..Len(s)
          PROVE  r[i] = q[i]
      <3>1. PICK j \in 1..Len(s) : r[i] = s[j] /\ q[i] = t[Len(t) - Len(s) + j]
        BY <1>4, <1>5
      <3> QED BY <2>2, <3>1
    <2> QED BY <2>1, <2>2
  <1>6. CASE Len(s) <= Len(t)
    BY <1>2, <1>3, <1>5, <1>6
  <1>7. CASE ~(Len(s) <= Len(t))
    BY <1>2, <1>7
  <1> QED BY <1>6, <1>7

LEMMA RecordKeeps ==
  ASSUME TelemetryInv, NEW v \in Readings, Observe!RecordHistogram(v)
  PROVE  TelemetryInv'
  <1> USE ReadingsAssumption DEF TelemetryInv
  <1> DEFINE all == Append(samples, v)
  <1>1. /\ recorded' = Append(recorded, v) /\ UNCHANGED <<span, request, sorted>>
        /\ samples' = IF Len(all) > MaxSamples THEN Tail(all) ELSE all
        /\ samples \in Seq(Readings) /\ recorded \in Seq(Readings)
    BY DEF Observe!RecordHistogram, TelemetryTyped
  <1>2. /\ recorded' \in Seq(Readings) /\ Len(recorded') = Len(recorded) + 1
        /\ all \in Seq(Readings) /\ Len(all) = Len(samples) + 1
        /\ samples' \in Seq(Readings)
    BY <1>1
  <1>3. Len(samples') = Observe!Smaller(Len(recorded'), MaxSamples)
    BY <1>1, <1>2 DEF Observe!SpansEndCleanly, Observe!Smaller
  <1>4. ~sorted' => Observe!IsSuffix(samples', recorded')
    <2> SUFFICES ASSUME ~sorted
                 PROVE  /\ Len(samples') <= Len(recorded')
                        /\ \A i \in 1..Len(samples') :
                             samples'[i] = recorded'[Len(recorded') - Len(samples') + i]
      BY <1>1, <1>2, SuffixByPosition
    <2>1. /\ Len(samples) <= Len(recorded)
          /\ \A i \in 1..Len(samples) :
               samples[i] = recorded[Len(recorded) - Len(samples) + i]
      BY <1>1, SuffixByPosition DEF Observe!SpansEndCleanly
    <2>2. \A i \in 1..Len(all) : all[i] = recorded'[Len(recorded') - Len(all) + i]
      <3> SUFFICES ASSUME NEW i \in 1..Len(all)
                   PROVE  all[i] = recorded'[Len(recorded') - Len(all) + i]
        OBVIOUS
      <3>1. Len(recorded') - Len(all) = Len(recorded) - Len(samples)
        BY <1>1, <1>2
      <3>2. CASE i = Len(samples) + 1
        <4>1. Len(recorded) - Len(samples) + i = Len(recorded) + 1
          BY <3>2, <1>1
        <4> QED BY <3>1, <3>2, <4>1, <1>1, <1>2
      <3>3. CASE i # Len(samples) + 1
        <4> DEFINE k == Len(recorded) - Len(samples) + i
        <4>1. i \in 1..Len(samples) /\ k \in 1..Len(recorded)
          BY <3>3, <2>1, <1>1, <1>2
        <4>2. all[i] = samples[i] /\ recorded'[k] = recorded[k] /\ samples[i] = recorded[k]
          BY <4>1, <2>1, <1>1
        <4> QED BY <4>2, <3>1
      <3> QED BY <3>2, <3>3
    <2> HIDE DEF all
    <2>3. CASE Len(all) > MaxSamples
      <3>1. /\ Len(samples') = Len(all) - 1
            /\ \A i \in 1..Len(samples') : samples'[i] = all[i + 1]
        BY <2>3, <1>1, <1>2
      <3>0. Len(samples') <= Len(recorded')
        BY <3>1, <2>1, <1>1, <1>2
      <3>2. ASSUME NEW i \in 1..Len(samples')
            PROVE  samples'[i] = recorded'[Len(recorded') - Len(samples') + i]
        <4>1. /\ i + 1 \in 1..Len(all) /\ samples'[i] = all[i + 1]
              /\ Len(recorded') - Len(samples') + i = Len(recorded') - Len(all) + (i + 1)
          BY <3>1, <1>1, <1>2
        <4>2. all[i + 1] = recorded'[Len(recorded') - Len(all) + (i + 1)]
          BY <4>1, <2>2
        <4> QED BY <4>1, <4>2
      <3> QED BY <3>0, <3>2
    <2>4. CASE ~(Len(all) > MaxSamples)
      <3>1. samples' = all /\ Len(all) <= Len(recorded')
        BY <2>4, <2>1, <1>1, <1>2
      <3> QED BY <3>1, <2>2
    <2> QED BY <2>3, <2>4
  <1>5. OneOutermost'
    BY <1>1 DEF OneOutermost, Outermost
  <1> QED BY <1>1, <1>2, <1>3, <1>4, <1>5 DEF TelemetryTyped, Observe!SpansEndCleanly

LEMMA StatsKeep ==
  ASSUME TelemetryInv, Observe!HistogramStats
  PROVE  TelemetryInv'
  <1> USE DEF TelemetryInv
  <1>1. samples \in Seq(Readings) /\ UNCHANGED <<span, request, recorded>> /\ sorted'
    BY DEF TelemetryTyped, Observe!HistogramStats
  <1>2. PICK order \in [1..Len(samples) -> 1..Len(samples)] :
          samples' = [i \in 1..Len(samples) |-> samples[order[i]]]
    BY <1>1, SMTT(30) DEF Observe!HistogramStats, Observe!Bijection, Observe!Injection
  <1>3. samples' \in Seq(Readings) /\ Len(samples') = Len(samples)
    BY <1>1, <1>2
  <1> QED BY <1>1, <1>3 DEF TelemetryTyped, OneOutermost, Outermost, Observe!SpansEndCleanly

LEMMA TelemetrySteps == TelemetryInv /\ [EngineNext]_vars => TelemetryInv'
  <1> SUFFICES ASSUME TelemetryInv, Observe!TelemetryNext \/ UNCHANGED telemetry
               PROVE  TelemetryInv'
    BY OneServiceSteps
  <1> USE DEF TelemetryInv
  <1>1. ASSUME NEW r \in Requests, Observe!SpanStart(r) \/ Observe!SpanEnd(r)
        PROVE  TelemetryInv'
    BY <1>1, SpanStartKeeps, SpanEndKeeps
  <1>2. ASSUME NEW v \in Readings, Observe!RecordHistogram(v)
        PROVE  TelemetryInv'
    BY <1>2, RecordKeeps
  <1>3. CASE Observe!HistogramStats
    BY <1>3, StatsKeep
  <1>4. ASSUME NEW c \in Components, NEW s \in {"healthy", "degraded"}, Observe!Update(c, s)
        PROVE  TelemetryInv'
    <2>1. UNCHANGED <<span, request, samples, recorded, sorted>>
      BY <1>4 DEF Observe!Update
    <2> QED BY <2>1 DEF TelemetryTyped, OneOutermost, Outermost, Observe!SpansEndCleanly
  <1>5. CASE Observe!Clear
    <2>1. samples' = <<>> /\ recorded' = <<>> /\ UNCHANGED <<span, request>>
      BY <1>5 DEF Observe!Clear
    <2>2. Observe!IsSuffix(<<>>, <<>>) /\ Observe!Smaller(Len(<<>>), MaxSamples) = 0
      BY ReadingsAssumption DEF Observe!IsSuffix, Observe!IsPrefix, Observe!Reverse, Observe!Smaller
    <2> QED BY <2>1, <2>2 DEF TelemetryTyped, OneOutermost, Outermost, Observe!SpansEndCleanly
  <1>6. CASE UNCHANGED telemetry
    BY <1>6 DEF telemetry, TelemetryTyped, OneOutermost, Outermost, Observe!SpansEndCleanly
  <1> QED BY <1>1, <1>2, <1>3, <1>4, <1>5, <1>6 DEF Observe!TelemetryNext

-----------------------------------------------------------------------------
(* The integrity guard.                                                       *)

GuardTyped ==
  /\ missing \subseteq Observe!Items
  /\ seen \subseteq Observe!Items
  /\ checks \in Seq([item : STRING, status : {"ok", "degraded", "failed"}])

GuardInv == GuardTyped /\ Observe!VerdictTrue

LEMMA GuardStarts == EngineInit => GuardInv
  BY DEF EngineInit, Observe!GuardInit, GuardInv, GuardTyped, Observe!VerdictTrue

LEMMA OutcomeTells ==
  ASSUME NEW f
  PROVE  /\ Observe!Outcome(f) \in {"ok", "degraded", "failed"}
         /\ Observe!Outcome(f) = "ok" <=> f \notin missing
         /\ Observe!Outcome(f) = "failed" <=> f \in missing \ Fallbacks
  BY DEF Observe!Outcome

LEMMA VerifyAllKeeps ==
  ASSUME GuardInv, Observe!VerifyAllEcosystems
  PROVE  GuardInv'
  <1> USE DEF GuardInv
  <1> DEFINE new == [i \in DOMAIN Critical |->
                       [item |-> Critical[i], status |-> Observe!Outcome(Critical[i])]]
  <1>1. /\ checks' = checks \o new /\ seen' = missing /\ missing' = missing
        /\ overall' = IF Observe!CoreFails \/ \E e \in DOMAIN Needed : Observe!EcosystemFails(e)
                        THEN "failed" ELSE "ok"
    BY DEF Observe!VerifyAllEcosystems
  <1>2. Critical \in Seq(STRING) /\ DOMAIN Critical = 1..Len(Critical)
    BY EcosystemsAssumption
  <1>3. new \in Seq([item : STRING, status : {"ok", "degraded", "failed"}])
    BY <1>2, OutcomeTells
  <1>4. GuardTyped'
    BY <1>1, <1>3 DEF GuardTyped
  <1>5. missing \subseteq Observe!Range(Critical) \cup UNION Observe!Range(Needed)
    BY DEF GuardTyped, Observe!Items
  <1>6. overall' = "ok" => seen' \subseteq Fallbacks \cap Observe!Range(Critical)
    <2> SUFFICES ASSUME ~Observe!CoreFails, \A e \in DOMAIN Needed : ~Observe!EcosystemFails(e),
                        NEW f \in missing
                 PROVE  f \in Fallbacks \cap Observe!Range(Critical)
      BY <1>1
    <2>1. f \notin UNION Observe!Range(Needed)
      BY DEF Observe!EcosystemFails, Observe!Range
    <2>2. f \in Observe!Range(Critical)
      BY <2>1, <1>5
    <2> QED BY <2>2, OutcomeTells DEF Observe!CoreFails
  <1>7. overall' = "failed" => ~(seen' \subseteq Fallbacks)
    <2>1. CASE Observe!CoreFails
      BY <2>1, <1>1, OutcomeTells DEF Observe!CoreFails
    <2>2. CASE \E e \in DOMAIN Needed : Observe!EcosystemFails(e)
      BY <2>2, <1>1, EcosystemsAssumption DEF Observe!EcosystemFails
    <2> QED BY <2>1, <2>2, <1>1
  <1>8. ASSUME NEW f \in seen' \cap Observe!Range(Critical)
        PROVE  \E i \in DOMAIN checks' : checks'[i].item = f /\ checks'[i].status # "ok"
    <2>1. PICK j \in DOMAIN Critical : Critical[j] = f
      BY DEF Observe!Range
    <2>2. Observe!Outcome(Critical[j]) # "ok"
      BY <1>1, <1>8, <2>1, OutcomeTells
    <2> DEFINE i == Len(checks) + j
    <2>3. checks \in Seq([item : STRING, status : {"ok", "degraded", "failed"}])
      BY DEF GuardTyped
    <2>4. j \in 1..Len(new) /\ new[j] = [item |-> f, status |-> Observe!Outcome(Critical[j])]
      BY <1>2, <2>1
    <2> HIDE DEF new
    <2>5. i \in DOMAIN checks' /\ checks'[i] = new[j]
      BY <1>1, <1>3, <2>3, <2>4
    <2> QED BY <2>2, <2>4, <2>5
  <1> QED BY <1>4, <1>6, <1>7, <1>8 DEF Observe!VerdictTrue

LEMMA GuardSteps == GuardInv /\ [EngineNext]_vars => GuardInv'
  <1> SUFFICES ASSUME GuardInv, Observe!GuardNext \/ UNCHANGED guard
               PROVE  GuardInv'
    BY OneServiceSteps
  <1> USE DEF GuardInv
  <1>1. ASSUME NEW item \in Observe!Items, Observe!Changes(item)
        PROVE  GuardInv'
    BY <1>1 DEF Observe!Changes, GuardTyped, Observe!VerdictTrue, Observe!Items
  <1>2. ASSUME NEW f \in Observe!Range(Critical), Observe!VerifyAndGet(f)
        PROVE  GuardInv'
    <2> DEFINE check == [item |-> f, status |-> Observe!Outcome(f)]
    <2>1. checks' = Append(checks, check) /\ UNCHANGED <<missing, overall, seen>>
      BY <1>2 DEF Observe!VerifyAndGet
    <2>2. check \in [item : STRING, status : {"ok", "degraded", "failed"}]
      BY OutcomeTells, EcosystemsAssumption DEF Observe!Range
    <2>3. checks \in Seq([item : STRING, status : {"ok", "degraded", "failed"}])
      BY DEF GuardTyped
    <2> HIDE DEF check
    <2>4. \A i \in DOMAIN checks : i \in DOMAIN checks' /\ checks'[i] = checks[i]
      BY <2>1, <2>2, <2>3
    <2>5. GuardTyped'
      BY <2>1, <2>2 DEF GuardTyped, Observe!Items
    <2> QED BY <2>1, <2>4, <2>5 DEF Observe!VerdictTrue
  <1>3. CASE Observe!VerifyAllEcosystems
    BY <1>3, VerifyAllKeeps
  <1>4. CASE UNCHANGED guard
    BY <1>4 DEF guard, GuardTyped, Observe!VerdictTrue, Observe!Items
  <1> QED BY <1>1, <1>2, <1>3, <1>4 DEF Observe!GuardNext

(* Spans of interleaved requests never end with an AttributeError, histograms *)
(* hold the last samples, and the verdict of the integrity guard is the truth *)
(* about what was missing when it was given.                                  *)
THEOREM ObserversStaySound == EngineSpec => []ObserversSound
  <1>1. EngineInit => TelemetryInv /\ GuardInv
    BY TelemetryStarts, GuardStarts
  <1>2. TelemetryInv /\ GuardInv /\ [EngineNext]_vars => (TelemetryInv /\ GuardInv)'
    BY TelemetrySteps, GuardSteps
  <1>3. TelemetryInv /\ GuardInv => ObserversSound
    BY DEF TelemetryInv, GuardInv, ObserversSound
  <1> QED BY <1>1, <1>2, <1>3, PTL DEF EngineSpec

-----------------------------------------------------------------------------
(* A node's calls.                                                            *)

Writers == {"none", "open", "lost", "closing"}
Conn == [target : Targets, writer : Writers]
NodePC == {"idle", "closing", "connecting", "sending", "reconnecting", "draining",
           "sent", "exhausted", "raised"}
Place == [pc : NodePC, mine : Nat, start : Targets, try : 0..2]

NodeTyped ==
  /\ idx \in Targets /\ reach \subseteq Targets
  /\ conn \in Seq(Conn) /\ client \in 0..Len(conn)
  /\ call \in [Calls -> Place]
  /\ \A c \in Calls : call[c].mine \in 0..Len(conn)
  /\ arrived \in [Calls -> Nat] /\ refused \in [Calls -> SUBSET Targets]
  /\ shared \subseteq Calls

Runs(o) == o.pc \notin {"idle", "sent", "exhausted", "raised"}

(* A call at o has handed its vector over n times: less often than it tried.  *)
Tried(o, n) ==
  /\ o.pc = "idle" => n = 0
  /\ Runs(o) => o.try \in {1, 2} /\ n < o.try
  /\ n <= 2
  /\ o.pc \in {"closing", "connecting", "reconnecting", "draining"} => o.mine # 0

(* The targets from start up to, but not with, i in the order of the loop.    *)
Passed(start, i) ==
  {t \in Targets : IF start <= i THEN start <= t /\ t < i ELSE start <= t \/ t < i}

(* A call at o that had the node to itself: R are the targets that refused it *)
(* when the connections are k and the target is i.                            *)
InLoop(o, R, k, i) ==
  /\ o.pc = "closing" => o.start = i /\ R = {}
  /\ o.pc = "connecting" => k[o.mine].target = i /\ R = Passed(o.start, i)
  /\ o.pc = "exhausted" => R = Targets

(* Only the node's client u is connected, and a call at o works with it.      *)
OnlyOpen(k, u) == \A v \in DOMAIN k : k[v].writer = "open" => v = u
WorksWith(o, k, u) ==
  Runs(o) => /\ o.mine = u /\ u # 0
             /\ o.pc = "closing" => k[u].writer = "closing"
             /\ o.pc = "connecting" => k[u].writer = "none"

NodeInv ==
  /\ NodeTyped
  /\ \A c \in Calls : Tried(call[c], arrived[c])
  /\ \A c, d \in Calls : c # d /\ Runs(call[c]) /\ Runs(call[d]) => c \in shared
  /\ \A c \in Calls \ shared : InLoop(call[c], refused[c], conn, idx)
  /\ shared = {} =>
       /\ OnlyOpen(conn, client)
       /\ \A c \in Calls : WorksWith(call[c], conn, client)

LEMMA NodeCardinality == \A S : Node!Cardinality(S) = Cardinality(S)
  BY DEF Node!Cardinality, Cardinality

LEMMA TargetsRing ==
  /\ 0 \in Targets
  /\ \A i \in Targets : Node!After(i) \in Targets
  /\ \A s, i \in Targets :
       /\ Node!After(i) # s => Passed(s, i) \cup {i} = Passed(s, Node!After(i))
       /\ Node!After(i) = s => Passed(s, i) \cup {i} = Targets
  /\ \A s \in Targets : Passed(s, s) = {}
  <1> DEFINE n == Cardinality(Targets)
  <1>1. n \in Nat \ {0} /\ Targets = 0..(n - 1)
    BY TargetsAssumption, FS_CardinalityType, FS_EmptySet
  <1>2. Cardinality(Targets) = n
    OBVIOUS
  <1> HIDE DEF n
  <1>3. \A i \in 0..(n - 1) : (i + 1) % n = IF i = n - 1 THEN 0 ELSE i + 1
    BY <1>1
  <1>4. \A i \in Targets : Node!After(i) = IF i = n - 1 THEN 0 ELSE i + 1
    BY <1>1, <1>2, <1>3, NodeCardinality DEF Node!After
  <1>5. 0 \in Targets /\ \A i \in Targets : Node!After(i) \in Targets
    BY <1>1, <1>4
  <1>6. ASSUME NEW s \in Targets, NEW i \in Targets, Node!After(i) # s
        PROVE  Passed(s, i) \cup {i} = Passed(s, Node!After(i))
    <2> DEFINE j == Node!After(i)
    <2>1. j = IF i = n - 1 THEN 0 ELSE i + 1
      BY <1>4
    <2> HIDE DEF j
    <2>2. ASSUME NEW t \in Targets
          PROVE  t \in Passed(s, i) \cup {i} <=> t \in Passed(s, j)
      BY <1>1, <1>6, <2>1 DEF Passed, j
    <2> QED BY <2>2 DEF Passed, j
  <1>7. ASSUME NEW s \in Targets, NEW i \in Targets, Node!After(i) = s
        PROVE  Passed(s, i) \cup {i} = Targets
    <2>1. s = IF i = n - 1 THEN 0 ELSE i + 1
      BY <1>4, <1>7
    <2>2. ASSUME NEW t \in Targets
          PROVE  t \in Passed(s, i) \cup {i}
      BY <1>1, <2>1 DEF Passed
    <2> QED BY <2>2 DEF Passed
  <1>8. \A s \in Targets : Passed(s, s) = {}
    BY <1>1 DEF Passed
  <1> QED BY <1>5, <1>6, <1>7, <1>8

(* What a step of a call must leave for the invariant to hold again.          *)
LEMMA CallMoves ==
  ASSUME NodeInv, NEW c \in Calls, NEW o \in Place, NEW R \in SUBSET Targets,
         call' = [call EXCEPT ![c] = o], refused' = [refused EXCEPT ![c] = R],
         UNCHANGED reach, idx' \in Targets, conn' \in Seq(Conn),
         Len(conn') >= Len(conn), client' \in 0..Len(conn'), o.mine \in 0..Len(conn'),
         shared' \in SUBSET Calls, shared \subseteq shared',
         \A d \in Calls : d # c /\ d \notin shared' => ~Runs(call[d]),
         Runs(o) /\ (\E d \in Calls : d # c /\ Runs(call[d])) => c \in shared',
         NEW n \in Nat, arrived' = [arrived EXCEPT ![c] = n], Tried(o, n),
         c \notin shared' => InLoop(o, R, conn', idx'),
         shared' = {} => OnlyOpen(conn', client') /\ WorksWith(o, conn', client')
  PROVE  NodeInv'
  <1>1. /\ call \in [Calls -> Place] /\ refused \in [Calls -> SUBSET Targets]
        /\ arrived \in [Calls -> Nat] /\ conn \in Seq(Conn)
        /\ \A d \in Calls : call[d].mine \in 0..Len(conn)
    BY DEF NodeInv, NodeTyped
  <1>2. /\ call'[c] = o /\ refused'[c] = R /\ arrived'[c] = n
        /\ \A d \in Calls : d # c => /\ call'[d] = call[d] /\ refused'[d] = refused[d]
                                     /\ arrived'[d] = arrived[d]
    BY <1>1
  <1>3. NodeTyped'
    <2>1. \A d \in Calls : call'[d].mine \in 0..Len(conn')
      <3> SUFFICES ASSUME NEW d \in Calls
                   PROVE  call'[d].mine \in 0..Len(conn')
        OBVIOUS
      <3>1. CASE d = c
        BY <3>1, <1>2
      <3>2. CASE d # c
        <4>1. call[d].mine \in 0..Len(conn) /\ Len(conn) \in Nat /\ Len(conn') \in Nat
          BY <1>1
        <4> QED BY <4>1, <3>2, <1>2
      <3> QED BY <3>1, <3>2
    <2>2. /\ call' \in [Calls -> Place] /\ refused' \in [Calls -> SUBSET Targets]
          /\ arrived' \in [Calls -> Nat] /\ reach' \subseteq Targets
      BY <1>1 DEF NodeInv, NodeTyped
    <2> QED BY <2>1, <2>2 DEF NodeTyped
  <1>4. \A d \in Calls : Tried(call'[d], arrived'[d])
    BY <1>2 DEF NodeInv
  <1>5. \A d, e \in Calls : d # e /\ Runs(call'[d]) /\ Runs(call'[e]) => d \in shared'
    <2> SUFFICES ASSUME NEW d \in Calls, NEW e \in Calls, d # e,
                        Runs(call'[d]), Runs(call'[e])
                 PROVE  d \in shared'
      OBVIOUS
    <2>1. CASE d = c
      BY <2>1, <1>2
    <2>2. CASE d # c
      BY <2>2, <1>2
    <2> QED BY <2>1, <2>2
  <1>6. \A d \in Calls \ shared' : InLoop(call'[d], refused'[d], conn', idx')
    <2> SUFFICES ASSUME NEW d \in Calls \ shared'
                 PROVE  InLoop(call'[d], refused'[d], conn', idx')
      OBVIOUS
    <2>1. CASE d = c
      BY <2>1, <1>2
    <2>2. CASE d # c
      <3>1. ~Runs(call[d]) /\ InLoop(call[d], refused[d], conn, idx)
        BY <2>2 DEF NodeInv
      <3> QED BY <3>1, <2>2, <1>2 DEF Runs, InLoop
    <2> QED BY <2>1, <2>2
  <1>7. shared' = {} => /\ OnlyOpen(conn', client')
                        /\ \A d \in Calls : WorksWith(call'[d], conn', client')
    BY <1>2 DEF WorksWith
  <1> QED BY <1>3, <1>4, <1>5, <1>6, <1>7 DEF NodeInv

(* _get_client for target i, with connections k: a client in use, or the way  *)
(* to a new one.                                                              *)
LEMMA GetClientMoves ==
  ASSUME NodeTyped, NEW c \in Calls, NEW i \in Targets, NEW try \in {1, 2},
         NEW k \in Seq(Conn), Len(k) = Len(conn), try = 1 => k = conn,
         Node!GetClient(c, i, try, k)
  PROVE  \E o \in Place, R \in SUBSET Targets :
           /\ call' = [call EXCEPT ![c] = o] /\ refused' = [refused EXCEPT ![c] = R]
           /\ idx' \in Targets /\ conn' \in Seq(Conn) /\ Len(conn') >= Len(conn)
           /\ client' \in 0..Len(conn') /\ o.mine \in 0..Len(conn')
           /\ o.try = try /\ o.pc \in {"sending", "closing", "connecting"}
           /\ o.pc # "sending" => o.mine # 0
           /\ InLoop(o, R, conn', idx')
           /\ OnlyOpen(k, client) => OnlyOpen(conn', client') /\ WorksWith(o, conn', client')
  <1>0. /\ idx \in Targets /\ conn \in Seq(Conn) /\ Len(conn) \in Nat
        /\ client \in 0..Len(conn) /\ call \in [Calls -> Place]
        /\ refused \in [Calls -> SUBSET Targets]
    BY DEF NodeTyped
  <1>1. CASE try = 1 /\ Node!Active
    <2> DEFINE o == [pc |-> "sending", mine |-> client, start |-> i, try |-> try]
               R == refused[c]
    <2>1. /\ call' = [call EXCEPT ![c] = o] /\ conn' = k /\ UNCHANGED <<idx, client, refused>>
          /\ client # 0
      BY <1>1 DEF Node!GetClient, Node!Goes, Node!Active
    <2>2. o \in Place /\ R \in SUBSET Targets /\ refused' = [refused EXCEPT ![c] = R]
      BY <1>0, <2>1 DEF Place, NodePC
    <2>3. InLoop(o, R, conn', idx') /\ (OnlyOpen(k, client) =>
            OnlyOpen(conn', client') /\ WorksWith(o, conn', client'))
      BY <2>1 DEF InLoop, WorksWith
    <2>4. /\ o.mine \in 0..Len(conn') /\ o.try = try /\ o.pc = "sending"
          /\ idx' \in Targets /\ client' \in 0..Len(conn') /\ conn' \in Seq(Conn)
          /\ Len(conn') >= Len(conn)
      BY <2>1, <1>0
    <2> HIDE DEF o, R
    <2> QED BY <2>1, <2>2, <2>3, <2>4
  <1>2. CASE ~(try = 1 /\ Node!Active) /\ client # 0 /\ k[client].writer # "none"
    <2> DEFINE o == [pc |-> "closing", mine |-> client, start |-> i, try |-> try]
    <2>1. /\ call' = [call EXCEPT ![c] = o] /\ refused' = [refused EXCEPT ![c] = {}]
          /\ conn' = [k EXCEPT ![client].writer = "closing"] /\ idx' = i /\ client' = client
      BY <1>2 DEF Node!GetClient, Node!Goes
    <2>2. o \in Place
      BY <1>0 DEF Place, NodePC
    <2>3. client \in 1..Len(k) /\ k[client] \in Conn
      BY <1>0, <1>2
    <2>4. /\ conn' \in Seq(Conn) /\ Len(conn') = Len(conn) /\ conn'[client].writer = "closing"
          /\ DOMAIN conn' = DOMAIN k /\ \A v \in DOMAIN k : v # client => conn'[v] = k[v]
      BY <2>1, <2>3 DEF Conn, Writers
    <2>5. InLoop(o, {}, conn', idx') /\ (OnlyOpen(k, client) =>
            OnlyOpen(conn', client') /\ WorksWith(o, conn', client'))
      BY <2>1, <2>4, <1>2 DEF InLoop, OnlyOpen, WorksWith
    <2>6. /\ o.mine \in 0..Len(conn') /\ o.try = try /\ o.pc = "closing" /\ o.mine # 0
          /\ idx' \in Targets /\ client' \in 0..Len(conn') /\ Len(conn') >= Len(conn)
      BY <2>1, <2>4, <1>0, <1>2
    <2>7. {} \in SUBSET Targets
      OBVIOUS
    <2> HIDE DEF o
    <2> QED BY <2>1, <2>2, <2>4, <2>5, <2>6, <2>7
  <1>3. CASE ~(try = 1 /\ Node!Active) /\ ~(client # 0 /\ k[client].writer # "none")
    <2> DEFINE o == [pc |-> "connecting", mine |-> Len(conn) + 1, start |-> i, try |-> try]
               new == [target |-> i, writer |-> "none"]
    <2>1. /\ call' = [call EXCEPT ![c] = o] /\ refused' = [refused EXCEPT ![c] = {}]
          /\ conn' = Append(k, new) /\ idx' = i /\ client' = Len(conn) + 1
      BY <1>3 DEF Node!GetClient, Node!Attempt, Node!Goes
    <2>2. o \in Place /\ new \in Conn
      BY <1>0 DEF Place, NodePC, Conn, Writers
    <2>3. /\ conn' \in Seq(Conn) /\ Len(conn') = Len(conn) + 1 /\ conn'[Len(conn) + 1] = new
          /\ DOMAIN conn' = 1..(Len(conn) + 1)
          /\ \A v \in 1..Len(conn) : conn'[v] = k[v] /\ v \in DOMAIN k
      BY <2>1, <2>2, <1>0
    <2>4. InLoop(o, {}, conn', idx')
      BY <2>1, <2>3, TargetsRing DEF InLoop
    <2>5. ASSUME OnlyOpen(k, client)
          PROVE  OnlyOpen(conn', client') /\ WorksWith(o, conn', client')
      BY <2>1, <2>3, <2>5, <1>3, <1>0 DEF OnlyOpen, WorksWith
    <2>6. /\ o.mine \in 0..Len(conn') /\ o.try = try /\ o.pc = "connecting" /\ o.mine # 0
          /\ idx' \in Targets /\ client' \in 0..Len(conn') /\ Len(conn') >= Len(conn)
      BY <2>1, <2>3, <1>0
    <2>7. {} \in SUBSET Targets
      OBVIOUS
    <2> HIDE DEF o, new
    <2> QED BY <2>1, <2>2, <2>3, <2>4, <2>5, <2>6, <2>7
  <1> QED BY <1>1, <1>2, <1>3
(* A call that runs already moves: who runs beside it is known.               *)
LEMMA RunningMoves ==
  ASSUME NodeInv, NEW c \in Calls, Runs(call[c]), NEW o \in Place, NEW R \in SUBSET Targets,
         call' = [call EXCEPT ![c] = o], refused' = [refused EXCEPT ![c] = R],
         UNCHANGED <<reach, shared>>, idx' \in Targets, conn' \in Seq(Conn),
         Len(conn') >= Len(conn), client' \in 0..Len(conn'), o.mine \in 0..Len(conn'),
         NEW n \in Nat, arrived' = [arrived EXCEPT ![c] = n], Tried(o, n),
         c \notin shared => InLoop(o, R, conn', idx'),
         shared = {} => OnlyOpen(conn', client') /\ WorksWith(o, conn', client')
  PROVE  NodeInv'
  <1>1. shared' = shared /\ shared' \in SUBSET Calls
    BY DEF NodeInv, NodeTyped
  <1>2. \A d \in Calls : d # c /\ d \notin shared => ~Runs(call[d])
    BY DEF NodeInv
  <1>3. (\E d \in Calls : d # c /\ Runs(call[d])) => c \in shared
    BY DEF NodeInv
  <1> QED BY <1>1, <1>2, <1>3, CallMoves

(* What is known of a call that runs.                                         *)
LEMMA RunningCall ==
  ASSUME NodeInv, NEW c \in Calls, Runs(call[c])
  PROVE  /\ call[c] \in Place /\ call[c].try \in {1, 2}
         /\ call[c].mine \in 0..Len(conn) /\ Len(conn) \in Nat /\ conn \in Seq(Conn)
         /\ arrived[c] \in Nat /\ arrived[c] < call[c].try
         /\ arrived' = arrived => arrived' = [arrived EXCEPT ![c] = arrived[c]]
         /\ refused[c] \in SUBSET Targets
         /\ refused' = refused => refused' = [refused EXCEPT ![c] = refused[c]]
         /\ idx \in Targets /\ client \in 0..Len(conn)
         /\ call[c].pc \in {"closing", "connecting", "reconnecting", "draining"} =>
              call[c].mine \in 1..Len(conn) /\ conn[call[c].mine] \in Conn
         /\ c \notin shared => InLoop(call[c], refused[c], conn, idx)
         /\ shared = {} => OnlyOpen(conn, client) /\ WorksWith(call[c], conn, client)
  <1>1. /\ call \in [Calls -> Place] /\ conn \in Seq(Conn)
        /\ call[c].mine \in 0..Len(conn) /\ Len(conn) \in Nat
        /\ arrived \in [Calls -> Nat] /\ refused \in [Calls -> SUBSET Targets]
        /\ idx \in Targets /\ client \in 0..Len(conn)
    BY DEF NodeInv, NodeTyped
  <1>2. Tried(call[c], arrived[c])
    BY DEF NodeInv
  <1>3. /\ c \notin shared => InLoop(call[c], refused[c], conn, idx)
        /\ shared = {} => OnlyOpen(conn, client) /\ WorksWith(call[c], conn, client)
    BY DEF NodeInv
  <1>4. call[c].pc \in {"closing", "connecting", "reconnecting", "draining"} =>
          call[c].mine \in 1..Len(conn) /\ conn[call[c].mine] \in Conn
    BY <1>1, <1>2 DEF Tried
  <1> QED BY <1>1, <1>2, <1>3, <1>4 DEF Tried

(* A call is over.                                                            *)
LEMMA EndMoves ==
  ASSUME NodeInv, NEW c \in Calls, Runs(call[c]), NEW pc \in {"sent", "raised"},
         Node!Ends(c, pc), UNCHANGED <<reach, shared, idx, client, refused>>,
         conn' \in Seq(Conn), Len(conn') = Len(conn),
         OnlyOpen(conn, client) => OnlyOpen(conn', client),
         NEW n \in Nat, arrived' = [arrived EXCEPT ![c] = n], n <= call[c].try
  PROVE  NodeInv'
  <1> DEFINE o == [pc |-> pc, mine |-> 0, start |-> call[c].start, try |-> call[c].try]
  <1>1. call' = [call EXCEPT ![c] = o]
    BY DEF Node!Ends, Node!Goes
  <1>2. /\ call[c] \in Place /\ call[c].try \in {1, 2} /\ Len(conn) \in Nat
        /\ refused[c] \in SUBSET Targets /\ refused' = [refused EXCEPT ![c] = refused[c]]
        /\ idx' \in Targets /\ client' \in 0..Len(conn)
        /\ shared = {} => OnlyOpen(conn', client')
    BY RunningCall
  <1>3. o \in Place
    BY <1>2 DEF Place, NodePC
  <1>4. Tried(o, n) /\ o.mine \in 0..Len(conn')
    BY <1>2 DEF Tried, Runs
  <1>5. InLoop(o, refused[c], conn', idx') /\ WorksWith(o, conn', client')
    BY DEF InLoop, WorksWith, Runs
  <1>6. client' \in 0..Len(conn') /\ Len(conn') >= Len(conn)
    BY <1>2
  <1> HIDE DEF o
  <1> QED BY <1>1, <1>2, <1>3, <1>4, <1>5, <1>6, RunningMoves

(* A send has failed.                                                         *)
LEMMA FailsMoves ==
  ASSUME NodeInv, NEW c \in Calls, Runs(call[c]), NEW k \in Seq(Conn),
         Len(k) = Len(conn), OnlyOpen(conn, client) => OnlyOpen(k, client),
         Node!Fails(c, k), UNCHANGED <<reach, shared>>,
         NEW n \in Nat, arrived' = [arrived EXCEPT ![c] = n], n <= call[c].try
  PROVE  NodeInv'
  <1>1. CASE call[c].try = 1
    <2>1. Node!GetClient(c, Node!After(idx), 2, k) /\ Node!After(idx) \in Targets
      BY <1>1, RunningCall, TargetsRing DEF Node!Fails
    <2>2. PICK o \in Place, R \in SUBSET Targets :
           /\ call' = [call EXCEPT ![c] = o] /\ refused' = [refused EXCEPT ![c] = R]
           /\ idx' \in Targets /\ conn' \in Seq(Conn) /\ Len(conn') >= Len(conn)
           /\ client' \in 0..Len(conn') /\ o.mine \in 0..Len(conn')
           /\ o.try = 2 /\ o.pc \in {"sending", "closing", "connecting"}
           /\ o.pc # "sending" => o.mine # 0
           /\ InLoop(o, R, conn', idx')
           /\ OnlyOpen(k, client) => OnlyOpen(conn', client') /\ WorksWith(o, conn', client')
      <3>1. NodeTyped /\ 2 \in {1, 2} /\ (2 = 1 => k = conn)
        BY DEF NodeInv
      <3> QED BY ONLY <3>1, <2>1, GetClientMoves, Len(k) = Len(conn), k \in Seq(Conn), c \in Calls
    <2>3. Tried(o, n)
      BY <2>2, <1>1 DEF Tried
    <2>4. shared = {} => OnlyOpen(conn', client') /\ WorksWith(o, conn', client')
      BY <2>2, RunningCall
    <2> QED BY <2>2, <2>3, <2>4, RunningMoves
  <1>2. CASE call[c].try # 1
    BY <1>2, EndMoves DEF Node!Fails
  <1> QED BY <1>1, <1>2

-----------------------------------------------------------------------------
(* The steps of a call.                                                       *)

LEMMA StreamVectorKeeps ==
  ASSUME NodeInv, NEW c \in Calls, Node!StreamVector(c)
  PROVE  NodeInv'
  <1>1. /\ call[c].pc = "idle" /\ Node!GetClient(c, idx, 1, conn) /\ UNCHANGED <<reach, arrived>>
        /\ shared' = LET others == {d \in Calls : Node!Running(d)}
                     IN IF others = {} THEN shared ELSE shared \cup others \cup {c}
    BY DEF Node!StreamVector
  <1>2. NodeTyped /\ 1 \in {1, 2} /\ conn \in Seq(Conn) /\ idx \in Targets
    BY DEF NodeInv, NodeTyped
  <1>3. PICK o \in Place, R \in SUBSET Targets :
           /\ call' = [call EXCEPT ![c] = o] /\ refused' = [refused EXCEPT ![c] = R]
           /\ idx' \in Targets /\ conn' \in Seq(Conn) /\ Len(conn') >= Len(conn)
           /\ client' \in 0..Len(conn') /\ o.mine \in 0..Len(conn')
           /\ o.try = 1 /\ o.pc \in {"sending", "closing", "connecting"}
           /\ o.pc # "sending" => o.mine # 0
           /\ InLoop(o, R, conn', idx')
           /\ OnlyOpen(conn, client) => OnlyOpen(conn', client') /\ WorksWith(o, conn', client')
    BY <1>1, <1>2, GetClientMoves
  <1>4. /\ arrived[c] = 0 /\ arrived' = [arrived EXCEPT ![c] = 0]
    BY <1>1, <1>2 DEF NodeInv, NodeTyped, Tried
  <1>5. Tried(o, 0)
    BY <1>3 DEF Tried
  <1>6. \A d \in Calls : Node!Running(d) <=> Runs(call[d])
    BY DEF Node!Running, Runs
  <1>7. /\ shared' \in SUBSET Calls /\ shared \subseteq shared'
        /\ \A d \in Calls : d # c /\ d \notin shared' => ~Runs(call[d])
        /\ (\E d \in Calls : d # c /\ Runs(call[d])) => c \in shared'
    BY <1>1, <1>6, <1>2 DEF NodeTyped
  <1>8. shared' = {} => OnlyOpen(conn', client') /\ WorksWith(o, conn', client')
    BY <1>7, <1>3 DEF NodeInv
  <1>9. /\ c \notin shared' => InLoop(o, R, conn', idx')
        /\ Runs(o) /\ (\E d \in Calls : d # c /\ Runs(call[d])) => c \in shared'
        /\ reach' = reach /\ 0 \in Nat
    BY <1>1, <1>3, <1>7
  <1> QED BY <1>3, <1>4, <1>5, <1>7, <1>8, <1>9, CallMoves

(* A turn of the loop in _get_client.                                         *)
LEMMA AttemptMoves ==
  ASSUME NodeInv, NEW c \in Calls, Runs(call[c]), NEW start \in Targets, NEW i \in Targets,
         NEW k \in Seq(Conn), Len(k) = Len(conn), Node!Attempt(c, start, i, call[c].try, k),
         NEW R \in SUBSET Targets, refused' = [refused EXCEPT ![c] = R],
         UNCHANGED <<reach, shared, arrived>>,
         c \notin shared => R = Passed(start, i),
         shared = {} => \A v \in DOMAIN k : k[v].writer # "open"
  PROVE  NodeInv'
  <1> DEFINE o == [pc |-> "connecting", mine |-> Len(conn) + 1, start |-> start,
                   try |-> call[c].try]
             new == [target |-> i, writer |-> "none"]
  <1>1. /\ call' = [call EXCEPT ![c] = o] /\ conn' = Append(k, new)
        /\ idx' = i /\ client' = Len(conn) + 1
    BY DEF Node!Attempt, Node!Goes
  <1>0. /\ call[c] \in Place /\ call[c].try \in {1, 2} /\ Len(conn) \in Nat
        /\ arrived[c] \in Nat /\ arrived[c] < call[c].try
        /\ arrived' = [arrived EXCEPT ![c] = arrived[c]]
    BY RunningCall
  <1>2. o \in Place /\ new \in Conn /\ Len(conn) \in Nat /\ Tried(o, arrived[c])
    <2>1. o \in Place
      BY <1>0 DEF Place, NodePC
    <2>2. new \in Conn
      BY DEF Conn, Writers
    <2>3. Tried(o, arrived[c])
      BY <1>0 DEF Tried, Runs
    <2> QED BY <2>1, <2>2, <2>3, <1>0
  <1>3. /\ conn' \in Seq(Conn) /\ Len(conn') = Len(conn) + 1 /\ conn'[Len(conn) + 1] = new
        /\ DOMAIN conn' = 1..(Len(conn) + 1)
        /\ \A v \in 1..Len(conn) : conn'[v] = k[v] /\ v \in DOMAIN k
    BY <1>1, <1>2
  <1>4. c \notin shared => InLoop(o, R, conn', idx')
    BY <1>1, <1>3 DEF InLoop
  <1>5. shared = {} => OnlyOpen(conn', client') /\ WorksWith(o, conn', client')
    BY <1>1, <1>2, <1>3 DEF OnlyOpen, WorksWith
  <1>6. o.mine \in 0..Len(conn') /\ client' \in 0..Len(conn') /\ Len(conn') >= Len(conn)
    BY <1>1, <1>2, <1>3
  <1> HIDE DEF o, new
  <1> QED BY <1>0, <1>1, <1>2, <1>3, <1>4, <1>5, <1>6, RunningMoves

LEMMA ClosedKeeps ==
  ASSUME NodeInv, NEW c \in Calls, Node!Closed(c)
  PROVE  NodeInv'
  <1> DEFINE k == [conn EXCEPT ![call[c].mine].writer = "none"]
  <1>1. /\ call[c].pc = "closing" /\ UNCHANGED <<reach, arrived, refused, shared>>
        /\ Runs(call[c])
    BY DEF Node!Closed, Runs
  <1>2. /\ conn \in Seq(Conn) /\ call[c].mine \in 1..Len(conn) /\ conn[call[c].mine] \in Conn
        /\ c \notin shared => call[c].start = idx /\ refused[c] = {}
        /\ idx \in Targets
        /\ shared = {} => /\ call[c].mine = client /\ OnlyOpen(conn, client)
      BY <1>1, RunningCall DEF InLoop, WorksWith
  <1>3. CASE Node!Attempt(c, idx, idx, call[c].try, k)
    <2>1. /\ k \in Seq(Conn) /\ Len(k) = Len(conn) /\ DOMAIN k = DOMAIN conn
          /\ k[call[c].mine].writer = "none"
          /\ \A v \in DOMAIN k : v # call[c].mine => k[v] = conn[v]
      BY <1>2 DEF Conn, Writers
    <2>2. shared = {} => \A v \in DOMAIN k : k[v].writer # "open"
      BY <2>1, <1>2 DEF OnlyOpen
    <2>3. c \notin shared => refused[c] = Passed(idx, idx)
      BY <1>2, TargetsRing
    <2>4. refused[c] \in SUBSET Targets /\ refused' = [refused EXCEPT ![c] = refused[c]]
      BY <1>1, RunningCall
    <2>5. UNCHANGED <<reach, shared, arrived>> /\ Runs(call[c]) /\ idx \in Targets
      BY <1>1, <1>2
    <2>6. k \in Seq(Conn) /\ Len(k) = Len(conn)
      BY <2>1
    <2> HIDE DEF k
    <2> QED BY <1>3, <2>2, <2>3, <2>4, <2>5, <2>6, AttemptMoves
  <1>4. CASE Node!Ends(c, "raised") /\ UNCHANGED <<idx, client, conn>>
    <2>1. arrived[c] \in Nat /\ arrived' = [arrived EXCEPT ![c] = arrived[c]]
          /\ arrived[c] <= call[c].try
      BY <1>1, RunningCall
    <2> QED BY <2>1, <1>1, <1>2, <1>4, EndMoves
  <1> QED BY <1>3, <1>4 DEF Node!Closed

LEMMA RefusedKeeps ==
  ASSUME NodeInv, NEW c \in Calls, Node!Refused(c)
  PROVE  NodeInv'
  <1> DEFINE t == conn[call[c].mine].target
             R == refused[c] \cup {t}
  <1>1. /\ call[c].pc = "connecting" /\ UNCHANGED <<reach, arrived, shared>>
        /\ refused' = [refused EXCEPT ![c] = R] /\ Runs(call[c])
    BY DEF Node!Refused, Runs
  <1>2. /\ conn \in Seq(Conn) /\ call[c].mine \in 1..Len(conn) /\ conn[call[c].mine] \in Conn
        /\ idx \in Targets /\ Node!After(idx) \in Targets /\ call[c] \in Place
        /\ c \notin shared => t = idx /\ refused[c] = Passed(call[c].start, idx)
        /\ shared = {} => /\ call[c].mine = client /\ OnlyOpen(conn, client)
                          /\ conn[client].writer = "none"
        /\ refused[c] \in SUBSET Targets
    BY <1>1, RunningCall, TargetsRing DEF InLoop, WorksWith
  <1>3. call[c].start \in Targets /\ R \in SUBSET Targets
    BY <1>2 DEF Conn, Place
  <1>4. CASE Node!After(idx) = call[c].start
    <2> DEFINE o == [pc |-> "exhausted", mine |-> 0, start |-> call[c].start, try |-> call[c].try]
    <2>1. /\ call' = [call EXCEPT ![c] = o] /\ idx' = Node!After(idx) /\ UNCHANGED <<client, conn>>
      BY <1>4 DEF Node!Refused, Node!Ends, Node!Goes
    <2>0. /\ call[c].try \in {1, 2} /\ Len(conn) \in Nat /\ client \in 0..Len(conn)
          /\ arrived[c] \in Nat /\ arrived[c] < call[c].try
          /\ arrived' = [arrived EXCEPT ![c] = arrived[c]]
      BY <1>1, RunningCall
    <2>2. o \in Place
      BY <2>0, <1>3 DEF Place, NodePC
    <2>6. Tried(o, arrived[c]) /\ o.mine \in 0..Len(conn)
      BY <2>0 DEF Tried, Runs
    <2>3. c \notin shared => R = Targets
      BY <1>2, <1>3, <1>4, TargetsRing
    <2>4. c \notin shared => InLoop(o, R, conn', idx')
      BY <2>3 DEF InLoop
    <2>5. WorksWith(o, conn', client')
      BY DEF WorksWith, Runs
    <2>7. /\ conn' \in Seq(Conn) /\ Len(conn') >= Len(conn) /\ client' \in 0..Len(conn')
          /\ idx' \in Targets /\ o.mine \in 0..Len(conn') /\ shared' = shared /\ reach' = reach
          /\ shared = {} => OnlyOpen(conn', client')
      BY <2>0, <2>1, <2>6, <1>1, <1>2
    <2> HIDE DEF o, R
    <2> QED BY <1>1, <1>3, <2>0, <2>1, <2>2, <2>4, <2>5, <2>6, <2>7, RunningMoves
  <1>5. CASE Node!After(idx) # call[c].start
    <2>1. Node!Attempt(c, call[c].start, Node!After(idx), call[c].try, conn)
      BY <1>5 DEF Node!Refused
    <2>2. c \notin shared => R = Passed(call[c].start, Node!After(idx))
      BY <1>2, <1>3, <1>5, TargetsRing
    <2>3. shared = {} => \A v \in DOMAIN conn : conn[v].writer # "open"
      BY <1>2 DEF OnlyOpen
    <2> HIDE DEF R
    <2> QED BY <1>1, <1>2, <1>3, <2>1, <2>2, <2>3, AttemptMoves
  <1> QED BY <1>4, <1>5

LEMMA ConnectedKeeps ==
  ASSUME NodeInv, NEW c \in Calls, Node!Connected(c) \/ Node!Reconnected(c),
         conn[call[c].mine].target \in reach
  PROVE  NodeInv'
  <1> DEFINE pc == IF call[c].pc = "connecting" THEN "sending" ELSE "draining"
             m == IF call[c].pc = "connecting" THEN client ELSE call[c].mine
             o == [pc |-> pc, mine |-> m, start |-> call[c].start, try |-> call[c].try]
  <1>1. /\ call[c].pc \in {"connecting", "reconnecting"} /\ Runs(call[c])
        /\ conn' = [conn EXCEPT ![call[c].mine].writer = "open"]
        /\ call' = [call EXCEPT ![c] = o]
        /\ UNCHANGED <<idx, client, reach, arrived, refused, shared>>
    BY DEF Node!Connected, Node!Reconnected, Node!Goes, Runs
  <1>2. /\ conn \in Seq(Conn) /\ call[c].mine \in 1..Len(conn) /\ conn[call[c].mine] \in Conn
        /\ idx \in Targets /\ call[c] \in Place /\ client \in 0..Len(conn) /\ Len(conn) \in Nat
        /\ call[c].try \in {1, 2} /\ arrived[c] \in Nat /\ arrived[c] < call[c].try
        /\ arrived' = [arrived EXCEPT ![c] = arrived[c]]
        /\ refused[c] \in SUBSET Targets /\ refused' = [refused EXCEPT ![c] = refused[c]]
        /\ shared = {} => OnlyOpen(conn, client) /\ call[c].mine = client
    BY <1>1, RunningCall DEF WorksWith
  <1>3. /\ conn' \in Seq(Conn) /\ Len(conn') = Len(conn) /\ DOMAIN conn' = DOMAIN conn
        /\ \A v \in DOMAIN conn : v # call[c].mine => conn'[v] = conn[v]
    BY <1>1, <1>2 DEF Conn, Writers
  <1>4. o \in Place
    BY <1>2 DEF Place, NodePC
  <1>5. Tried(o, arrived[c]) /\ o.mine \in 0..Len(conn') /\ InLoop(o, refused[c], conn', idx')
    BY <1>1, <1>2, <1>3 DEF Tried, Runs, InLoop
  <1>6. shared = {} => OnlyOpen(conn', client') /\ WorksWith(o, conn', client')
    BY <1>1, <1>2, <1>3 DEF OnlyOpen, WorksWith
  <1>7. /\ Len(conn') >= Len(conn) /\ client' \in 0..Len(conn') /\ idx' \in Targets
        /\ UNCHANGED <<reach, shared>>
    BY <1>1, <1>2, <1>3
  <1> HIDE DEF o
  <1> QED BY <1>1, <1>2, <1>3, <1>4, <1>5, <1>6, <1>7, RunningMoves

LEMMA ReconnectFails ==
  ASSUME NodeInv, NEW c \in Calls, Node!Reconnected(c),
         conn[call[c].mine].target \notin reach
  PROVE  NodeInv'
  <1>1. /\ call[c].pc = "reconnecting" /\ Runs(call[c]) /\ Node!Fails(c, conn)
        /\ UNCHANGED <<reach, arrived, shared>>
    BY DEF Node!Reconnected, Runs
  <1>2. /\ conn \in Seq(Conn) /\ arrived[c] \in Nat /\ arrived[c] <= call[c].try
        /\ arrived' = [arrived EXCEPT ![c] = arrived[c]]
    BY <1>1, RunningCall
  <1> QED BY <1>1, <1>2, FailsMoves

LEMMA NoClientKeeps ==
  ASSUME NodeInv, NEW c \in Calls, Node!NoClient(c)
  PROVE  NodeInv'
  <1>1. Runs(call[c]) /\ Node!Fails(c, conn) /\ UNCHANGED <<reach, arrived, shared>>
    BY DEF Node!NoClient, Runs
  <1>2. /\ conn \in Seq(Conn) /\ arrived[c] \in Nat /\ arrived[c] <= call[c].try
        /\ arrived' = [arrived EXCEPT ![c] = arrived[c]]
    BY <1>1, RunningCall
  <1> QED BY <1>1, <1>2, FailsMoves

(* The call goes from sending to what it does next with the same client.      *)
LEMMA SendingMoves ==
  ASSUME NodeInv, NEW c \in Calls, Node!Writes(c) \/ Node!SeesDead(c)
  PROVE  NodeInv'
  <1>1. PICK pc \in {"draining", "reconnecting"} :
          call' = [call EXCEPT ![c] = [pc |-> pc, mine |-> call[c].mine,
                                       start |-> call[c].start, try |-> call[c].try]]
    BY DEF Node!Writes, Node!SeesDead, Node!Goes
  <1> DEFINE o == [pc |-> pc, mine |-> call[c].mine, start |-> call[c].start,
                   try |-> call[c].try]
  <1>2. /\ call[c].pc = "sending" /\ call[c].mine # 0 /\ Runs(call[c])
        /\ UNCHANGED <<idx, client, conn, reach, flips, arrived, refused, shared>>
    BY DEF Node!Writes, Node!SeesDead, Runs
  <1>3. /\ conn \in Seq(Conn) /\ call[c].mine \in 0..Len(conn)
        /\ idx \in Targets /\ call[c] \in Place /\ client \in 0..Len(conn) /\ Len(conn) \in Nat
        /\ call[c].try \in {1, 2} /\ arrived[c] \in Nat /\ arrived[c] < call[c].try
        /\ arrived' = [arrived EXCEPT ![c] = arrived[c]]
        /\ refused[c] \in SUBSET Targets /\ refused' = [refused EXCEPT ![c] = refused[c]]
        /\ shared = {} => OnlyOpen(conn, client) /\ call[c].mine = client
    BY <1>2, RunningCall DEF WorksWith
  <1>4. o \in Place
    BY <1>3 DEF Place, NodePC
  <1>5. Tried(o, arrived[c]) /\ o.mine \in 0..Len(conn) /\ InLoop(o, refused[c], conn', idx')
    BY <1>2, <1>3 DEF Tried, Runs, InLoop
  <1>6. shared = {} => OnlyOpen(conn', client') /\ WorksWith(o, conn', client')
    BY <1>2, <1>3 DEF OnlyOpen, WorksWith
  <1>7. /\ Len(conn') >= Len(conn) /\ client' \in 0..Len(conn') /\ idx' \in Targets
        /\ conn' \in Seq(Conn) /\ o.mine \in 0..Len(conn') /\ UNCHANGED <<reach, shared>>
    BY <1>2, <1>3, <1>5
  <1>8. call' = [call EXCEPT ![c] = o]
    BY <1>1
  <1> HIDE DEF o
  <1> QED BY <1>2, <1>3, <1>4, <1>5, <1>6, <1>7, <1>8, RunningMoves

LEMMA DrainedKeeps ==
  ASSUME NodeInv, NEW c \in Calls, Node!Drained(c)
  PROVE  NodeInv'
  <1>1. PICK n \in {0, 1} : arrived' = [arrived EXCEPT ![c] = @ + n]
    BY DEF Node!Drained
  <1>2. /\ Runs(call[c]) /\ Node!Ends(c, "sent")
        /\ UNCHANGED <<idx, client, conn, reach, refused, shared>>
    BY DEF Node!Drained, Runs
  <1>3. /\ conn \in Seq(Conn) /\ arrived[c] \in Nat /\ arrived[c] < call[c].try
        /\ call[c].try \in {1, 2}
    BY <1>2, RunningCall
  <1>4. /\ arrived[c] + n \in Nat /\ arrived[c] + n <= call[c].try
        /\ arrived' = [arrived EXCEPT ![c] = arrived[c] + n]
    BY <1>1, <1>3
  <1> QED BY <1>2, <1>3, <1>4, EndMoves

LEMMA DrainFailsKeeps ==
  ASSUME NodeInv, NEW c \in Calls, Node!DrainFails(c)
  PROVE  NodeInv'
  <1> DEFINE k == [conn EXCEPT ![call[c].mine].writer = "none"]
  <1>1. PICK n \in {0, 1} : arrived' = [arrived EXCEPT ![c] = @ + n]
    BY DEF Node!DrainFails
  <1>2. /\ call[c].pc = "draining" /\ Runs(call[c]) /\ Node!Fails(c, k)
        /\ UNCHANGED <<reach, shared>>
    BY DEF Node!DrainFails, Runs
  <1>3. /\ conn \in Seq(Conn) /\ arrived[c] \in Nat /\ arrived[c] < call[c].try
        /\ call[c].try \in {1, 2} /\ call[c].mine \in 1..Len(conn) /\ conn[call[c].mine] \in Conn
    BY <1>2, RunningCall
  <1>4. /\ arrived[c] + n \in Nat /\ arrived[c] + n <= call[c].try
        /\ arrived' = [arrived EXCEPT ![c] = arrived[c] + n]
    BY <1>1, <1>3
  <1>5. k \in Seq(Conn) /\ Len(k) = Len(conn)
    BY <1>3 DEF Conn, Writers
  <1>6. OnlyOpen(conn, client) => OnlyOpen(k, client)
    BY <1>3 DEF OnlyOpen, Conn
  <1> HIDE DEF k
  <1> QED BY <1>2, <1>4, <1>5, <1>6, FailsMoves

(* Targets come and go under the calls.                                       *)
LEMMA FlipKeeps ==
  ASSUME NodeInv, NEW t \in Targets, Node!TargetGoes(t) \/ Node!TargetComes(t)
  PROVE  NodeInv'
  <1>1. /\ reach' \subseteq Targets
        /\ UNCHANGED <<idx, client, call, arrived, refused, shared>>
        /\ conn \in Seq(Conn)
    BY DEF Node!TargetGoes, Node!TargetComes, NodeInv, NodeTyped
  <1>2. /\ conn' \in Seq(Conn) /\ Len(conn') = Len(conn) /\ DOMAIN conn' = DOMAIN conn
        /\ \A u \in DOMAIN conn :
             /\ conn'[u].target = conn[u].target
             /\ conn'[u].writer = conn[u].writer
                \/ (conn[u].writer = "open" /\ conn'[u].writer = "lost")
    <2>1. CASE Node!TargetComes(t)
      BY <2>1, <1>1 DEF Node!TargetComes
    <2>2. CASE Node!TargetGoes(t)
      <3> DEFINE k == [u \in 1..Len(conn) |->
                IF conn[u].target = t /\ conn[u].writer = "open"
                  THEN [conn[u] EXCEPT !.writer = "lost"] ELSE conn[u]]
      <3>1. conn' = k /\ \A u \in 1..Len(conn) : conn[u] \in Conn
        BY <2>2, <1>1 DEF Node!TargetGoes
      <3>2. ASSUME NEW u \in 1..Len(conn)
            PROVE  /\ k[u] \in Conn /\ k[u].target = conn[u].target
                   /\ k[u].writer = conn[u].writer
                      \/ (conn[u].writer = "open" /\ k[u].writer = "lost")
        BY <3>1 DEF Conn, Writers
      <3>3. k \in [1..Len(conn) -> Conn] /\ Len(conn) \in Nat /\ DOMAIN conn = 1..Len(conn)
        BY <3>2, <1>1
      <3> HIDE DEF k
      <3> QED BY <3>1, <3>2, <3>3
    <2> QED BY <2>1, <2>2
  <1>3. \A c \in Calls : /\ call[c].mine \in 0..Len(conn) /\ Tried(call[c], arrived[c])
                         /\ call[c] \in Place
    BY DEF NodeInv, NodeTyped
  <1>4. NodeTyped'
    BY <1>1, <1>2 DEF NodeInv, NodeTyped
  <1>5. \A c \in Calls \ shared : InLoop(call[c], refused[c], conn', idx)
    <2> SUFFICES ASSUME NEW c \in Calls \ shared
                 PROVE  InLoop(call[c], refused[c], conn', idx)
      OBVIOUS
    <2>1. InLoop(call[c], refused[c], conn, idx)
      BY DEF NodeInv
    <2>2. call[c].pc = "connecting" => call[c].mine \in DOMAIN conn
      BY <1>1, <1>3 DEF Tried
    <2> QED BY <2>1, <2>2, <1>2 DEF InLoop
  <1>6. ASSUME shared = {}
        PROVE  OnlyOpen(conn', client) /\ \A c \in Calls : WorksWith(call[c], conn', client)
    <2>1. OnlyOpen(conn, client) /\ \A c \in Calls : WorksWith(call[c], conn, client)
      BY <1>6 DEF NodeInv
    <2>2. OnlyOpen(conn', client)
      BY <2>1, <1>2 DEF OnlyOpen
    <2>3. client \in 0..Len(conn)
      BY DEF NodeInv, NodeTyped
    <2>4. \A c \in Calls : WorksWith(call[c], conn', client)
      BY <2>1, <2>3, <1>1, <1>2 DEF WorksWith
    <2> QED BY <2>2, <2>4
  <1> QED BY <1>1, <1>3, <1>4, <1>5, <1>6 DEF NodeInv

LEMMA NodeStarts == EngineInit => NodeInv
  <1> SUFFICES ASSUME Node!NodeInit PROVE NodeInv
    BY DEF EngineInit
  <1> USE DEF Node!NodeInit
  <1>1. Node!Idle \in Place /\ Node!Idle.pc = "idle" /\ Node!Idle.mine = 0
    BY TargetsRing DEF Node!Idle, Place, NodePC
  <1>2. NodeTyped
    BY <1>1, TargetsRing DEF NodeTyped
  <1>3. \A c \in Calls : call[c] = Node!Idle
    OBVIOUS
  <1> QED BY <1>1, <1>2, <1>3 DEF NodeInv, Tried, Runs, InLoop, OnlyOpen, WorksWith

LEMMA NodeSteps == NodeInv /\ [EngineNext]_vars => NodeInv'
  <1> SUFFICES ASSUME NodeInv, Node!NodeNext \/ UNCHANGED node
               PROVE  NodeInv'
    BY OneServiceSteps
  <1>1. CASE UNCHANGED node
    BY <1>1 DEF node, NodeInv, NodeTyped
  <1>2. ASSUME NEW c \in Calls, Node!StreamVector(c) \/ Node!Closed(c) \/ Node!Refused(c)
        PROVE  NodeInv'
    BY <1>2, StreamVectorKeeps, ClosedKeeps, RefusedKeeps
  <1>3. ASSUME NEW c \in Calls, Node!Connected(c) \/ Node!Reconnected(c)
        PROVE  NodeInv'
    <2>1. Node!Connected(c) => conn[call[c].mine].target \in reach
      BY DEF Node!Connected
    <2> QED BY <2>1, <1>3, ConnectedKeeps, ReconnectFails
  <1>4. ASSUME NEW c \in Calls, Node!NoClient(c) \/ Node!Writes(c) \/ Node!SeesDead(c)
        PROVE  NodeInv'
    BY <1>4, NoClientKeeps, SendingMoves
  <1>5. ASSUME NEW c \in Calls, Node!Drained(c) \/ Node!DrainFails(c)
        PROVE  NodeInv'
    BY <1>5, DrainedKeeps, DrainFailsKeeps
  <1>6. ASSUME NEW t \in Targets, Node!TargetGoes(t) \/ Node!TargetComes(t)
        PROVE  NodeInv'
    BY <1>6, FlipKeeps
  <1> QED BY <1>1, <1>2, <1>3, <1>4, <1>5, <1>6 DEF Node!NodeNext

LEMMA NodeHolds == NodeInv => FailoverSound
  <1> SUFFICES ASSUME NodeInv PROVE Node!FailoverSound
    BY DEF FailoverSound
  <1>1. \A c \in Calls \ shared : call[c].pc = "exhausted" => refused[c] = Targets
    BY DEF NodeInv, InLoop
  <1>2. \A c \in Calls : arrived[c] <= 2
    BY DEF NodeInv, Tried
  <1>3. ASSUME shared = {}
        PROVE  Node!Cardinality({u \in DOMAIN conn : conn[u].writer = "open"}) <= 1
    <2> DEFINE U == {u \in DOMAIN conn : conn[u].writer = "open"}
    <2>1. U \subseteq {client}
      BY <1>3 DEF NodeInv, OnlyOpen
    <2>2. U = {} \/ U = {client}
      BY <2>1
    <2>3. Cardinality(U) \in {0, 1}
      BY <2>2, FS_EmptySet, FS_Singleton
    <2> QED BY <2>3, NodeCardinality
  <1> QED BY <1>1, <1>2, <1>3 DEF Node!FailoverSound

(* A vector is given up only where every target refused it, a node that is    *)
(* used by one call at a time holds one connection, and no call hands its     *)
(* vector over more than twice, whichever calls share the node and whichever  *)
(* targets come and go under them.                                            *)
THEOREM FailoverStaysSound == EngineSpec => []FailoverSound
  BY NodeStarts, NodeSteps, NodeHolds, PTL DEF EngineSpec

---------------------------------------------------------------------------
(* A recursion over the positions 1..n that stays in S has a value at each of  *)
(* them.                                                                      *)
IsRecursion(g, n, S, a, G) ==
  /\ g \in [0..n -> S] /\ g[0] = a
  /\ \A i \in 1..n : g[i] = G[<<g[i - 1], i>>]

LEMMA RecursionExists ==
  ASSUME NEW n \in Nat, NEW S, NEW a \in S, NEW G \in [S \X (1..n) -> S]
  PROVE  \E g : IsRecursion(g, n, S, a, G)
<1> DEFINE Reaches(m, g) ==
      /\ g \in [0..m -> S] /\ g[0] = a
      /\ \A i \in 1..m : g[i] = G[<<g[i - 1], i>>]
    Unreached == {m \in 0..n : \A g : ~ Reaches(m, g)}
<1>1. Reaches(0, [i \in 0..0 |-> a])
  OBVIOUS
<1>2. ASSUME NEW m \in 0..n, m # n, NEW g, Reaches(m, g)
      PROVE  \E h : Reaches(m + 1, h)
  <2> DEFINE h == [i \in 0..(m + 1) |-> IF i = m + 1 THEN G[<<g[m], m + 1>>] ELSE g[i]]
  <2>1. g[m] \in S /\ m + 1 \in 1..n /\ G[<<g[m], m + 1>>] \in S
    BY <1>2
  <2>2. h \in [0..(m + 1) -> S] /\ h[0] = a
    BY <1>2, <2>1
  <2>3. ASSUME NEW i \in 1..(m + 1) PROVE h[i] = G[<<h[i - 1], i>>]
    <3>1. CASE i = m + 1
      <4>1. i - 1 = m /\ m # m + 1 /\ m \in 0..(m + 1)
        BY <3>1
      <4> QED
        BY <3>1, <4>1
    <3>2. CASE i # m + 1
      <4>1. i \in 1..m /\ i - 1 \in 0..m /\ i - 1 # m + 1
        BY <2>3, <3>2
      <4>2. g[i] = G[<<g[i - 1], i>>]
        BY <1>2, <4>1
      <4>3. h[i] = g[i] /\ h[i - 1] = g[i - 1]
        BY <3>2, <4>1
      <4> QED
        BY <4>2, <4>3
    <3> QED
      BY <3>1, <3>2
  <2> QED
    BY <2>2, <2>3
<1>3. Unreached = {}
  <2> SUFFICES ASSUME Unreached # {} PROVE FALSE
    OBVIOUS
  <2>1. Unreached \subseteq Nat
    OBVIOUS
  <2>2. PICK m \in Unreached : \A x \in Unreached : <<x, m>> \notin OpToRel(<, Nat)
    <3> HIDE DEF Unreached
    <3> QED
      BY <2>1, NatLessThanWellFounded, WFMin, Zenon
  <2>3. \A x \in Unreached : ~(x < m)
    <3> HIDE DEF Unreached
    <3> QED
      BY <2>1, <2>2, Zenon DEF OpToRel
  <2>4. m # 0
    BY <1>1
  <2>5. m - 1 \in 0..n /\ m - 1 # n /\ m - 1 < m /\ (m - 1) + 1 = m
    BY <2>4
  <2>6. \E g : Reaches(m - 1, g)
    BY <2>3, <2>5
  <2> HIDE DEF Reaches
  <2>7. \E h : Reaches(m, h)
    BY <1>2, <2>5, <2>6
  <2> QED
    BY <2>7
<1>4. n \in 0..n
  OBVIOUS
<1>5. \E g : Reaches(n, g)
  <2> HIDE DEF Reaches
  <2> QED
    BY <1>3, <1>4
<1> QED
  BY <1>5 DEF IsRecursion

(* What starts in S and never leaves it in one step is in S at each position.  *)
LEMMA RecursionStays ==
  ASSUME NEW n \in Nat, NEW S, NEW f, f[0] \in S,
         \A i \in 1..n : f[i - 1] \in S => f[i] \in S
  PROVE  \A i \in 0..n : f[i] \in S
<1> DEFINE Out == {i \in 0..n : f[i] \notin S}
<1>1. SUFFICES ASSUME Out # {} PROVE FALSE
  OBVIOUS
<1>2. Out \subseteq Nat
  OBVIOUS
<1>3. PICK m \in Out : \A x \in Out : <<x, m>> \notin OpToRel(<, Nat)
  <2> HIDE DEF Out
  <2> QED
    BY <1>1, <1>2, NatLessThanWellFounded, WFMin, Zenon
<1>4. \A x \in Out : ~(x < m)
  <2> HIDE DEF Out
  <2> QED
    BY <1>2, <1>3, Zenon DEF OpToRel
<1>5. m \in 1..n /\ m - 1 \in 0..n /\ m - 1 < m
  OBVIOUS
<1>6. f[m - 1] \in S
  BY <1>4, <1>5
<1> QED
  BY <1>5, <1>6

-----------------------------------------------------------------------------
(* The configuration.                                                         *)
ConfigInv ==
  /\ Config!ProfileFillsGaps
  /\ step \in {"import", "profile"} => env = given
  /\ step \in {"import", "profile", "validate", "started"}
  /\ \A v \in DOMAIN env \ DOMAIN given :
       v \in DOMAIN Config!Valid => env[v] \in Config!Valid[v]

(* No profile sets a value that the validator rejects.                        *)
LEMMA ProfilesAreValid ==
  \A v \in DOMAIN Config!Overrides \cap DOMAIN Config!Valid :
    Config!Overrides[v] \in Config!Valid[v]
BY DEF Config!Overrides, Config!Profiles, Config!Valid

LEMMA ConfigStarts == Config!ConfigInit => ConfigInv
BY DEF Config!ConfigInit, ConfigInv, Config!ProfileFillsGaps

LEMMA ConfigSteps ==
  ASSUME ConfigInv, Config!ConfigNext \/ UNCHANGED config
  PROVE  ConfigInv'
<1>1. CASE Config!BuildApp
  BY <1>1 DEF Config!BuildApp, ConfigInv, Config!ProfileFillsGaps
<1>2. CASE Config!ApplyProfile
  <2>1. /\ env = given /\ step' = "validate" /\ UNCHANGED <<given, middleware, errors>>
        /\ DOMAIN env' = DOMAIN env \cup DOMAIN Config!Overrides
        /\ \A v \in DOMAIN env : env'[v] = env[v]
        /\ \A v \in DOMAIN env' \ DOMAIN env : env'[v] = Config!Overrides[v]
    BY <1>2 DEF Config!ApplyProfile, Config!Get, ConfigInv
  <2>2. Config!Overrides' = Config!Overrides
    <3>1. "ENVIRONMENT" \notin DOMAIN Config!Overrides
      BY DEF Config!Overrides, Config!Profiles
    <3>2. Config!Get(env', "ENVIRONMENT", "development")
            = Config!Get(env, "ENVIRONMENT", "development")
      BY <2>1, <3>1 DEF Config!Get
    <3> QED
      BY <3>2 DEF Config!Overrides
  <2>3. \A v \in DOMAIN env' \ DOMAIN given' :
          v \in DOMAIN Config!Valid => env'[v] \in Config!Valid[v]
    BY <2>1, ProfilesAreValid
  <2>4. Config!ProfileFillsGaps'
    BY <2>1, <2>2 DEF ConfigInv, Config!ProfileFillsGaps
  <2> QED
    BY <2>1, <2>3, <2>4 DEF ConfigInv
<1>3. CASE Config!ValidateAll
  <2>1. /\ errors' = {v \in DOMAIN Config!Valid \cap DOMAIN env : env[v] \notin Config!Valid[v]}
        /\ step = "validate" /\ step' = "started" /\ UNCHANGED <<env, given, middleware>>
    BY <1>3 DEF Config!ValidateAll
  <2>2. errors' \subseteq DOMAIN given
    BY <2>1 DEF ConfigInv
  <2>3. Config!Overrides' = Config!Overrides
    BY <2>1 DEF Config!Overrides, Config!Get
  <2> QED
    BY <2>1, <2>2, <2>3 DEF ConfigInv, Config!ProfileFillsGaps
<1>4. CASE UNCHANGED config
  <2>1. Config!Overrides' = Config!Overrides
    BY <1>4 DEF config, Config!Overrides, Config!Get
  <2> QED
    BY <1>4, <2>1 DEF config, ConfigInv, Config!ProfileFillsGaps
<1> QED
  BY <1>1, <1>2, <1>3, <1>4 DEF Config!ConfigNext

(* The table of phases.                                                       *)
LEMMA PhaseCounts ==
  /\ Config!OfStatus("completed") = 1..5 /\ Config!OfStatus("available") = 6..10
  /\ Config!OfStatus("in_progress") = {} /\ Config!OfStatus("locked") = {}
  /\ Config!Summary.total = 10 /\ Config!Summary.completed = 5
  /\ Config!Summary.available = 5 /\ Config!Summary.in_progress = 0
  /\ Config!Summary.locked = 0
<1>1. /\ Config!OfStatus("completed") = 1..5 /\ Config!OfStatus("available") = 6..10
      /\ Config!OfStatus("in_progress") = {} /\ Config!OfStatus("locked") = {}
  BY DEF Config!OfStatus, Config!Phases, Config!Status
<1>2. \A S : Config!Cardinality(S) = Cardinality(S)
  BY DEF Config!Cardinality, Cardinality
<1>3. /\ Cardinality(1..10) = 10 /\ Cardinality(1..5) = 5 /\ Cardinality(6..10) = 5
      /\ Cardinality({}) = 0
  <2>1. 1 \in Int /\ 5 \in Int /\ 6 \in Int /\ 10 \in Int
    OBVIOUS
  <2>2. /\ Cardinality(1..10) = IF 1 > 10 THEN 0 ELSE 10 - 1 + 1
        /\ Cardinality(1..5) = IF 1 > 5 THEN 0 ELSE 5 - 1 + 1
        /\ Cardinality(6..10) = IF 6 > 10 THEN 0 ELSE 10 - 6 + 1
    BY <2>1, FS_Interval, Zenon
  <2> QED
    BY <2>2, FS_EmptySet
<1>4. /\ Config!Summary.total = Cardinality(1..10)
      /\ Config!Summary.completed = Cardinality(1..5)
      /\ Config!Summary.available = Cardinality(6..10)
      /\ Config!Summary.in_progress = Cardinality({})
      /\ Config!Summary.locked = Cardinality({})
  BY <1>1, <1>2 DEF Config!Summary, Config!Phases
<1> QED
  BY <1>1, <1>3, <1>4

(* More phases have at least as many hours.                                   *)
LEMMA MoreHours ==
  ASSUME NEW ps, NEW qs, ps \subseteq qs, qs \subseteq Config!Phases
  PROVE  Config!HoursOf(ps) <= Config!HoursOf(qs)
<1> DEFINE H(xs) == UNION {{p} \X (1..Config!Hours[p]) : p \in xs}
<1>1. \A p \in Config!Phases : Config!Hours[p] \in 0..60
  BY DEF Config!Phases, Config!Hours
<1>2. H(qs) \subseteq (1..10) \X (1..60)
  BY <1>1 DEF Config!Phases
<1>3. IsFiniteSet((1..10) \X (1..60))
  <2>0. 1 \in Int /\ 10 \in Int /\ 60 \in Int
    OBVIOUS
  <2>1. IsFiniteSet(1..10) /\ IsFiniteSet(1..60)
    BY <2>0, FS_Interval, Zenon
  <2> QED
    BY <2>1, FS_Product
<1>4. IsFiniteSet(H(qs))
  BY <1>2, <1>3, FS_Subset
<1>5. H(ps) \subseteq H(qs)
  OBVIOUS
<1> HIDE DEF H
<1>6. Cardinality(H(ps)) <= Cardinality(H(qs))
  BY <1>4, <1>5, FS_Subset
<1> QED
  BY <1>6 DEF Config!HoursOf, H, Config!Cardinality, Cardinality

LEMMA PhaseInvariant ==
  /\ Config!PhaseInit => Config!PhasesTellOneStory
  /\ Config!PhasesTellOneStory /\ (Config!PhaseNext \/ UNCHANGED phases)
       => Config!PhasesTellOneStory'
<1>1. \A p \in Config!OfStatus("completed") : Config!MissingDependencies(p) = {}
  BY PhaseCounts DEF Config!MissingDependencies, Config!Dependencies, Config!Status
<1>2. \A p \in Config!Phases : \A d \in Config!Dependencies[p] : d < p
  BY DEF Config!Phases, Config!Dependencies
<1>3. /\ Config!Summary.total = Config!Summary.completed + Config!Summary.available
                                  + Config!Summary.in_progress + Config!Summary.locked
      /\ Config!Summary.completed_hours = Config!HoursOf(Config!Dated)
  BY PhaseCounts DEF Config!Summary
<1>4. ASSUME NEW p \in Config!Phases
      PROVE  Config!Cardinality({g \in Config!Groups : p \in g}) = 1
  <2>1. {g \in Config!Groups : p \in g} = {{p}}
    BY DEF Config!Groups
  <2>2. Cardinality({{p}}) = 1
    BY FS_Singleton
  <2>3. Config!Cardinality({{p}}) = Cardinality({{p}})
    BY DEF Config!Cardinality, Cardinality
  <2> QED
    BY <2>1, <2>2, <2>3
<1>5. Config!Summary.completed_hours <= Config!HoursOf(Config!OfStatus("completed"))
  <2>1. Config!Dated \subseteq Config!OfStatus("completed")
    BY PhaseCounts DEF Config!Dated
  <2>2. Config!OfStatus("completed") \subseteq Config!Phases
    BY DEF Config!OfStatus
  <2> QED
    BY <1>3, <2>1, <2>2, MoreHours
<1>6. (current \in Config!Phases) <=> Config!PhasesTellOneStory
  BY <1>1, <1>2, <1>3, <1>4, <1>5 DEF Config!PhasesTellOneStory
<1>7. (current' \in Config!Phases) <=> Config!PhasesTellOneStory'
  BY <1>1, <1>2, <1>3, <1>4, <1>5 DEF Config!PhasesTellOneStory
<1>8. Config!PhaseInit => current \in Config!Phases
  BY DEF Config!PhaseInit, Config!Phases
<1>9. current \in Config!Phases /\ (Config!PhaseNext \/ UNCHANGED phases)
        => current' \in Config!Phases
  BY DEF Config!PhaseNext, Config!SetCurrentPhase, phases
<1> QED
  BY <1>6, <1>7, <1>8, <1>9

-----------------------------------------------------------------------------
(* The skills.                                                                *)
Partial(D, R) == UNION {[X -> R] : X \in SUBSET D}
Triggers == Skills \cup UNION {c.triggers : c \in Contents}

(* Tables made from the files in F: every trigger leads to a file that was    *)
(* imported and asks for it, and what is listed answers to its name.          *)
TablesSound(s, F) ==
  /\ \A x \in DOMAIN s.handlers :
       /\ s.handlers[x] \in F \cap DOMAIN s.imported
       /\ x = s.handlers[x] \/ x \in s.imported[s.handlers[x]].triggers
  /\ s.listed \subseteq DOMAIN s.handlers \cap F

Tables == [imported : Partial(Skills, Contents), handlers : Partial(Triggers, Skills),
           listed : SUBSET Skills]

SkillInv ==
  /\ IsFiniteSet(DOMAIN files) /\ files \in Partial(Skills, Contents)
  /\ imported \in Partial(Skills, Contents)
  /\ \A x \in DOMAIN handlers :
       /\ handlers[x] \in loadedFrom \/ handlers[x] \in Builtins
       /\ handlers[x] \in loadedFrom => x = handlers[x] \/ handlers[x] \in DOMAIN imported
  /\ Skill!SkillsOfTheLastLoad

LEMMA PartialPut ==
  ASSUME NEW D, NEW R, NEW f \in Partial(D, R), NEW k \in D, NEW v \in R
  PROVE  /\ Skill!Put(f, k, v) \in Partial(D, R)
         /\ DOMAIN Skill!Put(f, k, v) = DOMAIN f \cup {k}
         /\ Skill!Put(f, k, v)[k] = v
         /\ \A x \in DOMAIN f : x # k => Skill!Put(f, k, v)[x] = f[x]
<1>1. PICK X \in SUBSET D : f \in [X -> R]
  BY DEF Partial
<1>2. Skill!Put(f, k, v) \in [X \cup {k} -> R]
  BY <1>1 DEF Skill!Put
<1>3. Skill!Put(f, k, v) \in Partial(D, R)
  BY <1>2 DEF Partial
<1> QED
  BY <1>1, <1>3 DEF Skill!Put

(* One more file keeps the tables so.                                         *)
LEMMA LoadSkillSound ==
  ASSUME NEW s \in Tables, NEW F \in SUBSET Skills, NEW name \in F, TablesSound(s, F),
         files \in Partial(Skills, Contents), F = DOMAIN files
  PROVE  Skill!LoadSkill(s, name) \in Tables /\ TablesSound(Skill!LoadSkill(s, name), F)
<1> DEFINE m == IF name \in DOMAIN s.imported THEN s.imported[name] ELSE files[name]
           own == Skill!Put(s.handlers, name, name)
           imp == Skill!Put(s.imported, name, m)
           all == [x \in DOMAIN own \cup m.triggers |-> IF x \in m.triggers THEN name ELSE own[x]]
<1>1. s.imported \in Partial(Skills, Contents) /\ s.handlers \in Partial(Triggers, Skills)
  BY DEF Tables
<1>2. m \in Contents /\ m.triggers \subseteq Triggers
  <2>1. m \in Contents
    BY <1>1 DEF Partial
  <2> QED
    BY <2>1 DEF Triggers
<1>3. name \in Skills /\ name \in Triggers
  BY DEF Triggers
<1> HIDE DEF m
<1>4. /\ imp \in Partial(Skills, Contents) /\ DOMAIN imp = DOMAIN s.imported \cup {name}
      /\ imp[name] = m /\ \A x \in DOMAIN s.imported : imp[x] = s.imported[x]
  <2>1. /\ imp \in Partial(Skills, Contents) /\ DOMAIN imp = DOMAIN s.imported \cup {name}
        /\ imp[name] = m /\ \A x \in DOMAIN s.imported : x # name => imp[x] = s.imported[x]
    <3> DEFINE f == s.imported
    <3>1. f \in Partial(Skills, Contents)
      BY <1>1
    <3> HIDE DEF f
    <3>2. \A v \in Contents :
            /\ Skill!Put(f, name, v) \in Partial(Skills, Contents)
            /\ DOMAIN Skill!Put(f, name, v) = DOMAIN f \cup {name}
            /\ Skill!Put(f, name, v)[name] = v
            /\ \A x \in DOMAIN f : x # name => Skill!Put(f, name, v)[x] = f[x]
      BY <1>3, <3>1, PartialPut
    <3> QED
      BY <1>2, <3>2 DEF f
  <2> QED
    BY <2>1 DEF m
<1>5. /\ own \in Partial(Triggers, Skills) /\ DOMAIN own = DOMAIN s.handlers \cup {name}
      /\ own[name] = name /\ \A x \in DOMAIN s.handlers : x # name => own[x] = s.handlers[x]
  <2> DEFINE f == s.handlers
  <2>1. f \in Partial(Triggers, Skills)
    BY <1>1
  <2> HIDE DEF f
  <2>2. \A v \in Skills :
          /\ Skill!Put(f, name, v) \in Partial(Triggers, Skills)
          /\ DOMAIN Skill!Put(f, name, v) = DOMAIN f \cup {name}
          /\ Skill!Put(f, name, v)[name] = v
          /\ \A x \in DOMAIN f : x # name => Skill!Put(f, name, v)[x] = f[x]
    BY <1>3, <2>1, PartialPut
  <2> QED
    BY <1>3, <2>2 DEF f
<1> HIDE DEF imp, own
<1>6. /\ \A x \in DOMAIN own :
           /\ own[x] \in F \cap DOMAIN imp
           /\ x = own[x] \/ x \in imp[own[x]].triggers
      /\ s.listed \subseteq DOMAIN own
  BY <1>4, <1>5 DEF TablesSound
<1>7. /\ all \in Partial(Triggers, Skills) /\ DOMAIN all = DOMAIN own \cup m.triggers
      /\ \A x \in m.triggers : all[x] = name
      /\ \A x \in DOMAIN own \ m.triggers : all[x] = own[x]
  <2>1. PICK X \in SUBSET Triggers : own \in [X -> Skills]
    BY <1>5 DEF Partial
  <2>2. all \in [X \cup m.triggers -> Skills]
    BY <1>3, <2>1
  <2>3. all \in Partial(Triggers, Skills)
    BY <1>2, <2>2 DEF Partial
  <2> QED
    BY <2>3
<1> HIDE DEF all
<1>8. CASE m.form = "broken"
  <2>1. Skill!LoadSkill(s, name) = s
    BY <1>8 DEF Skill!LoadSkill, m
  <2> QED
    BY <2>1
<1>9. CASE m.form \in {"plain", "odd"}
  <2>1. Skill!LoadSkill(s, name) = [s EXCEPT !.imported = imp, !.handlers = own]
    BY <1>9 DEF Skill!LoadSkill, m, imp, own
  <2>2. Skill!LoadSkill(s, name) = [imported |-> imp, handlers |-> own, listed |-> s.listed]
    BY <2>1 DEF Tables
  <2> QED
    BY <1>4, <1>5, <1>6, <2>2 DEF Tables, TablesSound
<1>10. CASE m.form \notin {"broken", "plain", "odd"}
  <2>1. Skill!LoadSkill(s, name)
          = [imported |-> imp, handlers |-> all, listed |-> s.listed \cup {name}]
    BY <1>10 DEF Skill!LoadSkill, m, imp, own, all
  <2>2. [imported |-> imp, handlers |-> all, listed |-> s.listed \cup {name}] \in Tables
    BY <1>3, <1>4, <1>7 DEF Tables
  <2>3. \A x \in DOMAIN all :
          /\ all[x] \in F \cap DOMAIN imp
          /\ x = all[x] \/ x \in imp[all[x]].triggers
    BY <1>4, <1>6, <1>7
  <2>4. s.listed \cup {name} \subseteq DOMAIN all \cap F
    BY <1>5, <1>6, <1>7 DEF TablesSound
  <2> QED
    BY <2>1, <2>2, <2>3, <2>4 DEF TablesSound
<1> QED
  BY <1>8, <1>9, <1>10

(* A load of every file, in any order.                                        *)
LEMMA FoldSound ==
  ASSUME NEW F \in SUBSET Skills, files \in Partial(Skills, Contents), F = DOMAIN files,
         NEW n \in Nat, NEW order \in [1..n -> F], NEW start \in Tables,
         TablesSound(start, F), NEW after,
         after = CHOOSE g : g = [i \in 0..n |-> IF i = 0 THEN start
                                                ELSE Skill!LoadSkill(g[i - 1], order[i])]
  PROVE  after[n] \in Tables /\ TablesSound(after[n], F)
<1> DEFINE S == {s \in Tables : TablesSound(s, F)}
           G == [si \in S \X (1..n) |-> Skill!LoadSkill(si[1], order[si[2]])]
           Def(g) == [i \in 0..n |-> IF i = 0 THEN start
                                              ELSE Skill!LoadSkill(g[i - 1], order[i])]
<1>1. G \in [S \X (1..n) -> S]
  <2>1. ASSUME NEW s \in S, NEW i \in 1..n PROVE Skill!LoadSkill(s, order[i]) \in S
    BY LoadSkillSound
  <2> QED
    BY <2>1
<1>2. start \in S
  OBVIOUS
<1>3. \A s \in S, i \in 1..n : G[<<s, i>>] = Skill!LoadSkill(s, order[i])
  OBVIOUS
<1> HIDE DEF S, G
<1>4. PICK g : IsRecursion(g, n, S, start, G)
  BY <1>1, <1>2, RecursionExists
<1>5. \A i \in 1..n : i - 1 \in 0..n /\ i # 0
  OBVIOUS
<1>6. g = Def(g)
  <2>1. \A i \in 1..n : g[i] = Skill!LoadSkill(g[i - 1], order[i])
    BY <1>3, <1>4, <1>5 DEF IsRecursion
  <2>2. \A i \in 0..n : g[i] = IF i = 0 THEN start ELSE Skill!LoadSkill(g[i - 1], order[i])
    BY <1>4, <2>1 DEF IsRecursion
  <2> QED
    BY <1>4, <2>2 DEF IsRecursion
<1> HIDE DEF Def
<1>7. after = Def(after)
  <2>1. after = CHOOSE h : h = Def(h)
    BY DEF Def
  <2> QED
    BY <1>6, <2>1
<1>8. after[0] = start /\ \A i \in 1..n : after[i] = Skill!LoadSkill(after[i - 1], order[i])
  <2>1. \A i \in 0..n : after[i] = IF i = 0 THEN start
                                   ELSE Skill!LoadSkill(after[i - 1], order[i])
    BY <1>7 DEF Def
  <2> QED
    BY <1>5, <2>1
<1>9. \A i \in 1..n : after[i - 1] \in S => after[i] \in S
  <2>1. ASSUME NEW i \in 1..n, after[i - 1] \in S PROVE after[i] \in S
    <3>1. after[i] = G[<<after[i - 1], i>>]
      BY <1>3, <1>8, <2>1
    <3> QED
      BY <1>1, <2>1, <3>1
  <2> QED
    BY <2>1
<1>10. \A i \in 0..n : after[i] \in S
  <2>1. after[0] \in S
    BY <1>2, <1>8
  <2> QED
    BY <1>9, <2>1, RecursionStays, Zenon
<1>11. after[n] \in S
  BY <1>10
<1> QED
  BY <1>11 DEF S

LEMMA SkillCardinality == \A S : Skill!Cardinality(S) = Cardinality(S)
BY DEF Skill!Cardinality, Cardinality

LEMMA SkillStarts == Skill!SkillInit => SkillInv
<1> SUFFICES ASSUME Skill!SkillInit PROVE SkillInv
  OBVIOUS
<1>1. files = <<>> /\ imported = <<>> /\ handlers = <<>> /\ listed = {} /\ loadedFrom = {}
  BY DEF Skill!SkillInit
<1>2. DOMAIN files = {} /\ files \in [{} -> Contents] /\ imported = files /\ handlers = files
  BY <1>1
<1>3. files \in Partial(Skills, Contents) /\ imported \in Partial(Skills, Contents)
  BY <1>2 DEF Partial
<1>4. IsFiniteSet(DOMAIN files)
  BY <1>2, FS_EmptySet
<1> QED
  BY <1>1, <1>2, <1>3, <1>4 DEF SkillInv, Skill!SkillsOfTheLastLoad

(* What a load from the directory leaves.                                     *)
LEMMA DirectoryLoaded ==
  ASSUME SkillInv, directory, Skill!Reload
  PROVE  /\ imported' \in Partial(Skills, Contents)
         /\ loadedFrom' = DOMAIN files /\ UNCHANGED files
         /\ TablesSound([imported |-> imported', handlers |-> handlers', listed |-> listed'],
                        DOMAIN files)
<1> DEFINE F == DOMAIN files
           start == [imported |-> imported, handlers |-> <<>>, listed |-> {}]
<1>1. /\ F \in SUBSET Skills /\ files \in Partial(Skills, Contents)
      /\ IsFiniteSet(F) /\ imported \in Partial(Skills, Contents)
  BY DEF SkillInv, Partial
<1>2. PICK order \in Skill!SetToSeqs(F) :
        LET after[i \in 0..Len(order)] ==
              IF i = 0 THEN start ELSE Skill!LoadSkill(after[i - 1], order[i])
            s == after[Len(order)]
        IN /\ imported' = s.imported /\ handlers' = s.handlers /\ listed' = s.listed
           /\ loadedFrom' = F /\ UNCHANGED files
  BY DEF Skill!Reload, Skill!LoadAll
<1> DEFINE n == Cardinality(F)
<1>3. n \in Nat
  BY <1>1, FS_CardinalityType
<1>4. order \in [1..n -> F]
  BY SkillCardinality DEF Skill!SetToSeqs
<1> HIDE DEF n
<1>5. Len(order) = n
  BY <1>3, <1>4
<1> DEFINE after == CHOOSE g : g = [i \in 0..n |-> IF i = 0 THEN start
                                      ELSE Skill!LoadSkill(g[i - 1], order[i])]
<1>6. /\ imported' = after[n].imported /\ handlers' = after[n].handlers
      /\ listed' = after[n].listed /\ loadedFrom' = F /\ UNCHANGED files
  BY <1>2, <1>5
<1>7. start \in Tables /\ TablesSound(start, F)
  <2>1. <<>> \in Partial(Triggers, Skills) /\ DOMAIN <<>> = {}
    <3>1. <<>> \in [{} -> Skills]
      OBVIOUS
    <3> QED
      BY <3>1 DEF Partial
  <2>2. start.handlers = <<>> /\ start.listed = {}
    OBVIOUS
  <2> QED
    BY <1>1, <2>1, <2>2 DEF Tables, TablesSound
<1> HIDE DEF start, F
<1>8. after[n] \in Tables /\ TablesSound(after[n], F)
  BY <1>1, <1>3, <1>4, <1>7, FoldSound DEF F
<1> HIDE DEF after
<1>9. imported' \in Partial(Skills, Contents)
  BY <1>6, <1>8 DEF Tables
<1>10. TablesSound([imported |-> imported', handlers |-> handlers', listed |-> listed'], F)
  BY <1>6, <1>8 DEF TablesSound
<1> QED
  BY <1>6, <1>9, <1>10 DEF F

LEMMA SkillSteps ==
  ASSUME SkillInv, Skill!SkillNext \/ UNCHANGED skills
  PROVE  SkillInv'
<1>1. CASE Skill!Reload /\ directory
  <2>1. /\ imported' \in Partial(Skills, Contents)
        /\ loadedFrom' = DOMAIN files /\ UNCHANGED files
        /\ TablesSound([imported |-> imported', handlers |-> handlers', listed |-> listed'],
                       DOMAIN files)
    BY <1>1, DirectoryLoaded
  <2>2. /\ \A x \in DOMAIN handlers' :
             /\ handlers'[x] \in loadedFrom' \cap DOMAIN imported'
             /\ x = handlers'[x] \/ x \in imported'[handlers'[x]].triggers
        /\ listed' \subseteq DOMAIN handlers' \cap loadedFrom'
    BY <2>1 DEF TablesSound
  <2>3. Skill!SkillsOfTheLastLoad'
    BY <2>2 DEF Skill!SkillsOfTheLastLoad
  <2> QED
    BY <2>1, <2>2, <2>3 DEF SkillInv
<1>2. CASE Skill!Reload /\ ~directory
  <2>1. /\ UNCHANGED <<imported, files>> /\ loadedFrom' = {}
        /\ handlers' = [x \in DOMAIN <<>> \cup Builtins |->
                          IF x \in Builtins THEN x ELSE <<>>[x]]
        /\ listed' = {} \cup Builtins
    BY <1>2 DEF Skill!Reload, Skill!LoadAll
  <2>2. DOMAIN handlers' = Builtins /\ listed' = Builtins
        /\ \A x \in Builtins : handlers'[x] = x
    BY <2>1
  <2>3. Skill!SkillsOfTheLastLoad'
    BY <2>1, <2>2 DEF Skill!SkillsOfTheLastLoad
  <2> QED
    BY <2>1, <2>2, <2>3 DEF SkillInv
<1>3. ASSUME NEW name \in Skills, Skill!RemoveFile(name) PROVE SkillInv'
  <2>1. /\ files' = [x \in DOMAIN files \ {name} |-> files[x]]
        /\ UNCHANGED <<imported, handlers, listed, loadedFrom>>
    BY <1>3 DEF Skill!RemoveFile
  <2>2. files' \in Partial(Skills, Contents) /\ DOMAIN files' \subseteq DOMAIN files
    <3>1. PICK X \in SUBSET Skills : files \in [X -> Contents]
      BY DEF SkillInv, Partial
    <3>2. files' \in [X \ {name} -> Contents]
      BY <2>1, <3>1
    <3> QED
      BY <2>1, <3>2 DEF Partial
  <2>3. IsFiniteSet(DOMAIN files')
    BY <2>2, FS_Subset DEF SkillInv
  <2> QED
    BY <2>1, <2>2, <2>3 DEF SkillInv, Skill!SkillsOfTheLastLoad
<1>4. ASSUME NEW name \in Skills, NEW content \in Contents, Skill!Edit(name, content)
      PROVE SkillInv'
  <2>1. /\ files' = Skill!Put(files, name, content)
        /\ UNCHANGED <<imported, handlers, listed, loadedFrom>>
    BY <1>4 DEF Skill!Edit
  <2>2. files' \in Partial(Skills, Contents) /\ DOMAIN files' = DOMAIN files \cup {name}
    <3>1. files \in Partial(Skills, Contents)
      BY DEF SkillInv
    <3> QED
      BY <2>1, <3>1, PartialPut
  <2>3. IsFiniteSet(DOMAIN files')
    BY <2>2, FS_AddElement DEF SkillInv
  <2> QED
    BY <2>1, <2>2, <2>3 DEF SkillInv, Skill!SkillsOfTheLastLoad
<1>5. CASE UNCHANGED skills
  BY <1>5 DEF skills, SkillInv, Skill!SkillsOfTheLastLoad
<1> QED
  BY <1>1, <1>2, <1>3, <1>4, <1>5 DEF Skill!SkillNext

------------------------------------------------------------------------------
(* The Opus model.  Its invariant in inductive form: where a load has come to,  *)
(* and what it has put by then.                                                 *)
TextPC == {"new", "thread", "half", "ready", "raised", "no tokenizer", "done"}

TextTyped ==
  /\ translator \in Nat /\ tokenizer \in Nat /\ loads \in Nat
  /\ text \in [Texts -> [pc : TextPC, load : Nat]]

Loaders == {t \in Texts : text[t].load # 0}

TextProgress ==
  \A t \in Texts :
    /\ text[t].pc \in {"new", "thread"} => text[t].load = 0
    /\ text[t].pc = "half" => text[t].load # 0 /\ translator # 0
    /\ text[t].pc = "ready" /\ text[t].load # 0 => tokenizer # 0

TextInv == TextTyped /\ TextProgress /\ Model!OwnLoadIsWhole

(* One more thread has built its model.                                         *)
LEMMA OneMoreLoader ==
  ASSUME IsFiniteSet(Texts), NEW t \in Texts, NEW L, L \subseteq Texts, t \notin L
  PROVE  Cardinality(L \cup {t}) = Cardinality(L) + 1
<1>1. IsFiniteSet(L)
  BY FS_Subset
<1> QED
  BY <1>1, FS_AddElement

LEMMA ModelCardinality == \A S : Model!Cardinality(S) = Cardinality(S)
BY DEF Model!Cardinality, Cardinality

(* The starting state.                                                          *)
LEMMA ModelStarts == Model!ModelInit => TextInv
<1> SUFFICES ASSUME Model!ModelInit PROVE TextInv
  OBVIOUS
<1> USE DEF Model!ModelInit
<1>1. TextTyped
  BY DEF TextTyped, TextPC
<1>2. TextProgress
  BY DEF TextProgress
<1>3. {t \in Texts : text[t].load # 0} = {}
  OBVIOUS
<1>4. Model!OwnLoadIsWhole
  BY <1>3, FS_EmptySet, ModelCardinality DEF Model!OwnLoadIsWhole
<1> QED
  BY <1>1, <1>2, <1>4 DEF TextInv

(* A step in which no thread builds a model leaves the count of loads alone.    *)
LEMMA SameLoaders ==
  ASSUME TextTyped, NEW t \in Texts, NEW pc, NEW load, Model!Goes(t, pc, load), load = text[t].load
  PROVE  {s \in Texts : text'[s].load # 0} = {s \in Texts : text[s].load # 0}
BY DEF TextTyped, Model!Goes

LEMMA ModelSteps ==
  ASSUME IsFiniteSet(Texts), TextInv, Model!ModelNext \/ UNCHANGED model
  PROVE  TextInv'
<1> USE DEF TextInv
<1>1. ASSUME NEW t \in Texts, Model!EnsureLoaded(t) PROVE TextInv'
  <2>1. text[t].load = 0
    BY <1>1 DEF Model!EnsureLoaded, TextProgress
  <2>2. PICK pc \in {"ready", "thread"} :
          Model!Goes(t, pc, 0) /\ (pc = "ready" <=> translator # 0)
    BY <1>1 DEF Model!EnsureLoaded
  <2>3. UNCHANGED <<translator, tokenizer, loads>>
    BY <1>1 DEF Model!EnsureLoaded
  <2>4. TextTyped'
    BY <2>2, <2>3 DEF TextTyped, TextPC, Model!Goes
  <2>5. TextProgress'
    BY <2>2, <2>3 DEF TextTyped, TextProgress, Model!Goes
  <2>6. Loaders' = Loaders
    BY <2>1, <2>2, SameLoaders DEF Loaders
  <2>7. \A s \in Texts : s # t => text'[s] = text[s]
    BY <2>2 DEF Model!Goes, TextTyped
  <2>8. text'[t].load = 0
    BY <2>2 DEF Model!Goes, TextTyped
  <2>9. Model!OwnLoadIsWhole'
    BY <2>1, <2>3, <2>6, <2>7, <2>8, ModelCardinality DEF Model!OwnLoadIsWhole, Loaders
  <2> QED
    BY <2>4, <2>5, <2>9
<1>2. ASSUME NEW t \in Texts, Model!BuildTranslator(t) PROVE TextInv'
  <2>1. text[t].load = 0 /\ text[t].pc = "thread"
    BY <1>2 DEF Model!BuildTranslator, TextProgress
  <2>2. CASE /\ loads' = loads + 1 /\ translator' = loads + 1
             /\ Model!Goes(t, "half", loads + 1) /\ tokenizer' = tokenizer
    <3>0. loads \in Nat /\ loads + 1 \in Nat /\ loads + 1 # 0
      BY DEF TextTyped
    <3>1. TextTyped'
      <4>1. [pc |-> "half", load |-> loads + 1] \in [pc : TextPC, load : Nat]
        BY <3>0 DEF TextPC
      <4> QED
        BY <2>2, <3>0, <4>1 DEF TextTyped, Model!Goes
    <3>2. TextProgress'
      BY <2>2, <3>0 DEF TextTyped, TextProgress, Model!Goes
    <3>3. \A s \in Texts : s # t => text'[s] = text[s]
      BY <2>2 DEF Model!Goes, TextTyped
    <3>4. text'[t].pc = "half" /\ text'[t].load # 0
      BY <2>2 DEF Model!Goes, TextTyped
    <3>5. Loaders' = Loaders \cup {t}
      BY <3>3, <3>4 DEF Loaders
    <3>6. Cardinality(Loaders') = Cardinality(Loaders) + 1
      BY <2>1, <3>5, OneMoreLoader DEF Loaders
    <3>7. Model!OwnLoadIsWhole'
      <4>1. loads = Cardinality(Loaders)
        BY ModelCardinality DEF Model!OwnLoadIsWhole, Loaders
      <4>2. loads' = Cardinality(Loaders')
        BY <2>2, <3>6, <4>1
      <4>3. \A s \in Texts : text'[s].load # 0 => text'[s].pc # "no tokenizer"
        BY <3>3, <3>4, ModelCardinality DEF Model!OwnLoadIsWhole
      <4>4. translator' # 0
        BY <2>2, <3>0
      <4> QED
        BY <3>4, <4>2, <4>3, <4>4, ModelCardinality DEF Model!OwnLoadIsWhole, Loaders
    <3> QED
      BY <3>1, <3>2, <3>7
  <2>3. CASE Model!Goes(t, "raised", 0) /\ UNCHANGED <<translator, loads, tokenizer>>
    <3>1. TextTyped'
      BY <2>3 DEF TextTyped, TextPC, Model!Goes
    <3>2. TextProgress'
      BY <2>3 DEF TextTyped, TextProgress, Model!Goes
    <3>3. Loaders' = Loaders
      BY <2>1, <2>3, SameLoaders DEF Loaders
    <3>4. \A s \in Texts : s # t => text'[s] = text[s]
      BY <2>3 DEF Model!Goes, TextTyped
    <3>5. text'[t].load = 0
      BY <2>3 DEF Model!Goes, TextTyped
    <3>6. Model!OwnLoadIsWhole'
      BY <2>1, <2>3, <3>3, <3>4, <3>5, ModelCardinality DEF Model!OwnLoadIsWhole, Loaders
    <3> QED
      BY <3>1, <3>2, <3>6
  <2> QED
    BY <1>2, <2>2, <2>3 DEF Model!BuildTranslator
<1>3. ASSUME NEW t \in Texts, Model!LoadTokenizer(t) PROVE TextInv'
  <2>1. /\ text[t].load # 0 /\ translator # 0 /\ text[t].pc = "half"
        /\ UNCHANGED <<translator, loads>>
    BY <1>3 DEF Model!LoadTokenizer, TextProgress
  <2>2. PICK pc \in {"ready", "raised"} :
          /\ Model!Goes(t, pc, text[t].load)
          /\ pc = "ready" => tokenizer' = text[t].load
          /\ pc = "raised" => tokenizer' = tokenizer
    BY <1>3 DEF Model!LoadTokenizer
  <2>3. TextTyped'
    BY <2>1, <2>2 DEF TextTyped, TextPC, Model!Goes
  <2>4. tokenizer # 0 => tokenizer' # 0
    BY <2>1, <2>2
  <2>5. TextProgress'
    BY <2>1, <2>2, <2>4 DEF TextTyped, TextProgress, Model!Goes
  <2>6. Loaders' = Loaders
    BY <2>2, SameLoaders DEF Loaders
  <2>7. \A s \in Texts : s # t => text'[s] = text[s]
    BY <2>2 DEF Model!Goes, TextTyped
  <2>8. text'[t].load = text[t].load /\ text'[t].pc = pc
    BY <2>2 DEF Model!Goes, TextTyped
  <2>9. Model!OwnLoadIsWhole'
    BY <2>1, <2>2, <2>4, <2>6, <2>7, <2>8, ModelCardinality DEF Model!OwnLoadIsWhole, Loaders
  <2> QED
    BY <2>3, <2>5, <2>9
<1>4. ASSUME NEW t \in Texts, Model!Translate(t) PROVE TextInv'
  <2>1. text[t].pc = "ready" /\ UNCHANGED <<translator, tokenizer, loads>>
    BY <1>4 DEF Model!Translate
  <2>2. PICK pc \in {"no tokenizer", "done"} :
          Model!Goes(t, pc, text[t].load) /\ (pc = "no tokenizer" <=> tokenizer = 0)
    BY <1>4 DEF Model!Translate
  <2>3. TextTyped'
    BY <2>1, <2>2 DEF TextTyped, TextPC, Model!Goes
  <2>4. TextProgress'
    BY <2>1, <2>2 DEF TextTyped, TextProgress, Model!Goes
  <2>5. Loaders' = Loaders
    BY <2>2, SameLoaders DEF Loaders
  <2>6. \A s \in Texts : s # t => text'[s] = text[s]
    BY <2>2 DEF Model!Goes, TextTyped
  <2>7. text'[t].load = text[t].load /\ text'[t].pc = pc
    BY <2>2 DEF Model!Goes, TextTyped
  <2>8. text[t].load # 0 => pc # "no tokenizer"
    BY <2>1, <2>2 DEF TextProgress
  <2>9. Model!OwnLoadIsWhole'
    BY <2>1, <2>5, <2>6, <2>7, <2>8, ModelCardinality DEF Model!OwnLoadIsWhole, Loaders
  <2> QED
    BY <2>3, <2>4, <2>9
<1>5. ASSUME UNCHANGED model PROVE TextInv'
  BY <1>5 DEF model, TextTyped, TextProgress, Model!OwnLoadIsWhole
<1> QED
  BY <1>1, <1>2, <1>3, <1>4, <1>5 DEF Model!ModelNext

(* However many requests load the Opus model at once and wherever loads fail:   *)
(* whoever loaded it never meets a missing tokenizer, and each load is counted  *)
(* to one request (OpusMTBackend._ensure_loaded, _load_model, translate).       *)
THEOREM OwnLoadStaysWhole ==
  Model!ModelSpec => []Model!OwnLoadIsWhole
<1>1. Model!ModelInit => TextInv
  BY ModelStarts
<1>2. TextInv /\ (Model!ModelNext \/ UNCHANGED model) => TextInv'
  BY ModelSteps, TextsAssumption
<1>3. TextInv => Model!OwnLoadIsWhole
  BY DEF TextInv
<1> QED
  BY <1>1, <1>2, <1>3, PTL DEF Model!ModelSpec, model, Model!modelVars

------------------------------------------------------------------------------
(* The inference backends.                                                      *)
ChatPC == {"new", "thread", "tags", "ready", "answered",
           "done", "raised", "refused", "missing"}

BackendTyped ==
  /\ impl \in DOMAIN Model!PartsOf
  /\ registered \in BOOLEAN /\ loaded \in BOOLEAN /\ session \in BOOLEAN
  /\ torn \in BOOLEAN /\ closes \in Nat
  /\ chat \in [Model!Tasks -> [pc : ChatPC, put : Nat, cut : BOOLEAN]]

Covers(ps, seq, k) == \A i \in 1..k : seq[i] \in ps
PutSoFar(k) == Covers(parts, Model!PartsOf[impl], k)
BackendWhole == PutSoFar(Len(Model!PartsOf[impl]))

(* A thread has put the parts up to its own place; behind the flag, and for a   *)
(* call that came past it, all parts are there; all this until a close.         *)
ChatStage(c) ==
  /\ chat[c].pc = "new" => chat[c].put = 0
  /\ chat[c].pc = "thread" =>
       /\ impl # "ollama" /\ chat[c].put <= Len(Model!PartsOf[impl])
       /\ ~torn => PutSoFar(chat[c].put)
  /\ chat[c].pc = "tags" => impl = "ollama" /\ (chat[c].cut \/ session)
  /\ chat[c].pc = "ready" => impl # "ollama"
  /\ chat[c].pc \in {"ready", "answered"} /\ impl # "ollama" =>
       chat[c].cut \/ torn \/ BackendWhole
  /\ chat[c].pc = "missing" => chat[c].cut \/ torn

BackendInv ==
  /\ BackendTyped
  /\ loaded /\ ~torn => BackendWhole
  /\ \A c \in Model!Tasks : ChatStage(c)

LEMMA PartsAreCounted ==
  ASSUME impl \in DOMAIN Model!PartsOf
  PROVE  /\ Len(Model!PartsOf[impl]) \in Nat
         /\ DOMAIN Model!PartsOf[impl] = 1..Len(Model!PartsOf[impl])
<1>1. impl \in {"llama_cpp", "transformers", "ctranslate2", "ollama"}
  BY DEF Model!PartsOf
<1>2. CASE impl = "llama_cpp"
  BY <1>2 DEF Model!PartsOf, Model!LlamaParts
<1>3. CASE impl = "transformers"
  BY <1>3 DEF Model!PartsOf, Model!TransformersParts
<1>4. CASE impl = "ctranslate2"
  BY <1>4 DEF Model!PartsOf, Model!CTranslateParts
<1>5. CASE impl = "ollama"
  BY <1>5 DEF Model!PartsOf
<1> QED
  BY <1>1, <1>2, <1>3, <1>4, <1>5

(* All that generate and chat_completion read is put by a load.                 *)
LEMMA WholeSuffices ==
  ASSUME impl \in DOMAIN Model!PartsOf, impl # "ollama", BackendWhole
  PROVE  Model!Generates[impl] \subseteq parts /\ Model!Counts[impl] \subseteq parts
<1>1. impl \in {"llama_cpp", "transformers", "ctranslate2"}
  BY DEF Model!PartsOf
<1>2. CASE impl = "llama_cpp"
  <2>1. Len(Model!PartsOf[impl]) = 1 /\ Model!PartsOf[impl][1] = "llm"
    BY <1>2 DEF Model!PartsOf, Model!LlamaParts
  <2>2. "llm" \in parts
    BY <2>1 DEF BackendWhole, PutSoFar, Covers
  <2>3. Model!Generates[impl] = {"llm"} /\ Model!Counts[impl] = {}
    BY <1>2 DEF Model!Generates, Model!LlamaGenerates, Model!Counts, Model!LlamaCounts
  <2> QED
    BY <2>2, <2>3
<1>3. CASE impl = "transformers"
  <2>1. /\ Len(Model!PartsOf[impl]) = 3
        /\ Model!PartsOf[impl][1] = "tokenizer" /\ Model!PartsOf[impl][3] = "pipeline"
    BY <1>3 DEF Model!PartsOf, Model!TransformersParts
  <2>2. "tokenizer" \in parts /\ "pipeline" \in parts
    BY <2>1 DEF BackendWhole, PutSoFar, Covers
  <2>3. Model!Generates[impl] = {"pipeline"} /\ Model!Counts[impl] = {"tokenizer"}
    BY <1>3 DEF Model!Generates, Model!TransformersGenerates, Model!Counts, Model!TransformersCounts
  <2> QED
    BY <2>2, <2>3
<1>4. CASE impl = "ctranslate2"
  <2>1. /\ Len(Model!PartsOf[impl]) = 2
        /\ Model!PartsOf[impl][1] = "translator" /\ Model!PartsOf[impl][2] = "tokenizer"
    BY <1>4 DEF Model!PartsOf, Model!CTranslateParts
  <2>2. "tokenizer" \in parts /\ "translator" \in parts
    BY <2>1 DEF BackendWhole, PutSoFar, Covers
  <2>3. Model!Generates[impl] = {"translator", "tokenizer"} /\ Model!Counts[impl] = {"tokenizer"}
    BY <1>4 DEF Model!Generates, Model!CTranslateGenerates, Model!Counts, Model!CTranslateCounts
  <2> QED
    BY <2>2, <2>3
<1> QED
  BY <1>1, <1>2, <1>3, <1>4

LEMMA BackendStarts == Model!BackendInit => BackendInv
<1> SUFFICES ASSUME Model!BackendInit PROVE BackendInv
  OBVIOUS
<1>1. BackendTyped
  BY DEF Model!BackendInit, BackendTyped, ChatPC
<1>2. \A c \in Model!Tasks : ChatStage(c)
  BY DEF Model!BackendInit, ChatStage
<1> QED
  BY <1>1, <1>2 DEF Model!BackendInit, BackendInv

(* A step of one task that leaves the parts alone.                              *)
LEMMA TaskMoves ==
  ASSUME BackendInv, NEW c \in Model!Tasks, NEW pc \in ChatPC, Model!Comes(c, pc),
         UNCHANGED <<impl, registered, parts, closes, torn>>,
         session' \in BOOLEAN, session => session',
         loaded' \in BOOLEAN, loaded' /\ ~torn => BackendWhole,
         ChatStage(c)'
  PROVE  BackendInv'
<1>1. BackendTyped'
  BY DEF BackendInv, BackendTyped, Model!Comes
<1>2. \A d \in Model!Tasks : d # c => chat'[d] = chat[d]
  BY DEF BackendInv, BackendTyped, Model!Comes
<1>3. \A d \in Model!Tasks : ChatStage(d)'
  BY <1>2 DEF BackendInv, ChatStage, BackendWhole, PutSoFar, Covers
<1>4. BackendWhole' <=> BackendWhole
  BY DEF BackendWhole, PutSoFar, Covers
<1> QED
  BY <1>1, <1>3, <1>4 DEF BackendInv

LEMMA BackendSteps ==
  ASSUME BackendInv, Model!BackendNext \/ UNCHANGED backend
  PROVE  BackendInv'
<1>0. BackendTyped /\ (loaded /\ ~torn => BackendWhole) /\ \A c \in Model!Tasks : ChatStage(c)
  BY DEF BackendInv
<1>p. Len(Model!PartsOf[impl]) \in Nat
  BY <1>0, PartsAreCounted DEF BackendTyped
<1>m. ASSUME NEW c \in Model!Tasks, NEW pc \in ChatPC, Model!Comes(c, pc)
      PROVE  /\ chat'[c].pc = pc /\ chat'[c].put = chat[c].put /\ chat'[c].cut = chat[c].cut
             /\ chat'[c].cut \in BOOLEAN
  BY <1>0, <1>m DEF BackendTyped, Model!Comes
<1>1. ASSUME NEW c \in Model!Tasks, Model!NotAvailable(c) PROVE BackendInv'
  <2>1. ChatStage(c)'
    BY <1>1, <1>m DEF Model!NotAvailable, ChatStage, ChatPC
  <2> QED
    BY <1>0, <1>1, <2>1, TaskMoves DEF Model!NotAvailable, BackendTyped, ChatPC
<1>2. ASSUME NEW c \in Model!Tasks, Model!EnsureModel(c) PROVE BackendInv'
  <2>1. PICK pc \in {"ready", "done", "thread"} :
          /\ Model!Comes(c, pc) /\ (pc = "ready" => loaded)
          /\ UNCHANGED <<impl, registered, parts, loaded, session, closes, torn>>
          /\ impl # "ollama" /\ chat[c].put = 0
    BY <1>0, <1>2 DEF Model!EnsureModel, Model!ThenGenerates, ChatStage
  <2>2. pc \in ChatPC
    BY DEF ChatPC
  <2>3. PutSoFar(0)' /\ (BackendWhole' <=> BackendWhole)
    BY <2>1 DEF PutSoFar, Covers, BackendWhole
  <2>4. ChatStage(c)'
    BY <1>0, <1>p, <2>1, <2>2, <2>3, <1>m DEF ChatStage
  <2> QED
    BY <1>0, <2>1, <2>2, <2>4, TaskMoves DEF BackendTyped
<1>3. ASSUME NEW c \in Model!Tasks, Model!AskTags(c) PROVE BackendInv'
  <2>1. ChatStage(c)'
    BY <1>3, <1>m DEF Model!AskTags, ChatStage, ChatPC
  <2> QED
    BY <1>0, <1>3, <2>1, TaskMoves DEF Model!AskTags, BackendTyped, ChatPC
<1>4. ASSUME NEW c \in Model!Tasks, Model!PutPart(c) PROVE BackendInv'
  <2> DEFINE k == chat[c].put
  <2>1. /\ chat[c].pc = "thread" /\ k \in Nat /\ k + 1 <= Len(Model!PartsOf[impl])
        /\ parts' = parts \cup {Model!PartsOf[impl][k + 1]}
        /\ UNCHANGED <<impl, registered, loaded, session, closes, torn>>
    BY <1>0, <1>4, <1>p DEF Model!PutPart, BackendTyped
  <2>2. chat' = [chat EXCEPT ![c].put = k + 1]
    BY <1>4 DEF Model!PutPart
  <2>3. BackendTyped'
    BY <1>0, <2>1, <2>2 DEF BackendTyped
  <2>4. /\ \A d \in Model!Tasks : d # c => chat'[d] = chat[d]
        /\ chat'[c].pc = "thread" /\ chat'[c].put = k + 1
    BY <1>0, <2>1, <2>2 DEF BackendTyped
  <2>5. BackendWhole => BackendWhole'
    BY <2>1 DEF BackendWhole, PutSoFar, Covers
  <2>6. \A j \in Nat : PutSoFar(j) => Covers(parts', Model!PartsOf[impl'], j)
    BY <2>1 DEF PutSoFar, Covers
  <2>7. ~torn => Covers(parts', Model!PartsOf[impl'], k + 1)
    <3> SUFFICES ASSUME ~torn, NEW i \in 1..(k + 1) PROVE Model!PartsOf[impl][i] \in parts'
      BY <2>1 DEF PutSoFar, Covers
    <3>1. PutSoFar(k)
      BY <1>0, <2>1 DEF ChatStage
    <3>2. CASE i \in 1..k
      BY <2>1, <3>1, <3>2 DEF PutSoFar, Covers
    <3>3. CASE i = k + 1
      BY <2>1, <3>3
    <3> QED
      BY <2>1, <3>2, <3>3
  <2>8. ChatStage(c)'
    BY <1>0, <2>1, <2>4, <2>7 DEF ChatStage, PutSoFar
  <2>9. ASSUME NEW d \in Model!Tasks, d # c PROVE ChatStage(d)'
    <3>1. ChatStage(d) /\ chat[d].put \in Nat
      BY <1>0 DEF BackendTyped
    <3>2. /\ chat'[d] = chat[d] /\ Model!PartsOf[impl'] = Model!PartsOf[impl]
          /\ impl' = impl /\ torn' = torn /\ session' = session
      BY <2>1, <2>4, <2>9
    <3>3. PutSoFar(chat[d].put) => Covers(parts', Model!PartsOf[impl'], chat'[d].put)
      BY <2>6, <3>1, <3>2
    <3> QED
      BY <2>5, <3>1, <3>2, <3>3 DEF ChatStage, PutSoFar
  <2>10. loaded' /\ ~torn' => BackendWhole'
    BY <1>0, <2>1, <2>5
  <2>11. \A d \in Model!Tasks : ChatStage(d)'
    BY <2>8, <2>9
  <2> QED
    BY <2>3, <2>10, <2>11 DEF BackendInv
<1>5. ASSUME NEW c \in Model!Tasks, Model!LoadFails(c) PROVE BackendInv'
  <2>1. ChatStage(c)'
    BY <1>5, <1>m DEF Model!LoadFails, ChatStage, ChatPC
  <2> QED
    BY <1>0, <1>5, <2>1, TaskMoves DEF Model!LoadFails, BackendTyped, ChatPC
<1>6. ASSUME NEW c \in Model!Tasks, Model!LoadEnds(c) PROVE BackendInv'
  <2>1. PICK pc \in {"ready", "done"} :
          /\ Model!Comes(c, pc) /\ loaded' = TRUE
          /\ UNCHANGED <<impl, registered, parts, session, closes, torn>>
          /\ chat[c].pc = "thread" /\ chat[c].put = Len(Model!PartsOf[impl])
    BY <1>6 DEF Model!LoadEnds, Model!ThenGenerates
  <2>2. impl # "ollama" /\ (~torn => BackendWhole)
    BY <1>0, <2>1 DEF ChatStage, BackendWhole
  <2>3. pc \in ChatPC /\ (BackendWhole' <=> BackendWhole)
    BY <2>1 DEF ChatPC, BackendWhole, PutSoFar, Covers
  <2>4. ChatStage(c)'
    BY <1>0, <2>1, <2>2, <2>3, <1>m DEF ChatStage
  <2> QED
    BY <1>0, <2>1, <2>2, <2>3, <2>4, TaskMoves DEF BackendTyped
<1>7. ASSUME NEW c \in Model!Tasks, Model!PostChat(c) PROVE BackendInv'
  <2>1. PICK pc \in {"done", "answered", "missing"} :
          /\ Model!Comes(c, pc) /\ (pc = "missing" => ~session)
          /\ UNCHANGED <<impl, registered, parts, loaded, session, closes, torn>>
          /\ chat[c].pc = "tags"
    BY <1>7 DEF Model!PostChat
  <2>2. impl = "ollama" /\ (chat[c].cut \/ session)
    BY <1>0, <2>1 DEF ChatStage
  <2>3. pc \in ChatPC
    BY DEF ChatPC
  <2>4. ChatStage(c)'
    BY <2>1, <2>2, <2>3, <1>m DEF ChatStage
  <2> QED
    BY <1>0, <2>1, <2>3, <2>4, TaskMoves DEF BackendTyped
<1>8. ASSUME NEW c \in Model!Tasks, Model!Generate(c) PROVE BackendInv'
  <2>1. PICK pc \in {"answered", "missing"} :
          /\ Model!Comes(c, pc) /\ (pc = "missing" => ~(Model!Generates[impl] \subseteq parts))
          /\ UNCHANGED <<impl, registered, parts, loaded, session, closes, torn>>
          /\ chat[c].pc = "ready"
    BY <1>8 DEF Model!Generate
  <2>2. impl # "ollama" /\ (chat[c].cut \/ torn \/ BackendWhole)
    BY <1>0, <2>1 DEF ChatStage
  <2>3. pc = "missing" => chat[c].cut \/ torn
    BY <1>0, <2>1, <2>2, WholeSuffices DEF BackendTyped
  <2>4. pc \in ChatPC /\ (BackendWhole' <=> BackendWhole)
    BY <2>1 DEF ChatPC, BackendWhole, PutSoFar, Covers
  <2>5. ChatStage(c)'
    BY <2>1, <2>2, <2>3, <2>4, <1>m DEF ChatStage
  <2> QED
    BY <1>0, <2>1, <2>4, <2>5, TaskMoves DEF BackendTyped
<1>9. ASSUME NEW c \in Model!Tasks, Model!CountTokens(c) PROVE BackendInv'
  <2>1. PICK pc \in {"done", "missing"} :
          /\ Model!Comes(c, pc) /\ (pc = "missing" => ~(Model!Counts[impl] \subseteq parts))
          /\ UNCHANGED <<impl, registered, parts, loaded, session, closes, torn>>
          /\ chat[c].pc = "answered"
    BY <1>9 DEF Model!CountTokens
  <2>2. impl # "ollama" => chat[c].cut \/ torn \/ BackendWhole
    BY <1>0, <2>1 DEF ChatStage
  <2>3. impl = "ollama" => pc # "missing"
    BY <2>1 DEF Model!Counts
  <2>4. pc = "missing" => chat[c].cut \/ torn
    BY <1>0, <2>1, <2>2, <2>3, WholeSuffices DEF BackendTyped
  <2>5. pc \in ChatPC
    BY DEF ChatPC
  <2>6. ChatStage(c)'
    BY <2>1, <2>4, <2>5, <1>m DEF ChatStage
  <2> QED
    BY <1>0, <2>1, <2>5, <2>6, TaskMoves DEF BackendTyped
<1>10. ASSUME NEW c \in Model!Tasks, Model!CallFails(c) PROVE BackendInv'
  <2>1. ChatStage(c)'
    BY <1>10, <1>m DEF Model!CallFails, ChatStage, ChatPC
  <2> QED
    BY <1>0, <1>10, <2>1, TaskMoves DEF Model!CallFails, BackendTyped, ChatPC
<1>11. ASSUME Model!CloseBackend PROVE BackendInv'
  <2>1. /\ impl' = impl /\ registered' = registered /\ closes' = closes + 1
        /\ session' = FALSE /\ loaded' = FALSE
    BY <1>11 DEF Model!CloseBackend
  <2>t. ~torn' => ~torn /\ ~\E c \in Model!Tasks : chat[c].pc = "thread" /\ chat[c].put > 0
    BY ONLY <1>11, Zenon DEF Model!CloseBackend
  <2>2. \A c \in Model!Tasks :
          /\ chat'[c].pc = chat[c].pc /\ chat'[c].put = chat[c].put
          /\ chat'[c].cut = (chat[c].cut \/ chat[c].pc \in {"tags", "ready", "answered"})
    BY <1>0, <1>11 DEF Model!CloseBackend, BackendTyped
  <2>3. BackendTyped'
    <3>1. torn' \in BOOLEAN
      BY ONLY <1>11, Zenon DEF Model!CloseBackend
    <3>2. chat' \in [Model!Tasks -> [pc : ChatPC, put : Nat, cut : BOOLEAN]]
      BY <1>0, <1>11 DEF Model!CloseBackend, BackendTyped
    <3>3. registered' \in BOOLEAN /\ loaded' \in BOOLEAN /\ session' \in BOOLEAN
      BY <1>0, <2>1, Zenon DEF BackendTyped
    <3>4. impl' \in DOMAIN Model!PartsOf /\ closes' \in Nat
      BY <1>0, <2>1 DEF BackendTyped
    <3> QED
      BY <3>1, <3>2, <3>3, <3>4, Zenon DEF BackendTyped
  <2>4. ASSUME NEW c \in Model!Tasks PROVE ChatStage(c)'
    <3>1. ChatStage(c) /\ chat[c].put \in Nat
      BY <1>0 DEF BackendTyped
    <3>2. chat[c].pc = "thread" /\ ~torn' => chat[c].put = 0
      BY <2>t, <3>1
    <3>4. torn => torn'
      BY <2>t
    <3>5. chat[c].pc = "thread" /\ ~torn' => Covers(parts', Model!PartsOf[impl'], chat'[c].put)
      BY <2>2, <3>2 DEF Covers
    <3> QED
      BY <2>1, <2>2, <3>1, <3>4, <3>5 DEF ChatStage, PutSoFar
  <2> QED
    BY <2>1, <2>3, <2>4 DEF BackendInv
<1>12. ASSUME UNCHANGED backend PROVE BackendInv'
  BY <1>0, <1>12 DEF backend, BackendInv, BackendTyped, ChatStage, BackendWhole, PutSoFar, Covers
<1> QED
  BY <1>1, <1>2, <1>3, <1>4, <1>5, <1>6, <1>7, <1>8, <1>9, <1>10, <1>11, <1>12
  DEF Model!BackendNext

LEMMA LoadedBackendIsWhole == BackendInv => Model!LoadedIsWhole
<1> SUFFICES ASSUME BackendInv PROVE Model!LoadedIsWhole
  OBVIOUS
<1>1. DOMAIN Model!PartsOf[impl] = 1..Len(Model!PartsOf[impl])
  BY PartsAreCounted DEF BackendInv, BackendTyped
<1> QED
  BY <1>1 DEF BackendInv, Model!LoadedIsWhole, BackendWhole, PutSoFar, Covers, ChatStage

(* However many calls load, complete and fail side by side, and whenever the    *)
(* backend is closed: it says it is loaded only when it is whole, and no call   *)
(* meets a missing part, unless a close came under it or under a load that went *)
(* on (QwenBackend, TransformersBackend, CTranslate2Backend, OllamaBackend).    *)
THEOREM LoadedStaysWhole == Model!BackendSpec => []Model!LoadedIsWhole
<1>1. Model!BackendInit => BackendInv
  BY BackendStarts
<1>2. BackendInv /\ (Model!BackendNext \/ UNCHANGED backend) => BackendInv'
  BY BackendSteps
<1>3. BackendInv => Model!LoadedIsWhole
  BY LoadedBackendIsWhole
<1> QED
  BY <1>1, <1>2, <1>3, PTL DEF Model!BackendSpec, backend, Model!backendVars

-----------------------------------------------------------------------------
(* What is read at the start says what its sources say, for every environment, *)
(* directory of skills and set of requests: the operator's settings win over   *)
(* the profile and no profile brings in a value that the validator rejects     *)
(* (config/validator.py); triggers and listed skills are those of the last     *)
(* load (skills/registry.py); the model of the gateway and the Opus model are  *)
(* whole for whoever finds them loaded.                                        *)
THEOREM StartupStaysSound == EngineSpec => []StartupSound
<1> DEFINE I == /\ ConfigInv /\ Config!PhasesTellOneStory /\ SkillInv
                /\ TextInv /\ BackendInv
<1>1. EngineInit => I
  BY ConfigStarts, PhaseInvariant, SkillStarts, ModelStarts, BackendStarts DEF EngineInit
<1>2. I /\ [EngineNext]_vars => I'
  <2> SUFFICES ASSUME I, [EngineNext]_vars PROVE I'
    OBVIOUS
  <2>1. /\ Config!ConfigNext \/ UNCHANGED config
        /\ Config!PhaseNext \/ UNCHANGED phases
        /\ Skill!SkillNext \/ UNCHANGED skills
        /\ Model!ModelNext \/ UNCHANGED model
        /\ Model!BackendNext \/ UNCHANGED backend
    BY OneServiceSteps
  <2> QED
    BY <2>1, ConfigSteps, PhaseInvariant, SkillSteps, ModelSteps, BackendSteps, TextsAssumption
<1>3. I => StartupSound
  BY LoadedBackendIsWhole DEF StartupSound, ConfigInv, SkillInv, TextInv
<1> HIDE DEF I
<1> QED
  BY <1>1, <1>2, <1>3, PTL DEF EngineSpec

-----------------------------------------------------------------------------
LEMMA LeastNumber ==
  ASSUME NEW S, S \subseteq Nat, S # {}
  PROVE  \E m \in S : \A x \in S : m <= x
<1>1. PICK m \in S : \A x \in S : <<x, m>> \notin OpToRel(<, Nat)
  BY NatLessThanWellFounded, WFMin, Zenon
<1>2. \A x \in S : ~(x < m)
  BY <1>1, Zenon DEF OpToRel
<1>3. m \in Nat /\ \A x \in S : x \in Nat
  OBVIOUS
<1> QED
  BY <1>2, <1>3

-----------------------------------------------------------------------------
(* How plugins are discovered and ordered.  f lists what becomes of x in n    *)
(* turns, the k-th of which makes T[k][y] of y.                               *)
RunsTo(f, n, x, T) == f = [k \in 0..n |-> IF k = 0 THEN x ELSE T[k][f[k - 1]]]

LEMMA RunsAreThere ==
  ASSUME NEW x, NEW T, NEW n \in Nat
  PROVE  \E f : RunsTo(f, n, x, T)
<1> DEFINE S == {i \in Nat : ~\E f : RunsTo(f, i, x, T)}
<1> SUFFICES ASSUME S # {} PROVE FALSE
  OBVIOUS
<1>1. PICK i \in S : \A y \in S : i <= y
  <2>1. S \subseteq Nat
    OBVIOUS
  <2> HIDE DEF S
  <2> QED
    BY <2>1, LeastNumber
<1>2. CASE i = 0
  <2> DEFINE g == [k \in 0..0 |-> x]
  <2>1. \A k \in 0..0 : k = 0
    OBVIOUS
  <2>2. RunsTo(g, 0, x, T)
    BY <2>1 DEF RunsTo
  <2> QED
    BY <1>1, <1>2, <2>2
<1>3. CASE i # 0
  <2>1. i - 1 \in Nat /\ i - 1 < i /\ i \in Nat
    BY <1>1, <1>3
  <2>2. PICK f : RunsTo(f, i - 1, x, T)
    BY <1>1, <2>1
  <2> DEFINE H(h, k) == IF k = 0 THEN x ELSE T[k][h[k - 1]]
             g == [k \in 0..i |-> IF k = i THEN T[i][f[i - 1]] ELSE f[k]]
  <2>3. f = [k \in 0..(i - 1) |-> H(f, k)]
    BY <2>2 DEF RunsTo
  <2>4. ASSUME NEW k \in 0..i PROVE g[k] = H(g, k)
    <3>1. CASE k = i
      <4>1. g[i - 1] = f[i - 1] /\ i # 0 /\ g[k] = T[i][f[i - 1]]
        BY <1>3, <2>1, <3>1
      <4> QED
        BY <3>1, <4>1
    <3>2. CASE k # i /\ k # 0
      <4>1. k \in 0..(i - 1) /\ k - 1 \in 0..i /\ k - 1 # i
        BY <2>1, <3>2
      <4>2. g[k] = f[k] /\ g[k - 1] = f[k - 1]
        BY <3>2, <4>1
      <4> HIDE DEF g
      <4>3. f[k] = T[k][f[k - 1]]
        BY <2>3, <3>2, <4>1
      <4> QED
        BY <3>2, <4>2, <4>3
    <3>3. CASE k # i /\ k = 0
      <4>1. k \in 0..(i - 1)
        BY <2>1, <3>3
      <4>2. g[k] = f[k] /\ f[k] = x
        BY <2>3, <3>3, <4>1
      <4> QED
        BY <3>3, <4>2
    <3> QED
      BY <3>1, <3>2, <3>3
  <2>5. g = [k \in 0..i |-> g[k]]
    OBVIOUS
  <2> HIDE DEF g
  <2>6. \A k \in 0..i : g[k] = H(g, k)
    BY <2>4
  <2> HIDE DEF H
  <2>7. g = [k \in 0..i |-> H(g, k)]
    BY <2>5, <2>6
  <2>8. RunsTo(g, i, x, T)
    BY <2>7 DEF RunsTo, H
  <2> QED
    BY <1>1, <2>8
<1> QED
  BY <1>2, <1>3

(* What holds at first and goes on from turn to turn holds all along.         *)
LEMMA GoesOnHolding ==
  ASSUME NEW n \in Nat, NEW A, NEW F, F[0] \in A[0],
         \A k \in 1..n : F[k - 1] \in A[k - 1] => F[k] \in A[k]
  PROVE  \A k \in 0..n : F[k] \in A[k]
<1> DEFINE S == {k \in 0..n : F[k] \notin A[k]}
<1> SUFFICES ASSUME S # {} PROVE FALSE
  OBVIOUS
<1>1. PICK i \in S : \A x \in S : i <= x
  <2>1. S \subseteq Nat
    OBVIOUS
  <2> HIDE DEF S
  <2> QED
    BY <2>1, LeastNumber
<1>2. i # 0
  BY <1>1
<1>3. i \in 1..n /\ i - 1 \in 0..n /\ i - 1 \notin S
  BY <1>1, <1>2
<1> QED
  BY <1>1, <1>3

-----------------------------------------------------------------------------
(* What is newer than w is no older than anything that w is no older than.    *)
LEMMA NewerCarries ==
  ASSUME NEW v \in Seq(Int), NEW w \in Seq(Int), NEW x \in Seq(Int),
         Life!Newer(v, w), Life!Newer(x, v)
  PROVE  Life!Newer(x, w)
<1>1. PICK k \in DOMAIN v \cap DOMAIN w : v[k] > w[k] /\ \A j \in 1..(k - 1) : v[j] = w[j]
  BY DEF Life!Newer
<1>2. PICK i \in DOMAIN x \cap DOMAIN v : x[i] > v[i] /\ \A j \in 1..(i - 1) : x[j] = v[j]
  BY DEF Life!Newer
<1>3. /\ i \in Nat /\ k \in Nat /\ 1 <= i /\ 1 <= k
      /\ i <= Len(x) /\ i <= Len(v) /\ k <= Len(v) /\ k <= Len(w)
      /\ Len(x) \in Nat /\ Len(v) \in Nat /\ Len(w) \in Nat
      /\ DOMAIN x = 1..Len(x) /\ DOMAIN v = 1..Len(v) /\ DOMAIN w = 1..Len(w)
  OBVIOUS
<1>4. \A j \in Nat : j \in 1..Len(x) => x[j] \in Int
  OBVIOUS
<1>5. \A j \in Nat : j \in 1..Len(v) => v[j] \in Int
  OBVIOUS
<1>6. \A j \in Nat : j \in 1..Len(w) => w[j] \in Int
  OBVIOUS
<1>7. CASE i < k
  <2>1. v[i] = w[i] /\ i \in DOMAIN x \cap DOMAIN w
    BY <1>1, <1>3, <1>7
  <2>2. \A j \in 1..(i - 1) : x[j] = w[j]
    <3>1. \A j \in 1..(i - 1) : j \in 1..(k - 1)
      BY <1>3, <1>7
    <3> QED
      BY <1>1, <1>2, <3>1
  <2>3. x[i] > w[i]
    BY <1>2, <2>1
  <2> QED
    BY <2>1, <2>2, <2>3 DEF Life!Newer
<1>8. CASE ~(i < k)
  <2>1. k \in DOMAIN x \cap DOMAIN w /\ k <= i
    BY <1>3, <1>8
  <2>2. x[k] >= v[k]
    <3>1. CASE k = i
      BY <1>2, <1>3, <1>4, <1>5, <3>1
    <3>2. CASE k # i
      <4>1. k \in 1..(i - 1)
        BY <1>3, <2>1, <3>2
      <4> QED
        BY <1>2, <1>3, <1>5, <4>1
    <3> QED
      BY <3>1, <3>2
  <2>3. x[k] > w[k]
    BY <1>1, <1>3, <1>4, <1>5, <1>6, <2>1, <2>2
  <2>4. \A j \in 1..(k - 1) : x[j] = w[j]
    <3>1. \A j \in 1..(k - 1) : j \in 1..(i - 1)
      BY <1>3, <1>8
    <3> QED
      BY <1>1, <1>2, <3>1
  <2> QED
    BY <2>1, <2>3, <2>4 DEF Life!Newer
<1> QED
  BY <1>7, <1>8

(* The manifests kept of the first k: each name once, in a version that none  *)
(* of them is newer than.                                                     *)
Highest(q, ms, k) ==
  /\ q \in Seq(Life!Manifests)
  /\ \A i, j \in 1..Len(q) : q[i].name = q[j].name => i = j
  /\ \A i \in 1..Len(q) : \E j \in 1..k : ms[j].name = q[i].name
  /\ \A j \in 1..k : \E i \in 1..Len(q) : ms[j].name = q[i].name
  /\ \A j \in 1..k, i \in 1..Len(q) :
       ms[j].name = q[i].name => ~Life!Newer(ms[j].version, q[i].version)

LEMMA KeepsHighest ==
  ASSUME NEW ms \in Seq(Life!Manifests), NEW k \in 1..Len(ms), NEW q, Highest(q, ms, k - 1)
  PROVE  Highest(Life!Keep(q, ms[k]), ms, k)
<1> DEFINE m == ms[k]
           L == Len(q)
<1>1. /\ q \in Seq(Life!Manifests)
      /\ \A i, j \in 1..L : q[i].name = q[j].name => i = j
      /\ \A i \in 1..L : \E j \in 1..(k - 1) : ms[j].name = q[i].name
      /\ \A j \in 1..(k - 1) : \E i \in 1..L : ms[j].name = q[i].name
      /\ \A j \in 1..(k - 1), i \in 1..L :
           ms[j].name = q[i].name => ~Life!Newer(ms[j].version, q[i].version)
  BY DEF Highest
<1>2. /\ m \in Life!Manifests /\ L \in Nat /\ k \in Nat /\ k >= 1
      /\ \A i \in 1..L : q[i] \in Life!Manifests
  BY <1>1
<1>3. /\ DOMAIN q = 1..L /\ \A j \in 1..k : j \in 1..(k - 1) \/ j = k
      /\ \A j \in 1..(k - 1) : j \in 1..k
      /\ k \in 1..k
  BY <1>1, <1>2
<1>4. Life!Names(q) = {q[i].name : i \in 1..L}
  BY <1>3 DEF Life!Names
<1>5. \A v \in Seq(Int) : ~Life!Newer(v, v)
  <2>1. \A v \in Seq(Int) : \A i \in DOMAIN v : v[i] \in Int
    OBVIOUS
  <2>2. \A a \in Int : ~(a > a)
    OBVIOUS
  <2> QED
    BY <2>1, <2>2 DEF Life!Newer
<1>6. /\ \A y \in Life!Manifests : y.version \in Seq(Int)
      /\ \A j \in 1..(k - 1) : ms[j] \in Life!Manifests
  <2>1. \A j \in 1..(k - 1) : j \in 1..Len(ms)
    BY <1>2
  <2>2. \A j \in 1..(k - 1) : ms[j] \in Life!Manifests
    BY <2>1
  <2> QED
    BY <2>2 DEF Life!Manifests
<1> HIDE DEF m, L
<1>7. CASE m.name \notin Life!Names(q)
  <2> DEFINE r == Append(q, m)
  <2>1. Life!Keep(q, m) = r
    BY <1>7 DEF Life!Keep
  <2>2. /\ r \in Seq(Life!Manifests) /\ Len(r) = L + 1 /\ r[L + 1] = m
        /\ \A i \in 1..L : r[i] = q[i]
    BY <1>1, <1>2 DEF L
  <2> HIDE DEF r
  <2>3. /\ \A i \in 1..(L + 1) : i \in 1..L \/ i = L + 1
        /\ \A i \in 1..L : i \in 1..(L + 1)
        /\ L + 1 \in 1..(L + 1)
    BY <1>2
  <2>4. \A i \in 1..L : q[i].name # m.name
    BY <1>4, <1>7
  <2>5. ASSUME NEW i \in 1..(L + 1), NEW j \in 1..(L + 1), r[i].name = r[j].name
        PROVE  i = j
    <3>1. CASE i \in 1..L /\ j \in 1..L
      BY <1>1, <2>2, <2>5, <3>1
    <3>2. CASE i = L + 1 /\ j \in 1..L
      BY <2>2, <2>4, <2>5, <3>2
    <3>3. CASE i \in 1..L /\ j = L + 1
      BY <2>2, <2>4, <2>5, <3>3
    <3> QED
      BY <2>3, <3>1, <3>2, <3>3
  <2>6. \A i \in 1..(L + 1) : \E j \in 1..k : ms[j].name = r[i].name
    <3>1. ms[k].name = r[L + 1].name
      BY <2>2 DEF m
    <3>2. \A i \in 1..L : \E j \in 1..k : ms[j].name = r[i].name
      BY <1>1, <1>3, <2>2
    <3> QED
      BY <1>3, <2>3, <3>1, <3>2
  <2>7. \A j \in 1..k : \E i \in 1..(L + 1) : ms[j].name = r[i].name
    <3>1. ms[k].name = r[L + 1].name
      BY <2>2 DEF m
    <3>2. \A j \in 1..(k - 1) : \E i \in 1..(L + 1) : ms[j].name = r[i].name
      BY <1>1, <2>2, <2>3
    <3> QED
      BY <1>3, <2>3, <3>1, <3>2
  <2>8. ASSUME NEW j \in 1..k, NEW i \in 1..(L + 1), ms[j].name = r[i].name
        PROVE  ~Life!Newer(ms[j].version, r[i].version)
    <3>1. CASE i = L + 1 /\ j = k
      BY <1>2, <1>5, <1>6, <2>2, <3>1 DEF m
    <3>2. CASE i = L + 1 /\ j \in 1..(k - 1)
      <4>1. PICK l \in 1..L : ms[j].name = q[l].name
        BY <1>1, <3>2
      <4> QED
        BY <2>2, <2>4, <2>8, <3>2, <4>1
    <3>3. CASE i \in 1..L /\ j = k
      BY <2>2, <2>4, <2>8, <3>3 DEF m
    <3>4. CASE i \in 1..L /\ j \in 1..(k - 1)
      BY <1>1, <2>2, <2>8, <3>4
    <3> QED
      BY <1>3, <2>3, <3>1, <3>2, <3>3, <3>4
  <2> QED
    BY <2>1, <2>2, <2>5, <2>6, <2>7, <2>8 DEF Highest, m
<1>8. CASE m.name \in Life!Names(q)
  <2> DEFINE r == [i \in 1..L |-> IF q[i].name = m.name /\ Life!Newer(m.version, q[i].version)
                                    THEN m ELSE q[i]]
  <2>1. Life!Keep(q, m) = r
    BY <1>3, <1>8 DEF Life!Keep
  <2>2. r \in Seq(Life!Manifests) /\ Len(r) = L
    BY <1>2
  <2>3. \A i \in 1..L :
          \/ /\ q[i].name = m.name /\ Life!Newer(m.version, q[i].version) /\ r[i] = m
          \/ /\ ~(q[i].name = m.name /\ Life!Newer(m.version, q[i].version)) /\ r[i] = q[i]
    OBVIOUS
  <2> HIDE DEF r
  <2>4. \A i \in 1..L : r[i].name = q[i].name
    BY <2>3
  <2>5. \A i, j \in 1..L : r[i].name = r[j].name => i = j
    BY <1>1, <2>4
  <2>6. \A i \in 1..L : \E j \in 1..k : ms[j].name = r[i].name
    BY <1>1, <1>3, <2>4
  <2>7. \A j \in 1..k : \E i \in 1..L : ms[j].name = r[i].name
    <3>1. \E i \in 1..L : m.name = q[i].name
      BY <1>4, <1>8
    <3>2. \E i \in 1..L : ms[k].name = r[i].name
      BY <2>4, <3>1 DEF m
    <3>3. \A j \in 1..(k - 1) : \E i \in 1..L : ms[j].name = r[i].name
      BY <1>1, <2>4
    <3> QED
      BY <1>3, <3>2, <3>3
  <2>8. ASSUME NEW j \in 1..k, NEW i \in 1..L, ms[j].name = r[i].name
        PROVE  ~Life!Newer(ms[j].version, r[i].version)
    <3>1. ms[j].name = q[i].name
      BY <2>4, <2>8
    <3>2. CASE r[i] = m /\ Life!Newer(m.version, q[i].version) /\ j \in 1..(k - 1)
      <4>1. /\ ms[j].version \in Seq(Int) /\ m.version \in Seq(Int) /\ q[i].version \in Seq(Int)
            /\ ~Life!Newer(ms[j].version, q[i].version)
        BY <1>1, <1>2, <1>6, <3>1, <3>2
      <4> QED
        BY <3>2, <4>1, NewerCarries
    <3>3. CASE r[i] = m /\ j = k
      BY <1>2, <1>5, <1>6, <3>3 DEF m
    <3>4. CASE r[i] = q[i] /\ j \in 1..(k - 1)
      BY <1>1, <3>1, <3>4
    <3>5. CASE r[i] = q[i] /\ j = k /\ ~(q[i].name = m.name /\ Life!Newer(m.version, q[i].version))
      BY <3>1, <3>5 DEF m
    <3> QED
      BY <1>3, <2>3, <3>2, <3>3, <3>4, <3>5
  <2> QED
    BY <2>1, <2>2, <2>5, <2>6, <2>7, <2>8 DEF Highest, m
<1> QED
  BY <1>7, <1>8

(* Discovery gives the manifests that all of ms leave.                        *)
LEMMA DiscoversHighest ==
  ASSUME NEW ms \in Seq(Life!Manifests)
  PROVE  Highest(Life!Discovered(ms), ms, Len(ms))
<1> DEFINE n == Len(ms)
           Q == Seq(Life!Manifests)
           A == [k \in 0..n |-> {q \in Q : Highest(q, ms, k)}]
           T == [k \in 1..n |-> [q \in Q |-> Life!Keep(q, ms[k])]]
           F == CHOOSE final : final = [k \in 0..n |->
                  IF k = 0 THEN <<>> ELSE Life!Keep(final[k - 1], ms[k])]
<1>1. n \in Nat /\ n \in 0..n /\ 0 \in 0..n /\ \A k \in 1..n : k \in 0..n /\ k - 1 \in 0..n /\ k # 0
  OBVIOUS
<1>2. <<>> \in A[0]
  <2>1. <<>> \in Q /\ Len(<<>>) = 0 /\ 1..0 = {}
    OBVIOUS
  <2>2. Highest(<<>>, ms, 0)
    BY <2>1 DEF Highest
  <2> QED
    BY <1>1, <2>1, <2>2
<1>3. \A k \in 1..n : \A q \in A[k - 1] : T[k][q] = Life!Keep(q, ms[k]) /\ T[k][q] \in A[k]
  <2> SUFFICES ASSUME NEW k \in 1..n, NEW q \in A[k - 1]
               PROVE  T[k][q] = Life!Keep(q, ms[k]) /\ T[k][q] \in A[k]
    OBVIOUS
  <2>1. q \in Q /\ Highest(q, ms, k - 1)
    BY <1>1
  <2>2. T[k][q] = Life!Keep(q, ms[k])
    BY <2>1
  <2>3. Highest(Life!Keep(q, ms[k]), ms, k)
    BY <2>1, KeepsHighest
  <2>4. Life!Keep(q, ms[k]) \in Q
    BY <2>3 DEF Highest
  <2> QED
    BY <1>1, <2>2, <2>3, <2>4
<1>4. Life!Discovered(ms) = F[n]
  BY DEF Life!Discovered
<1>5. A[n] = {q \in Q : Highest(q, ms, n)}
  BY <1>1
<1> HIDE DEF A, T, F, Q
<1>6. PICK f : f = [k \in 0..n |-> IF k = 0 THEN <<>> ELSE T[k][f[k - 1]]]
  <2>1. \E f : RunsTo(f, n, <<>>, T)
    BY <1>1, RunsAreThere
  <2> QED
    BY <2>1 DEF RunsTo
<1>7. f[0] = <<>> /\ \A k \in 1..n : f[k] = T[k][f[k - 1]]
  BY <1>1, <1>6
<1>8. \A k \in 0..n : f[k] \in A[k]
  <2>1. \A k \in 1..n : f[k - 1] \in A[k - 1] => f[k] \in A[k]
    BY <1>3, <1>7
  <2>2. f[0] \in A[0]
    BY <1>2, <1>7
  <2> QED
    BY <1>1, <2>1, <2>2, GoesOnHolding
<1>9. f = [k \in 0..n |-> IF k = 0 THEN <<>> ELSE Life!Keep(f[k - 1], ms[k])]
  <2>1. \A k \in 0..n : k # 0 => k \in 1..n /\ k - 1 \in 0..n
    BY <1>1
  <2>2. \A k \in 0..n : k # 0 => T[k][f[k - 1]] = Life!Keep(f[k - 1], ms[k])
    BY <1>3, <1>8, <2>1
  <2> QED
    BY <1>6, <2>2
<1>10. F = [k \in 0..n |-> IF k = 0 THEN <<>> ELSE Life!Keep(F[k - 1], ms[k])]
  BY <1>9, Zenon DEF F
<1>11. F[0] = <<>> /\ \A k \in 1..n : F[k] = Life!Keep(F[k - 1], ms[k])
  BY <1>1, <1>10
<1>12. \A k \in 0..n : F[k] \in A[k]
  <2>1. \A k \in 1..n : F[k - 1] \in A[k - 1] => F[k] \in A[k]
    BY <1>3, <1>11
  <2>2. F[0] \in A[0]
    BY <1>2, <1>11
  <2> QED
    BY <1>1, <2>1, <2>2, GoesOnHolding
<1> QED
  BY <1>1, <1>4, <1>5, <1>12

-----------------------------------------------------------------------------
(* Names with the manifests discovered.                                       *)
Plan(q) ==
  /\ q \in Seq(Life!Manifests)
  /\ \A i, j \in 1..Len(q) : q[i].name = q[j].name => i = j

LEMMA NamedOnce ==
  ASSUME NEW q, Plan(q)
  PROVE  /\ Life!Names(q) = {q[i].name : i \in 1..Len(q)}
         /\ \A i \in 1..Len(q) : Life!Named(q, q[i].name) = q[i]
<1>1. DOMAIN q = 1..Len(q)
  BY DEF Plan
<1>2. ASSUME NEW i \in 1..Len(q) PROVE Life!Named(q, q[i].name) = q[i]
  BY <1>1, <1>2 DEF Plan, Life!Named
<1> QED
  BY <1>1, <1>2 DEF Life!Names

(* Of what is left to do there is something foremost, p being priorities.     *)
Ahead(p, i, j) == p[i] > p[j] \/ (p[i] = p[j] /\ i <= j)

LEMMA AheadIsOrder ==
  ASSUME NEW n \in Nat, NEW p \in [1..n -> Nat]
  PROVE  /\ \A i \in 1..n : Ahead(p, i, i)
         /\ \A i, j \in 1..n : Ahead(p, i, j) \/ Ahead(p, j, i)
         /\ \A i, j, k \in 1..n : Ahead(p, i, j) /\ Ahead(p, j, k) => Ahead(p, i, k)
<1>1. \A i \in 1..n : p[i] \in Nat /\ i \in Nat
  OBVIOUS
<1> QED
  BY <1>1 DEF Ahead

LEMMA SomeIsAhead ==
  ASSUME NEW n \in Nat, NEW p \in [1..n -> Nat], NEW todo, todo \subseteq 1..n, todo # {}
  PROVE  \E i \in todo : \A j \in todo : Ahead(p, i, j)
<1> DEFINE Some(k) == \E i \in todo : i <= k
           Best(k, i) == \A j \in todo : j <= k => Ahead(p, i, j)
           S == {k \in 1..n : Some(k) /\ ~\E i \in todo : Best(k, i)}
<1>0. \A i \in todo : i \in Nat /\ i \in 1..n /\ 1 <= i /\ i <= n
  OBVIOUS
<1>1. /\ \A i \in todo : Ahead(p, i, i)
      /\ \A i, j \in todo : Ahead(p, i, j) \/ Ahead(p, j, i)
      /\ \A i, j, k \in todo : Ahead(p, i, j) /\ Ahead(p, j, k) => Ahead(p, i, k)
  <2>1. /\ \A i \in 1..n : Ahead(p, i, i)
        /\ \A i, j \in 1..n : Ahead(p, i, j) \/ Ahead(p, j, i)
        /\ \A i, j, k \in 1..n : Ahead(p, i, j) /\ Ahead(p, j, k) => Ahead(p, i, k)
    BY AheadIsOrder
  <2> QED
    BY ONLY <2>1, todo \subseteq 1..n, Zenon
<1>2. S \subseteq Nat /\ \A k \in S : k \in 1..n /\ Some(k) /\ ~\E i \in todo : Best(k, i)
  OBVIOUS
<1>3. \A k \in 1..n : Some(k) /\ k \notin S => \E i \in todo : Best(k, i)
  OBVIOUS
<1> HIDE DEF S
<1>4. S = {}
  <2> SUFFICES ASSUME S # {} PROVE FALSE
    OBVIOUS
  <2>1. PICK k \in S : \A x \in S : k <= x
    BY <1>2, LeastNumber
  <2>2. k \in 1..n /\ k \in Nat /\ 1 <= k /\ k <= n /\ k - 1 \notin S
    <3>1. k \in 1..n
      BY <1>2, <2>1
    <3>2. k - 1 \in S => k <= k - 1
      BY <2>1
    <3> QED
      BY ONLY <3>1, <3>2, n \in Nat
  <2>3. Some(k) /\ ~\E i \in todo : Best(k, i)
    BY <1>2, <2>1
  <2>4. \A j \in todo : j <= k <=> (j <= k - 1 \/ j = k)
    BY ONLY <1>0, <2>2
  <2>5. CASE Some(k - 1)
    <3>1. k - 1 \in 1..n
      <4>1. PICK i \in todo : i <= k - 1
        BY <2>5
      <4> QED
        BY ONLY <4>1, <1>0, <2>2, n \in Nat
    <3>2. PICK b \in todo : Best(k - 1, b)
      BY <1>3, <2>2, <2>5, <3>1
    <3> HIDE DEF Some
    <3>3. CASE k \notin todo \/ Ahead(p, b, k)
      <4>1. Best(k, b)
        BY <2>4, <3>2, <3>3
      <4> QED
        BY <2>3, <4>1, Zenon
    <3>4. CASE k \in todo /\ Ahead(p, k, b)
      <4>1. ASSUME NEW j \in todo, j <= k PROVE Ahead(p, k, j)
        <5>1. CASE j = k
          BY <1>1, <5>1
        <5>2. CASE j <= k - 1
          <6>1. Ahead(p, b, j)
            BY <3>2, <5>2
          <6> QED
            BY ONLY <1>1, <3>2, <3>4, <4>1, <6>1, Zenon
        <5> QED
          BY <2>4, <4>1, <5>1, <5>2
      <4>2. Best(k, k)
        BY <4>1
      <4> QED
        BY <2>3, <3>4, <4>2, Zenon
    <3> HIDE DEF Best
    <3> QED
      BY <1>1, <3>2, <3>3, <3>4, Zenon
  <2>6. CASE ~Some(k - 1)
    <3>1. PICK i \in todo : i <= k
      BY <2>3
    <3>2. \A j \in todo : j <= k => j = k
      BY <2>4, <2>6
    <3>3. k \in todo
      BY <3>1, <3>2
    <3>4. Best(k, k)
      BY <1>1, <3>2, <3>3
    <3> HIDE DEF Best
    <3> QED
      BY <2>3, <3>3, <3>4
  <2> QED
    BY <2>5, <2>6
<1>5. n \in 1..n /\ \A j \in todo : j <= n
  <2>1. PICK i \in todo : TRUE
    OBVIOUS
  <2> QED
    BY ONLY <2>1, <1>0, n \in Nat
<1>6. Some(n)
  BY <1>5
<1>7. \E i \in todo : Best(n, i)
  <2> HIDE DEF Some, Best
  <2> QED
    BY <1>3, <1>4, <1>5, <1>6
<1> QED
  BY <1>5, <1>7

LEMMA ForemostIsThere ==
  ASSUME NEW q, Plan(q), NEW todo, todo \subseteq 1..Len(q), todo # {}
  PROVE  /\ Life!Foremost(q, todo) \in todo
         /\ \A j \in todo : q[j].priority <= q[Life!Foremost(q, todo)].priority
<1> DEFINE p == [i \in 1..Len(q) |-> q[i].priority]
<1>1. Len(q) \in Nat /\ \A i \in 1..Len(q) : q[i].priority \in Nat
  <2>1. q \in Seq(Life!Manifests) /\ \A m \in Life!Manifests : m.priority \in Nat
    BY DEF Plan, Life!Manifests
  <2> QED
    BY <2>1
<1>2. p \in [1..Len(q) -> Nat] /\ \A i \in 1..Len(q) : p[i] = q[i].priority
  BY <1>1
<1>3. \A i \in todo : p[i] = q[i].priority /\ p[i] \in Nat
  BY <1>2
<1> HIDE DEF p
<1>4. \E i \in todo : \A j \in todo : Ahead(p, i, j)
  BY <1>1, <1>2, SomeIsAhead
<1>5. PICK i \in todo : \A j \in todo :
        \/ q[i].priority > q[j].priority
        \/ q[i].priority = q[j].priority /\ i <= j
  BY <1>3, <1>4 DEF Ahead
<1>6. /\ Life!Foremost(q, todo) \in todo
      /\ \A j \in todo :
           \/ q[Life!Foremost(q, todo)].priority > q[j].priority
           \/ /\ q[Life!Foremost(q, todo)].priority = q[j].priority
              /\ Life!Foremost(q, todo) <= j
  BY <1>5, Zenon DEF Life!Foremost
<1>7. \A j \in todo : q[j].priority \in Nat
  BY <1>1
<1> DEFINE f == Life!Foremost(q, todo)
<1>8. f \in todo /\ \A j \in todo : q[f].priority > q[j].priority \/ q[f].priority = q[j].priority
  BY <1>6, Zenon
<1> HIDE DEF f
<1>9. q[f].priority \in Nat
  BY <1>7, <1>8
<1>10. \A j \in todo : q[j].priority <= q[f].priority
  BY <1>7, <1>8, <1>9
<1> QED
  BY <1>8, <1>10 DEF f

-----------------------------------------------------------------------------
(* d is n, or something that n needs directly or through others.              *)
Need(q, n, d) ==
  \A S \in SUBSET Life!Names(q) :
    n \in S /\ (\A m \in S : Life!Range(Life!Named(q, m).deps) \subseteq S) => d \in S

(* What is the i-th of r stands behind all it needs, and behind all that has  *)
(* a higher priority than something that needs it.                            *)
Behind(q, r, i) ==
  /\ \A d \in Life!Range(Life!Named(q, r[i]).deps) : \E j \in 1..(i - 1) : r[j] = d
  /\ \E n \in Life!Names(q) :
       /\ Need(q, n, r[i])
       /\ \A x \in Life!Names(q) :
            Life!Named(q, x).priority > Life!Named(q, n).priority =>
              \E j \in 1..(i - 1) : r[j] = x

(* The calls under way, o, and what is resolved, r.                           *)
Explored(q, o, r) ==
  /\ o \in Seq(Life!Names(q)) /\ r \in Seq(Life!Names(q))
  /\ \A i, j \in 1..Len(o) : o[i] = o[j] => i = j
  /\ \A i, j \in 1..Len(r) : r[i] = r[j] => i = j
  /\ \A i \in 1..Len(o), j \in 1..Len(r) : o[i] # r[j]
  /\ \A i \in 1..Len(r) : Behind(q, r, i)
  /\ \A i \in 1..Len(o) : Need(q, o[1], o[i])
  /\ Len(o) > 0 => \A x \in Life!Names(q) :
       Life!Named(q, x).priority > Life!Named(q, o[1]).priority =>
         \E j \in 1..Len(r) : r[j] = x

LEMMA BehindStays ==
  ASSUME NEW q, NEW r \in Seq(Life!Names(q)), NEW x, NEW i \in 1..Len(r), Behind(q, r, i)
  PROVE  Behind(q, Append(r, x), i)
<1> DEFINE w == Append(r, x)
<1>1. \A j \in 1..Len(r) : w[j] = r[j]
  OBVIOUS
<1>2. i \in Nat /\ i <= Len(r) /\ Len(r) \in Nat
  OBVIOUS
<1> HIDE DEF w
<1>3. \A j \in 1..(i - 1) : w[j] = r[j]
  BY <1>1, <1>2
<1>4. w[i] = r[i]
  BY <1>1
<1>5. Behind(q, w, i)
  BY <1>3, <1>4 DEF Behind
<1> QED
  BY <1>5 DEF w

(* visit is called for x.                                                     *)
LEMMA Opens ==
  ASSUME NEW q, NEW o, NEW r, Explored(q, o, r), NEW x \in Life!Names(q),
         \A i \in 1..Len(o) : o[i] # x,
         \A i \in 1..Len(r) : r[i] # x,
         Len(o) > 0 => x \in Life!Range(Life!Named(q, o[Len(o)]).deps),
         Len(o) = 0 => \A y \in Life!Names(q) :
           Life!Named(q, y).priority > Life!Named(q, x).priority =>
             \E j \in 1..Len(r) : r[j] = y
  PROVE  Explored(q, Append(o, x), r)
<1> DEFINE w == Append(o, x)
           L == Len(o)
<1>1. /\ o \in Seq(Life!Names(q)) /\ r \in Seq(Life!Names(q))
      /\ \A i, j \in 1..L : o[i] = o[j] => i = j
      /\ \A i, j \in 1..Len(r) : r[i] = r[j] => i = j
      /\ \A i \in 1..L, j \in 1..Len(r) : o[i] # r[j]
      /\ \A i \in 1..Len(r) : Behind(q, r, i)
      /\ \A i \in 1..L : Need(q, o[1], o[i])
      /\ L > 0 => \A y \in Life!Names(q) :
           Life!Named(q, y).priority > Life!Named(q, o[1]).priority =>
             \E j \in 1..Len(r) : r[j] = y
  BY DEF Explored
<1>2. /\ L \in Nat /\ w \in Seq(Life!Names(q)) /\ Len(w) = L + 1 /\ w[L + 1] = x
      /\ \A i \in 1..L : w[i] = o[i]
  BY <1>1
<1>3. /\ \A i \in 1..L : o[i] # x
      /\ L > 0 => x \in Life!Range(Life!Named(q, o[L]).deps)
      /\ L = 0 => \A y \in Life!Names(q) :
           Life!Named(q, y).priority > Life!Named(q, x).priority =>
             \E j \in 1..Len(r) : r[j] = y
  OBVIOUS
<1> HIDE DEF w, L
<1>4. /\ \A i \in 1..(L + 1) : i \in 1..L \/ i = L + 1
      /\ L > 0 => 1 \in 1..L /\ L \in 1..L
      /\ L = 0 \/ L > 0
  BY <1>2
<1>5. ASSUME NEW i \in 1..(L + 1), NEW j \in 1..(L + 1), w[i] = w[j] PROVE i = j
  <2>1. CASE i \in 1..L /\ j \in 1..L
    BY <1>1, <1>2, <1>5, <2>1
  <2>2. CASE i \in 1..L /\ j = L + 1
    BY <1>2, <1>3, <1>5, <2>2
  <2>3. CASE i = L + 1 /\ j \in 1..L
    BY <1>2, <1>3, <1>5, <2>3
  <2> QED
    BY <1>4, <2>1, <2>2, <2>3
<1>6. ASSUME NEW i \in 1..(L + 1), NEW j \in 1..Len(r) PROVE w[i] # r[j]
  <2>1. CASE i \in 1..L
    BY <1>1, <1>2, <2>1
  <2>2. CASE i = L + 1
    BY <1>2, <2>2
  <2> QED
    BY <1>4, <2>1, <2>2
<1>7. CASE L = 0
  <2>1. w[1] = x /\ \A i \in 1..(L + 1) : i = 1
    BY <1>2, <1>7
  <2>2. \A i \in 1..(L + 1) : Need(q, w[1], w[i])
    BY <2>1 DEF Need
  <2> QED
    BY <1>1, <1>2, <1>3, <1>5, <1>6, <1>7, <2>1, <2>2 DEF Explored, w
<1>8. CASE L > 0
  <2>1. w[1] = o[1] /\ w[L] = o[L] /\ Need(q, o[1], o[L]) /\ o[L] \in Life!Names(q)
    <3>1. 1 \in 1..L /\ L \in 1..L
      BY <1>4, <1>8
    <3>2. o[L] \in Life!Names(q)
      BY <1>1, <3>1 DEF L
    <3> QED
      BY <1>1, <1>2, <3>1, <3>2
  <2>2. Need(q, o[1], x)
    <3> SUFFICES ASSUME NEW S \in SUBSET Life!Names(q), o[1] \in S,
                        \A m \in S : Life!Range(Life!Named(q, m).deps) \subseteq S
                 PROVE  x \in S
      BY DEF Need
    <3>1. o[L] \in S
      BY <2>1 DEF Need
    <3> QED
      BY <1>3, <1>8, <3>1
  <2>3. \A i \in 1..(L + 1) : Need(q, w[1], w[i])
    BY <1>1, <1>2, <1>4, <2>1, <2>2
  <2> QED
    BY <1>1, <1>2, <1>5, <1>6, <1>8, <2>1, <2>3 DEF Explored, w
<1> QED
  BY <1>4, <1>7, <1>8

(* The innermost call of visit returns.                                       *)
LEMMA Closes ==
  ASSUME NEW q, NEW o, NEW r, Explored(q, o, r), Len(o) > 0,
         \A d \in Life!Range(Life!Named(q, o[Len(o)]).deps) : \E j \in 1..Len(r) : r[j] = d
  PROVE  /\ Explored(q, SubSeq(o, 1, Len(o) - 1), Append(r, o[Len(o)]))
         /\ Len(SubSeq(o, 1, Len(o) - 1)) = Len(o) - 1
<1> DEFINE L == Len(o)
           M == Len(r)
           v == SubSeq(o, 1, L - 1)
           w == Append(r, o[L])
<1>1. /\ o \in Seq(Life!Names(q)) /\ r \in Seq(Life!Names(q))
      /\ \A i, j \in 1..L : o[i] = o[j] => i = j
      /\ \A i, j \in 1..M : r[i] = r[j] => i = j
      /\ \A i \in 1..L, j \in 1..M : o[i] # r[j]
      /\ \A i \in 1..M : Behind(q, r, i)
      /\ \A i \in 1..L : Need(q, o[1], o[i])
      /\ \A y \in Life!Names(q) :
           Life!Named(q, y).priority > Life!Named(q, o[1]).priority =>
             \E j \in 1..M : r[j] = y
  BY DEF Explored
<1>2. /\ L \in Nat /\ L > 0 /\ M \in Nat
      /\ L \in 1..L /\ 1 \in 1..L /\ L - 1 \in 0..L
  BY <1>1
<1>3. o[L] \in Life!Names(q) /\ o[1] \in Life!Names(q)
  BY <1>1, <1>2
<1>4. /\ v \in Seq(Life!Names(q)) /\ Len(v) = L - 1
      /\ \A i \in 1..(L - 1) : v[i] = o[i]
  <2>1. /\ SubSeq(o, 1, L - 1) \in Seq(Life!Names(q))
        /\ Len(SubSeq(o, 1, L - 1)) = IF 1 <= L - 1 THEN (L - 1) - 1 + 1 ELSE 0
        /\ \A i \in 1..((L - 1) - 1 + 1) : SubSeq(o, 1, L - 1)[i] = o[1 + i - 1]
    <3>1. /\ 1 \in 1..(Len(o) + 1) /\ L - 1 \in 0..Len(o) /\ o \in Seq(Life!Names(q))
          /\ 1 \in Int /\ L - 1 \in Int
          /\ \A i \in 1..(L - 1) : o[i] \in Life!Names(q)
      BY <1>1, <1>2
    <3> QED
      BY <3>1, SubSeqProperties
  <2> HIDE DEF L, v
  <2>2. /\ (L - 1) - 1 + 1 = L - 1
        /\ \A i \in 1..(L - 1) : 1 + i - 1 = i
        /\ 1 <= L - 1 \/ L - 1 = 0
    BY <1>2
  <2>3. v = SubSeq(o, 1, L - 1)
    BY DEF v
  <2> QED
    BY <2>1, <2>2, <2>3
<1>5. /\ w \in Seq(Life!Names(q)) /\ Len(w) = M + 1 /\ w[M + 1] = o[L]
      /\ \A i \in 1..M : w[i] = r[i]
  BY <1>1, <1>2, <1>3
<1>6. \A d \in Life!Range(Life!Named(q, o[L]).deps) : \E j \in 1..M : r[j] = d
  OBVIOUS
<1>7. \A i \in 1..M : Behind(q, w, i)
  BY <1>1, BehindStays
<1> HIDE DEF L, M, v, w
<1>8. /\ \A i \in 1..(M + 1) : i \in 1..M \/ i = M + 1
      /\ \A i \in 1..(L - 1) : i \in 1..L /\ i # L
      /\ (M + 1) - 1 = M
      /\ L - 1 > 0 => 1 \in 1..(L - 1)
      /\ \A j \in 1..M : j \in 1..(M + 1)
  BY <1>2
<1>9. Behind(q, w, M + 1)
  <2>1. \A d \in Life!Range(Life!Named(q, w[M + 1]).deps) : \E j \in 1..M : w[j] = d
    BY <1>5, <1>6
  <2>2. Need(q, o[1], w[M + 1])
    BY <1>1, <1>2, <1>5
  <2>3. \A y \in Life!Names(q) :
          Life!Named(q, y).priority > Life!Named(q, o[1]).priority =>
            \E j \in 1..M : w[j] = y
    BY <1>1, <1>5
  <2> QED
    BY <1>3, <1>8, <2>1, <2>2, <2>3 DEF Behind
<1>10. \A i \in 1..(M + 1) : Behind(q, w, i)
  BY <1>7, <1>8, <1>9
<1>11. ASSUME NEW i \in 1..(M + 1), NEW j \in 1..(M + 1), w[i] = w[j] PROVE i = j
  <2>1. CASE i \in 1..M /\ j \in 1..M
    BY <1>1, <1>5, <1>11, <2>1
  <2>2. CASE i \in 1..M /\ j = M + 1
    BY <1>1, <1>2, <1>5, <1>11, <2>2
  <2>3. CASE i = M + 1 /\ j \in 1..M
    BY <1>1, <1>2, <1>5, <1>11, <2>3
  <2> QED
    BY <1>8, <2>1, <2>2, <2>3
<1>12. ASSUME NEW i \in 1..(L - 1), NEW j \in 1..(M + 1) PROVE v[i] # w[j]
  <2>0. v[i] = o[i] /\ i \in 1..L /\ i # L
    BY <1>4, <1>8
  <2>1. CASE j \in 1..M
    <3>1. w[j] = r[j] /\ o[i] # r[j]
      BY <1>1, <1>5, <2>0, <2>1
    <3> QED
      BY <2>0, <3>1
  <2>2. CASE j = M + 1
    <3>1. w[j] = o[L] /\ o[i] # o[L]
      BY <1>1, <1>2, <1>5, <2>0, <2>2
    <3> QED
      BY <2>0, <3>1
  <2> QED
    BY <1>8, <2>1, <2>2
<1>13. \A i, j \in 1..(L - 1) : v[i] = v[j] => i = j
  BY <1>1, <1>4, <1>8
<1>14. L - 1 > 0 => v[1] = o[1]
  BY <1>4, <1>8
<1>15. \A i \in 1..(L - 1) : Need(q, v[1], v[i])
  <2>1. \A i \in 1..(L - 1) : L - 1 > 0
    BY <1>2
  <2> QED
    BY <1>1, <1>4, <1>8, <1>14, <2>1
<1>16. L - 1 > 0 => \A y \in Life!Names(q) :
         Life!Named(q, y).priority > Life!Named(q, v[1]).priority =>
           \E j \in 1..(M + 1) : w[j] = y
  BY <1>1, <1>5, <1>8, <1>14
<1>17. Explored(q, v, w)
  BY <1>4, <1>5, <1>10, <1>11, <1>12, <1>13, <1>15, <1>16 DEF Explored
<1> QED
  BY <1>4, <1>17 DEF v, w, L

(* Different names are no more than the manifests.                            *)
LEMMA NamesFit ==
  ASSUME NEW q, Plan(q), NEW s \in Seq(Life!Names(q)),
         \A i, j \in 1..Len(s) : s[i] = s[j] => i = j
  PROVE  Len(s) <= Len(q)
<1> DEFINE f == [i \in 1..Len(s) |-> CHOOSE j \in 1..Len(q) : q[j].name = s[i]]
<1>1. Len(s) \in Nat /\ Len(q) \in Nat /\ \A i \in 1..Len(s) : s[i] \in Life!Names(q)
  BY DEF Plan
<1>2. \A i \in 1..Len(s) : \E j \in 1..Len(q) : q[j].name = s[i]
  BY <1>1, NamedOnce
<1>3. \A i \in 1..Len(s) : f[i] \in 1..Len(q) /\ q[f[i]].name = s[i]
  BY <1>2
<1>4. f \in [1..Len(s) -> 1..Len(q)]
  BY <1>3
<1> HIDE DEF f
<1>5. ~\E i, j \in 1..Len(s) : i # j /\ f[i] = f[j]
  BY <1>3
<1>6. /\ IsFiniteSet(1..Len(s)) /\ Cardinality(1..Len(s)) = Len(s)
      /\ IsFiniteSet(1..Len(q)) /\ Cardinality(1..Len(q)) = Len(q)
  <2>1. \A n \in Nat : IsFiniteSet(1..n) /\ Cardinality(1..n) = n
    <3> TAKE n \in Nat
    <3>1. /\ IsFiniteSet(1..n)
          /\ Cardinality(1..n) = IF 1 > n THEN 0 ELSE n - 1 + 1
      BY FS_Interval
    <3> QED
      BY <3>1
  <2> QED
    BY <1>1, <2>1
<1>7. ~(Cardinality(1..Len(q)) < Cardinality(1..Len(s)))
  BY <1>4, <1>5, <1>6, FS_PigeonHole, Zenon
<1> QED
  BY <1>1, <1>6, <1>7

LEMMA BothFit ==
  ASSUME NEW q, Plan(q), NEW o, NEW r, Explored(q, o, r)
  PROVE  Len(o) + Len(r) <= Len(q)
<1> DEFINE s == o \o r
           L == Len(o)
           M == Len(r)
<1>1. /\ o \in Seq(Life!Names(q)) /\ r \in Seq(Life!Names(q))
      /\ \A i, j \in 1..L : o[i] = o[j] => i = j
      /\ \A i, j \in 1..M : r[i] = r[j] => i = j
      /\ \A i \in 1..L, j \in 1..M : o[i] # r[j]
  BY DEF Explored
<1>2. /\ s \in Seq(Life!Names(q)) /\ Len(s) = L + M /\ L \in Nat /\ M \in Nat
      /\ \A i \in 1..L : s[i] = o[i]
      /\ \A i \in 1..(L + M) : ~(i <= L) => s[i] = r[i - L]
  BY <1>1
<1> HIDE DEF s, L, M
<1>3. \A i \in 1..(L + M) : \/ i \in 1..L
                            \/ ~(i <= L) /\ i - L \in 1..M
  BY <1>2
<1>4. ASSUME NEW i \in 1..(L + M), NEW j \in 1..(L + M), s[i] = s[j] PROVE i = j
  <2>1. CASE i \in 1..L /\ j \in 1..L
    BY <1>1, <1>2, <1>4, <2>1
  <2>2. CASE i \in 1..L /\ ~(j <= L) /\ j - L \in 1..M
    <3>1. s[i] = o[i] /\ s[j] = r[j - L] /\ o[i] # r[j - L]
      BY <1>1, <1>2, <2>2
    <3> QED
      BY <1>4, <3>1
  <2>3. CASE j \in 1..L /\ ~(i <= L) /\ i - L \in 1..M
    <3>1. s[j] = o[j] /\ s[i] = r[i - L] /\ o[j] # r[i - L]
      BY <1>1, <1>2, <2>3
    <3> QED
      BY <1>4, <3>1
  <2>4. CASE ~(i <= L) /\ i - L \in 1..M /\ ~(j <= L) /\ j - L \in 1..M
    <3>1. s[i] = r[i - L] /\ s[j] = r[j - L]
      BY <1>2, <2>4
    <3>2. i - L = j - L
      BY <1>1, <1>4, <2>4, <3>1
    <3> QED
      BY <1>2, <3>2
  <2> QED
    BY <1>3, <2>1, <2>2, <2>3, <2>4
<1>5. Len(s) <= Len(q)
  BY <1>2, <1>4, NamesFit
<1> QED
  BY <1>2, <1>5 DEF L, M

LEMMA AllAreThere ==
  ASSUME NEW q, Plan(q), NEW r \in Seq(Life!Names(q)),
         \A i, j \in 1..Len(r) : r[i] = r[j] => i = j,
         Len(r) >= Len(q), NEW x \in Life!Names(q)
  PROVE  \E j \in 1..Len(r) : r[j] = x
<1> SUFFICES ASSUME \A j \in 1..Len(r) : r[j] # x PROVE FALSE
  OBVIOUS
<1> DEFINE s == Append(r, x)
           M == Len(r)
<1>1. /\ s \in Seq(Life!Names(q)) /\ Len(s) = M + 1 /\ M \in Nat /\ s[M + 1] = x
      /\ \A i \in 1..M : s[i] = r[i] /\ r[i] # x
      /\ \A i, j \in 1..M : r[i] = r[j] => i = j
  OBVIOUS
<1> HIDE DEF s, M
<1>2. \A i \in 1..(M + 1) : i \in 1..M \/ i = M + 1
  BY <1>1
<1>3. \A i, j \in 1..(M + 1) : s[i] = s[j] => i = j
  BY <1>1, <1>2
<1>4. Len(s) <= Len(q)
  BY <1>1, <1>3, NamesFit
<1>5. Len(q) \in Nat /\ M >= Len(q)
  BY DEF Plan, M
<1> QED
  BY <1>1, <1>4, <1>5

-----------------------------------------------------------------------------
(* The search after k turns.                                                  *)
Finished(q, s) ==
  /\ s.open = <<>>
  /\ \A x \in Life!Names(q) : \E j \in 1..Len(s.resolved) : s.resolved[j] = x

SearchStates(q) ==
  [ok : BOOLEAN, open : Seq(Life!Names(q)), resolved : Seq(Life!Names(q))]

InSearch(q, s, k) ==
  /\ s \in SearchStates(q)
  /\ s.ok => /\ Explored(q, s.open, s.resolved)
             /\ Finished(q, s) \/ Len(s.open) + 2 * Len(s.resolved) = k

LEMMA Searches ==
  ASSUME NEW q, Plan(q), NEW k \in Nat, NEW s, InSearch(q, s, k)
  PROVE  InSearch(q, Life!Search(q, s), k + 1)
<1> DEFINE o == s.open
           r == s.resolved
           list == IF o = <<>> THEN [i \in DOMAIN q |-> q[i].name]
                   ELSE Life!Named(q, o[Len(o)]).deps
           todo == {i \in DOMAIN list : list[i] \notin Life!Range(r)}
           name == list[IF o = <<>> THEN Life!Foremost(q, todo) ELSE Life!Min(todo)]
           t == Life!Search(q, s)
<1>1. t = IF ~s.ok \/ (todo = {} /\ o = <<>>) THEN s
          ELSE IF todo = {}
            THEN [s EXCEPT !.open = SubSeq(o, 1, Len(o) - 1),
                           !.resolved = Append(r, o[Len(o)])]
          ELSE IF name \in Life!Range(o) \/ name \notin Life!Names(q) THEN [s EXCEPT !.ok = FALSE]
          ELSE [s EXCEPT !.open = Append(o, name)]
  BY DEF Life!Search, Life!Last, Life!Front
<1>2. /\ s \in SearchStates(q)
      /\ o \in Seq(Life!Names(q)) /\ r \in Seq(Life!Names(q))
      /\ s.ok => Explored(q, o, r) /\ (Finished(q, s) \/ Len(o) + 2 * Len(r) = k)
  BY DEF InSearch, SearchStates
<1>3. /\ Len(o) \in Nat /\ Len(r) \in Nat /\ (o = <<>> <=> Len(o) = 0)
      /\ Life!Range(o) = {o[i] : i \in 1..Len(o)}
      /\ Life!Range(r) = {r[i] : i \in 1..Len(r)}
  <2>1. DOMAIN o = 1..Len(o) /\ DOMAIN r = 1..Len(r)
    BY <1>2
  <2> HIDE DEF o, r
  <2>2. Life!Range(o) = {o[i] : i \in 1..Len(o)} /\ Life!Range(r) = {r[i] : i \in 1..Len(r)}
    BY <2>1 DEF Life!Range
  <2> QED
    BY <1>2, <2>2
<1>4. CASE ~s.ok
  <2>1. t = s
    BY <1>1, <1>4
  <2> QED
    BY <1>2, <1>4, <2>1 DEF InSearch
<1>5. CASE s.ok /\ o = <<>>
  <2>1. /\ list = [i \in 1..Len(q) |-> q[i].name]
        /\ todo = {i \in 1..Len(q) : q[i].name \notin Life!Range(r)}
        /\ name = list[Life!Foremost(q, todo)]
    <3>1. DOMAIN q = 1..Len(q)
      BY DEF Plan
    <3> HIDE DEF r, o
    <3>2. list = [i \in 1..Len(q) |-> q[i].name]
      BY <1>5, <3>1
    <3> QED
      BY <1>5, <3>2
  <2> HIDE DEF o, r, list, todo, name, t
  <2>2. CASE todo = {}
    <3>1. t = s
      BY <1>1, <1>5, <2>2
    <3>2. \A x \in Life!Names(q) : \E j \in 1..Len(r) : r[j] = x
      <4>1. \A i \in 1..Len(q) : q[i].name \in Life!Range(r)
        BY <2>1, <2>2
      <4> QED
        BY <1>3, <4>1, NamedOnce
    <3>3. Finished(q, s)
      BY <1>5, <3>2 DEF Finished, o, r
    <3> QED
      BY <1>2, <3>1, <3>3 DEF InSearch, o, r, t
  <2>3. CASE todo # {}
    <3> DEFINE f == Life!Foremost(q, todo)
    <3>1. f \in todo /\ \A j \in todo : q[j].priority <= q[f].priority
      <4>1. todo \subseteq 1..Len(q)
        BY <2>1
      <4> QED
        BY <2>3, <4>1, ForemostIsThere
    <3>2. name = list[f]
      BY <2>1
    <3> HIDE DEF f
    <3>3. name = q[f].name /\ name \in Life!Names(q) /\ name \notin Life!Range(r)
          /\ Life!Named(q, name) = q[f]
      <4>1. f \in 1..Len(q) /\ q[f].name \notin Life!Range(r)
        BY <2>1, <3>1
      <4>2. name = q[f].name
        BY <2>1, <3>2, <4>1
      <4> QED
        BY <4>1, <4>2, NamedOnce
    <3>4. name \notin Life!Range(o) /\ Len(o) = 0
      BY <1>3, <1>5
    <3>5. t = [s EXCEPT !.open = Append(o, name)]
      BY <1>1, <1>5, <2>3, <3>3, <3>4
    <3>6. \A y \in Life!Names(q) :
            Life!Named(q, y).priority > Life!Named(q, name).priority =>
              \E j \in 1..Len(r) : r[j] = y
      <4> SUFFICES ASSUME NEW y \in Life!Names(q),
                          Life!Named(q, y).priority > Life!Named(q, name).priority
                   PROVE  y \in Life!Range(r)
        BY <1>3
      <4>1. PICK j \in 1..Len(q) : y = q[j].name /\ Life!Named(q, y) = q[j]
        BY NamedOnce
      <4>2. q[j].priority \in Nat /\ q[f].priority \in Nat
        <5>1. /\ q \in Seq(Life!Manifests) /\ f \in 1..Len(q)
              /\ \A m \in Life!Manifests : m.priority \in Nat
          BY <2>1, <3>1 DEF Plan, Life!Manifests
        <5> QED
          BY <4>1, <5>1
      <4>3. q[j].priority > q[f].priority
        BY <3>3, <4>1
      <4>4. j \notin todo
        BY <3>1, <4>2, <4>3
      <4> QED
        BY <2>1, <4>1, <4>4
    <3>7. Explored(q, Append(o, name), r)
      <4>1. Explored(q, o, r) /\ \A i \in 1..Len(r) : r[i] # name
        BY <1>2, <1>3, <1>5, <3>3
      <4>2. /\ \A i \in 1..Len(o) : o[i] # name
            /\ Len(o) > 0 => name \in Life!Range(Life!Named(q, o[Len(o)]).deps)
        BY <3>4
      <4> QED
        BY <3>3, <3>6, <4>1, <4>2, Opens
    <3>8. Len(Append(o, name)) + 2 * Len(r) = k + 1
      <4>1. ~Finished(q, s)
        <5>1. PICK i \in 1..Len(q) : q[i].name \notin Life!Range(r)
          BY <2>1, <2>3
        <5>2. q[i].name \in Life!Names(q)
          BY NamedOnce
        <5> QED
          BY <1>3, <5>1, <5>2 DEF Finished, r
      <4>2. Len(Append(o, name)) = Len(o) + 1
        BY <1>2
      <4> QED
        BY <1>2, <1>3, <1>5, <4>1, <4>2
    <3>9. /\ t \in SearchStates(q) /\ t.open = Append(o, name) /\ t.resolved = r
      <4>1. Append(o, name) \in Seq(Life!Names(q))
        BY <1>2, <3>3
      <4> QED
        BY <1>2, <3>5, <4>1 DEF SearchStates, r
    <3> QED
      BY <3>7, <3>8, <3>9 DEF InSearch, t
  <2> QED
    BY <2>2, <2>3
<1>6. CASE s.ok /\ o # <<>>
  <2>1. /\ list = Life!Named(q, o[Len(o)]).deps
        /\ todo = {i \in DOMAIN list : list[i] \notin Life!Range(r)}
        /\ name = list[Life!Min(todo)]
    BY <1>6
  <2>2. Len(o) > 0 /\ o[Len(o)] \in Life!Names(q)
    BY <1>2, <1>3, <1>6
  <2>3. list \in Seq(STRING)
    <3> HIDE DEF o, list
    <3>1. PICK i \in 1..Len(q) : o[Len(o)] = q[i].name /\ Life!Named(q, o[Len(o)]) = q[i]
      BY <2>2, NamedOnce
    <3>2. q[i] \in Life!Manifests
      BY DEF Plan
    <3>3. q[i].deps \in Seq(STRING)
      BY <3>2 DEF Life!Manifests
    <3> QED
      BY <2>1, <3>1, <3>3
  <2>4. Explored(q, o, r) /\ (Finished(q, s) \/ Len(o) + 2 * Len(r) = k) /\ ~Finished(q, s)
    BY <1>2, <1>6 DEF Finished
  <2> HIDE DEF o, r, list, todo, name, t
  <2>5. CASE todo = {}
    <3> DEFINE v == SubSeq(o, 1, Len(o) - 1)
               w == Append(r, o[Len(o)])
    <3>1. t = [s EXCEPT !.open = v, !.resolved = w]
      BY <1>1, <1>6, <2>5
    <3>2. Explored(q, v, w) /\ Len(v) = Len(o) - 1
      <4>1. \A d \in Life!Range(list) : d \in Life!Range(r)
        BY <2>1, <2>5 DEF Life!Range
      <4>2. \A d \in Life!Range(Life!Named(q, o[Len(o)]).deps) : \E j \in 1..Len(r) : r[j] = d
        BY <1>3, <2>1, <4>1
      <4> QED
        BY <2>2, <2>4, <4>2, Closes
    <3>3. Len(w) = Len(r) + 1
      BY <1>2, <2>2
    <3> HIDE DEF v, w
    <3>4. Len(v) + 2 * Len(w) = k + 1
      BY <1>3, <2>4, <3>2, <3>3
    <3>5. t \in SearchStates(q) /\ t.open = v /\ t.resolved = w
      <4>1. v \in Seq(Life!Names(q)) /\ w \in Seq(Life!Names(q))
        BY <3>2 DEF Explored
      <4> QED
        BY <1>2, <3>1, <4>1 DEF SearchStates
    <3> QED
      BY <3>2, <3>4, <3>5 DEF InSearch, t
  <2>6. CASE todo # {} /\ (name \in Life!Range(o) \/ name \notin Life!Names(q))
    <3>1. t = [s EXCEPT !.ok = FALSE]
      BY <1>1, <1>6, <2>6
    <3>2. t \in SearchStates(q) /\ ~t.ok
      BY <1>2, <3>1 DEF SearchStates
    <3> QED
      BY <3>2 DEF InSearch, t
  <2>7. CASE todo # {} /\ name \notin Life!Range(o) /\ name \in Life!Names(q)
    <3>1. t = [s EXCEPT !.open = Append(o, name)]
      BY <1>1, <1>6, <2>7
    <3>2. Life!Min(todo) \in todo
      <4>1. todo \subseteq Nat
        BY <2>1, <2>3
      <4>2. \E m \in todo : \A x \in todo : m <= x
        BY <2>7, <4>1, LeastNumber
      <4> QED
        BY <4>2, Zenon DEF Life!Min
    <3>3. name \in Life!Range(list) /\ name \notin Life!Range(r)
      BY <2>1, <3>2 DEF Life!Range
    <3>4. Explored(q, Append(o, name), r)
      <4>1. /\ \A i \in 1..Len(o) : o[i] # name
            /\ \A i \in 1..Len(r) : r[i] # name
        BY <1>3, <2>7, <3>3
      <4>2. name \in Life!Range(Life!Named(q, o[Len(o)]).deps) /\ ~(Len(o) = 0)
        BY <2>1, <2>2, <3>3
      <4> QED
        BY <2>4, <2>7, <4>1, <4>2, Opens
    <3>5. Len(Append(o, name)) + 2 * Len(r) = k + 1
      <4>1. Len(Append(o, name)) = Len(o) + 1
        BY <1>2
      <4> QED
        BY <1>3, <2>4, <4>1
    <3>6. /\ t \in SearchStates(q) /\ t.open = Append(o, name) /\ t.resolved = r
      <4>1. Append(o, name) \in Seq(Life!Names(q))
        BY <1>2, <2>7
      <4> QED
        BY <1>2, <3>1, <4>1 DEF SearchStates, r
    <3> QED
      BY <3>4, <3>5, <3>6 DEF InSearch, t
  <2> QED
    BY <2>5, <2>6, <2>7
<1> QED
  BY <1>2, <1>4, <1>5, <1>6 DEF SearchStates

(* What the resolved order is, where there is one.                            *)
Orders(q, r) ==
  /\ r \in Seq(Life!Names(q))
  /\ \A i, j \in 1..Len(r) : r[i] = r[j] => i = j
  /\ \A x \in Life!Names(q) : \E j \in 1..Len(r) : r[j] = x
  /\ \A i \in 1..Len(r) : Behind(q, r, i)

LEMMA OrderIsFound ==
  ASSUME NEW q, Plan(q), Life!ResolveLoadOrder(q).ok
  PROVE  Orders(q, Life!ResolveLoadOrder(q).resolved)
<1> DEFINE n == 2 * Len(q)
           X == [ok |-> TRUE, open |-> <<>>, resolved |-> <<>>]
           A == [k \in 0..n |-> {s \in SearchStates(q) : InSearch(q, s, k)}]
           T == [k \in 1..n |-> [s \in SearchStates(q) |-> Life!Search(q, s)]]
           F == CHOOSE after : after = [k \in 0..n |->
                  IF k = 0 THEN X ELSE Life!Search(q, after[k - 1])]
<1>1. /\ Len(q) \in Nat /\ n \in Nat /\ n \in 0..n /\ 0 \in 0..n
      /\ \A k \in 1..n : k \in 0..n /\ k - 1 \in 0..n /\ k - 1 \in Nat /\ k # 0 /\ (k - 1) + 1 = k
  <2>1. Len(q) \in Nat
    BY DEF Plan
  <2>2. n \in Nat
    BY <2>1
  <2> HIDE DEF n
  <2> QED
    BY <2>1, <2>2
<1>2. X \in A[0]
  <2>1. X \in SearchStates(q) /\ X.open = <<>> /\ X.resolved = <<>>
    BY DEF SearchStates
  <2>2. Explored(q, <<>>, <<>>)
    BY DEF Explored
  <2>3. Len(<<>>) + 2 * Len(<<>>) = 0
    OBVIOUS
  <2> HIDE DEF X
  <2>4. InSearch(q, X, 0)
    BY <2>1, <2>2, <2>3 DEF InSearch
  <2> QED
    BY <1>1, <2>1, <2>4
<1>3. \A k \in 1..n : \A s \in A[k - 1] : T[k][s] = Life!Search(q, s) /\ T[k][s] \in A[k]
  <2> SUFFICES ASSUME NEW k \in 1..n, NEW s \in A[k - 1]
               PROVE  T[k][s] = Life!Search(q, s) /\ T[k][s] \in A[k]
    OBVIOUS
  <2>1. s \in SearchStates(q) /\ InSearch(q, s, k - 1)
    BY <1>1
  <2>2. T[k][s] = Life!Search(q, s)
    BY <2>1
  <2>3. InSearch(q, Life!Search(q, s), (k - 1) + 1)
    BY <1>1, <2>1, Searches
  <2>4. InSearch(q, Life!Search(q, s), k)
    BY <1>1, <2>3
  <2>5. Life!Search(q, s) \in SearchStates(q)
    BY <2>4 DEF InSearch
  <2> QED
    BY <1>1, <2>2, <2>4, <2>5
<1>4. Life!ResolveLoadOrder(q) = F[n]
  BY DEF Life!ResolveLoadOrder
<1>5. A[n] = {s \in SearchStates(q) : InSearch(q, s, n)}
  BY <1>1
<1> HIDE DEF A, T, F, X
<1>6. PICK f : f = [k \in 0..n |-> IF k = 0 THEN X ELSE T[k][f[k - 1]]]
  <2>1. \E f : RunsTo(f, n, X, T)
    BY <1>1, RunsAreThere
  <2> QED
    BY <2>1 DEF RunsTo
<1> HIDE DEF n
<1>7. f[0] = X /\ \A k \in 1..n : f[k] = T[k][f[k - 1]]
  BY <1>1, <1>6
<1>8. \A k \in 0..n : f[k] \in A[k]
  <2>1. \A k \in 1..n : f[k - 1] \in A[k - 1] => f[k] \in A[k]
    BY <1>3, <1>7
  <2>2. f[0] \in A[0]
    BY <1>2, <1>7
  <2> QED
    BY <1>1, <2>1, <2>2, GoesOnHolding
<1>9. f = [k \in 0..n |-> IF k = 0 THEN X ELSE Life!Search(q, f[k - 1])]
  <2>1. \A k \in 0..n : k # 0 => k \in 1..n /\ k - 1 \in 0..n
    BY <1>1
  <2>2. \A k \in 0..n : k # 0 => T[k][f[k - 1]] = Life!Search(q, f[k - 1])
    BY <1>3, <1>8, <2>1
  <2> QED
    BY <1>6, <2>2
<1>10. F = [k \in 0..n |-> IF k = 0 THEN X ELSE Life!Search(q, F[k - 1])]
  BY <1>9, Zenon DEF F
<1>11. F[0] = X /\ \A k \in 1..n : F[k] = Life!Search(q, F[k - 1])
  BY <1>1, <1>10
<1>12. \A k \in 0..n : F[k] \in A[k]
  <2>1. \A k \in 1..n : F[k - 1] \in A[k - 1] => F[k] \in A[k]
    BY <1>3, <1>11
  <2>2. F[0] \in A[0]
    BY <1>2, <1>11
  <2> QED
    BY <1>1, <2>1, <2>2, GoesOnHolding
<1> DEFINE s == Life!ResolveLoadOrder(q)
<1>13. /\ s.ok /\ InSearch(q, s, n)
  BY <1>1, <1>4, <1>5, <1>12
<1> HIDE DEF s
<1>14. Explored(q, s.open, s.resolved) /\ (Finished(q, s) \/ Len(s.open) + 2 * Len(s.resolved) = n)
  BY <1>13 DEF InSearch
<1>15. /\ s.open \in Seq(Life!Names(q)) /\ s.resolved \in Seq(Life!Names(q))
       /\ \A i, j \in 1..Len(s.resolved) : s.resolved[i] = s.resolved[j] => i = j
       /\ \A i \in 1..Len(s.resolved) : Behind(q, s.resolved, i)
  BY <1>14 DEF Explored
<1>16. \A x \in Life!Names(q) : \E j \in 1..Len(s.resolved) : s.resolved[j] = x
  <2>1. CASE Finished(q, s)
    BY <2>1 DEF Finished
  <2>2. CASE Len(s.open) + 2 * Len(s.resolved) = n
    <3>1. Len(s.open) + Len(s.resolved) <= Len(q)
      BY <1>14, BothFit
    <3>2. Len(s.open) \in Nat /\ Len(s.resolved) \in Nat /\ n = 2 * Len(q)
      BY <1>15 DEF n
    <3>3. Len(s.resolved) >= Len(q)
      <4>1. \A a, b, c \in Nat : a + b <= c /\ a + 2 * b = 2 * c => b >= c
        OBVIOUS
      <4>2. Len(s.open) + 2 * Len(s.resolved) = 2 * Len(q)
        BY <2>2, <3>2
      <4> QED
        BY ONLY <1>1, <3>1, <3>2, <4>1, <4>2, Zenon
    <3> QED
      BY <1>15, <3>3, AllAreThere
  <2> QED
    BY <1>14, <2>1, <2>2
<1> QED
  BY <1>15, <1>16 DEF Orders, s

-----------------------------------------------------------------------------
(* What is known of found before it is resolved, and of the order after.      *)
OrderInv ==
  /\ found \in Worlds
  /\ phase \notin {"boot", "unbootable"} =>
       Orders(Life!Discovered(found), ordered)

LEMMA OrderStarts == Life!LifespanInit => OrderInv
BY DEF Life!LifespanInit, Life!Init, OrderInv

(* Discovery yields a plan.                                                   *)
LEMMA DiscoveryPlans ==
  ASSUME NEW f \in Worlds
  PROVE  /\ Plan(Life!Discovered(f)) /\ Life!Names(Life!Discovered(f)) = Life!Names(f)
         /\ \A i \in DOMAIN f :
              ~Life!Newer(f[i].version, Life!Named(Life!Discovered(f), f[i].name).version)
<1> DEFINE q == Life!Discovered(f)
<1>1. f \in Seq(Life!Manifests) /\ DOMAIN f = 1..Len(f)
  BY WorldsAssumption
<1>2. Highest(q, f, Len(f))
  BY <1>1, DiscoversHighest
<1> HIDE DEF q
<1>3. Plan(q)
  BY <1>2 DEF Highest, Plan
<1>4. Life!Names(q) = Life!Names(f)
  <2>1. Life!Names(q) = {q[i].name : i \in 1..Len(q)}
    BY <1>3, NamedOnce
  <2>2. Life!Names(f) = {f[i].name : i \in 1..Len(f)}
    BY <1>1 DEF Life!Names
  <2>3. /\ \A i \in 1..Len(q) : \E j \in 1..Len(f) : f[j].name = q[i].name
        /\ \A j \in 1..Len(f) : \E i \in 1..Len(q) : f[j].name = q[i].name
    BY <1>2 DEF Highest
  <2> QED
    BY ONLY <2>1, <2>2, <2>3
<1>5. ASSUME NEW j \in 1..Len(f)
      PROVE  ~Life!Newer(f[j].version, Life!Named(q, f[j].name).version)
  <2>1. PICK i \in 1..Len(q) : f[j].name = q[i].name
    BY <1>2 DEF Highest
  <2>2. Life!Named(q, f[j].name) = q[i]
    BY <1>3, <2>1, NamedOnce
  <2> QED
    BY <1>2, <2>1, <2>2 DEF Highest
<1> QED
  BY <1>1, <1>3, <1>4, <1>5 DEF q

LEMMA OrderSteps ==
  ASSUME OrderInv, Life!LifespanNext \/ UNCHANGED life
  PROVE  OrderInv'
<1>1. CASE Life!Resolve
  <2>1. found' = found /\ found \in Worlds
    BY <1>1 DEF Life!Resolve, OrderInv
  <2>2. CASE phase' = "unbootable"
    BY <2>1, <2>2 DEF OrderInv
  <2>3. CASE phase' # "unbootable"
    <3> DEFINE q == Life!Discovered(found)
    <3>1. /\ Life!ResolveLoadOrder(q).ok
          /\ ordered' = Life!ResolveLoadOrder(q).resolved
      BY <1>1, <2>3 DEF Life!Resolve
    <3>2. Plan(q)
      BY <2>1, DiscoveryPlans
    <3> HIDE DEF q
    <3>3. Orders(q, ordered')
      BY <3>1, <3>2, OrderIsFound
    <3> QED
      BY <2>1, <3>3 DEF OrderInv, q
  <2> QED
    BY <2>2, <2>3
<1>2. CASE UNCHANGED <<found, ordered>> /\ (phase' = phase \/ phase \notin {"boot", "unbootable"})
  BY <1>2 DEF OrderInv
<1>3. \/ Life!Resolve
      \/ UNCHANGED <<found, ordered>> /\ (phase' = phase \/ phase \notin {"boot", "unbootable"})
  <2> DEFINE Steady == UNCHANGED <<found, ordered>> /\ (phase' = phase \/ phase \notin {"boot", "unbootable"})
  <2>1. UNCHANGED life \/ UNCHANGED Life!pluginVars => Steady
    BY DEF life, Life!pluginVars
  <2>2. /\ Life!LoadPlugin => Steady
        /\ Life!Initialized => Steady
        /\ Life!AllLoaded => Steady
        /\ (\E n \in DOMAIN state : Life!Pause(n) \/ Life!LoadFromPath(n)) => Steady
        /\ Life!Shutdown => Steady
        /\ Life!ShutdownPlugin => Steady
        /\ Life!AllStopped => Steady
    BY DEF Life!LoadPlugin, Life!Initialized, Life!AllLoaded, Life!Pause, Life!LoadFromPath,
       Life!Shutdown, Life!ShutdownPlugin, Life!AllStopped
  <2> HIDE DEF Steady
  <2>3. Life!Resolve \/ Steady
    BY <2>1, <2>2 DEF Life!LifespanNext, Life!PluginsComeUp, Life!PoolsComeUp,
       Life!CacheComesUp, Life!Comes, Life!TasksStart, Life!TaskEnds, Life!Serving, Life!EndServing,
       Life!PluginsGo, Life!PoolsGo, Life!CacheGoes, Life!StreamGoes
  <2> QED
    BY <2>3 DEF Steady
<1> QED
  BY <1>1, <1>2, <1>3

(* The plan of an order that was found is safe.                               *)
LEMMA OrdersAreSafe ==
  ASSUME OrderInv, phase \notin {"boot", "unbootable"}
  PROVE  /\ Life!Range(ordered) = Life!Names(found) /\ Life!IsInjective(ordered)
         /\ \A i \in DOMAIN found :
              ~Life!Newer(found[i].version, Life!Manifest(found[i].name).version)
         /\ \A i \in DOMAIN ordered :
              /\ Life!Range(Life!Manifest(ordered[i]).deps) \subseteq {ordered[j] : j \in 1..(i - 1)}
              /\ \A j \in i..Len(ordered) :
                   \E n \in Life!Range(ordered) :
                     /\ Life!Manifest(n).priority >= Life!Manifest(ordered[j]).priority
                     /\ ordered[i] \in Life!Needs(n)
<1> DEFINE q == Life!Discovered(found)
           L == Len(ordered)
<1>1. /\ Plan(q) /\ Life!Names(q) = Life!Names(found) /\ Orders(q, ordered)
      /\ \A i \in DOMAIN found : ~Life!Newer(found[i].version, Life!Named(q, found[i].name).version)
      /\ \A n : Life!Manifest(n) = Life!Named(q, n)
  BY DiscoveryPlans DEF OrderInv, Life!Manifest
<1>2. \A n, d : d \in Life!Names(found) /\ Need(q, n, d) => d \in Life!Needs(n)
  BY <1>1 DEF Need, Life!Needs
<1> HIDE DEF q
<1>3. /\ ordered \in Seq(Life!Names(q)) /\ L \in Nat /\ DOMAIN ordered = 1..L
      /\ \A i, j \in 1..L : ordered[i] = ordered[j] => i = j
      /\ \A x \in Life!Names(q) : \E j \in 1..L : ordered[j] = x
      /\ \A i \in 1..L : Behind(q, ordered, i) /\ ordered[i] \in Life!Names(q)
  BY <1>1 DEF Orders
<1>4. Life!Range(ordered) = {ordered[i] : i \in 1..L}
  BY <1>3 DEF Life!Range
<1>5. Life!Range(ordered) = Life!Names(found) /\ Life!IsInjective(ordered)
  <2>1. Life!IsInjective(ordered)
    BY <1>3 DEF Life!IsInjective
  <2> QED
    BY <1>1, <1>3, <1>4, <2>1
<1> HIDE DEF L
<1>6. ASSUME NEW i \in 1..L
      PROVE  Life!Range(Life!Manifest(ordered[i]).deps) \subseteq {ordered[j] : j \in 1..(i - 1)}
  <2>1. Behind(q, ordered, i) /\ Life!Manifest(ordered[i]) = Life!Named(q, ordered[i])
    BY <1>1, <1>3
  <2>2. \A d \in Life!Range(Life!Named(q, ordered[i]).deps) : \E j \in 1..(i - 1) : ordered[j] = d
    BY <2>1 DEF Behind
  <2> QED
    BY <2>1, <2>2
<1>7. ASSUME NEW i \in 1..L, NEW j \in i..L
      PROVE  \E n \in Life!Range(ordered) :
               /\ Life!Manifest(n).priority >= Life!Manifest(ordered[j]).priority
               /\ ordered[i] \in Life!Needs(n)
  <2>1. PICK n \in Life!Names(q) :
          /\ Need(q, n, ordered[i])
          /\ \A x \in Life!Names(q) :
               Life!Named(q, x).priority > Life!Named(q, n).priority =>
                 \E l \in 1..(i - 1) : ordered[l] = x
    BY <1>3 DEF Behind
  <2>2. j \in 1..L /\ \A l \in 1..(i - 1) : l \in 1..L /\ l # j
    BY <1>3
  <2>3. ~(Life!Named(q, ordered[j]).priority > Life!Named(q, n).priority)
    BY <1>3, <2>1, <2>2
  <2>4. \A x \in Life!Names(q) : Life!Named(q, x).priority \in Nat
    <3>1. \A m \in Life!Manifests : m.priority \in Nat
      BY DEF Life!Manifests
    <3>2. \A k \in 1..Len(q) : q[k] \in Life!Manifests
      BY <1>1 DEF Plan
    <3> QED
      BY <1>1, <3>1, <3>2, NamedOnce
  <2>5. Life!Named(q, n).priority >= Life!Named(q, ordered[j]).priority
    BY <1>3, <2>2, <2>3, <2>4
  <2>6. n \in Life!Range(ordered) /\ ordered[i] \in Life!Needs(n)
    BY <1>1, <1>2, <1>3, <1>5, <2>1
  <2> QED
    BY <1>1, <2>5, <2>6
<1> QED
  BY <1>1, <1>3, <1>5, <1>6, <1>7 DEF L

-----------------------------------------------------------------------------
(* The plugins: what was loaded lies in the order that was resolved, behind   *)
(* its dependencies, and is asked to stop from the end.                       *)
Loadable == Life!Names(found)

(* The dependencies of n, where f was found.                                  *)
DepsOf(f, n) == Life!Range(Life!Named(Life!Discovered(f), n).deps)

GonePast(l, o, p) ==
  \A i \in 1..Len(l) : \E j \in 1..(p - 1) : j \in 1..Len(o) /\ l[i] = o[j]
Distinct(l) == \A i, j \in 1..Len(l) : l[i] = l[j] => i = j
Follows(l, f) ==
  \A i \in 1..Len(l) : \A p \in DepsOf(f, l[i]) : \E j \in 1..(i - 1) : l[j] = p
Ready(n, l, f) == \A p \in DepsOf(f, n) : \E j \in 1..Len(l) : l[j] = p

(* What a step may do to what is loaded depends on the phase.                 *)
PhasesAgree ==
  /\ stage = "plugins" => phase \in {"boot", "loading", "initializing"}
  /\ stage \in {"pools", "cache", "tasks", "serving"} => phase = "loaded"
  /\ stage = "stop plugins" => phase = "stopping"
  /\ stage \in {"stop pools", "stop cache", "stop stream", "down"} => phase = "stopped"
  /\ stage = "failed" => phase \in {"unbootable", "loaded"}
  /\ stage \in {"plugins", "pools", "cache", "tasks", "serving", "stop plugins",
                "stop pools", "stop cache", "stop stream", "down", "failed"}
  /\ stage = "cache" => "pools" \in up
  /\ stage \in {"tasks", "serving", "stop plugins"} => {"pools", "cache"} \subseteq up

LoadedTyped ==
  /\ loadOrder \in Seq(Loadable) /\ asked \in Seq(Loadable)
  /\ DOMAIN state = Loadable /\ pos \in Nat
  /\ phase \in {"boot", "unbootable"} => loadOrder = <<>>
  /\ phase \in {"boot", "unbootable", "loading", "initializing", "loaded"} => asked = <<>>

(* Each plugin is loaded once, from a place of the order gone past, behind    *)
(* what it depends on.                                                        *)
LoadedInOrder ==
  /\ phase \in {"loading", "initializing"} =>
       pos >= 1 /\ GonePast(loadOrder, ordered, pos)
  /\ Distinct(loadOrder) /\ Follows(loadOrder, found)
  /\ phase = "initializing" => pos \in 1..Len(ordered) /\ Ready(ordered[pos], loadOrder, found)

(* Where shutdown_all stands: behind it every plugin was asked or paused.     *)
StoppedFromTheEnd ==
  /\ \A i \in 1..Len(loadOrder) :
       phase \in {"loading", "initializing", "loaded"} \/ i <= pos =>
         state[loadOrder[i]] \in {"active", "paused"}
  /\ phase \in {"stopping", "stopped"} =>
       /\ pos <= Len(loadOrder)
       /\ \A i \in 1..Len(loadOrder) : i > pos =>
            state[loadOrder[i]] = "paused" \/ \E a \in 1..Len(asked) : asked[a] = loadOrder[i]
       /\ \A a \in 1..Len(asked) :
            \E i \in 1..Len(loadOrder) : i > pos /\ asked[a] = loadOrder[i]
       /\ \A a, b \in 1..Len(asked), i, j \in 1..Len(loadOrder) :
            a < b /\ asked[a] = loadOrder[i] /\ asked[b] = loadOrder[j] => j < i

Unharmed == LoadedTyped /\ LoadedInOrder /\ StoppedFromTheEnd
LifeInv == PhasesAgree /\ Unharmed

(* What is used of the order that was resolved.                               *)
OrderedOnce ==
  phase \notin {"boot", "unbootable"} => ordered \in Seq(Loadable) /\ Distinct(ordered)

LEMMA OrderIsOnce == OrderInv => OrderedOnce
BY DiscoveryPlans DEF OrderInv, Orders, OrderedOnce, Distinct, Loadable

LEMMA LifeStarts == Life!LifespanInit => LifeInv
<1> SUFFICES ASSUME Life!LifespanInit PROVE LifeInv
  OBVIOUS
<1>1. /\ phase = "boot" /\ ordered = <<>> /\ pos = 0 /\ loadOrder = <<>> /\ asked = <<>>
      /\ state = [n \in Life!Names(found) |-> "unloaded"] /\ stage = "plugins" /\ up = {}
  BY DEF Life!LifespanInit, Life!Init
<1>2. Len(loadOrder) = 0 /\ 1..0 = {} /\ loadOrder \in Seq(Loadable) /\ asked \in Seq(Loadable)
  BY <1>1
<1>3. PhasesAgree
  BY <1>1 DEF PhasesAgree
<1>4. LoadedTyped
  BY <1>1, <1>2 DEF LoadedTyped, Loadable
<1>5. LoadedInOrder /\ StoppedFromTheEnd
  BY <1>1, <1>2 DEF LoadedInOrder, StoppedFromTheEnd, Distinct, Follows
<1> QED
  BY <1>3, <1>4, <1>5 DEF LifeInv, Unharmed

(* A list that holds nothing yet.                                             *)
LEMMA NothingLoaded ==
  /\ Len(<<>>) = 0 /\ Distinct(<<>>) /\ (\A f : Follows(<<>>, f)) /\ \A o : GonePast(<<>>, o, 1)
<1>1. Len(<<>>) = 0 /\ 1..0 = {}
  OBVIOUS
<1> QED
  BY <1>1 DEF Distinct, Follows, GonePast

LEMMA ResolvesOrder ==
  ASSUME Unharmed, Life!Resolve
  PROVE  Unharmed' /\ phase' \in {"loading", "unbootable"}
<1>1. /\ phase = "boot" /\ (\/ phase' = "loading" /\ pos' = 1
                            \/ phase' = "unbootable" /\ pos' = pos)
      /\ UNCHANGED <<found, loadOrder, state, elsewhere, asked>>
  BY DEF Life!Resolve
<1>2. loadOrder = <<>> /\ asked = <<>>
  BY <1>1 DEF Unharmed, LoadedTyped
<1>3. Loadable' = Loadable /\ Len(loadOrder') = 0 /\ Len(asked') = 0 /\ 1..0 = {}
  BY <1>1, <1>2, NothingLoaded DEF Loadable
<1>4. LoadedTyped'
  BY <1>1, <1>2, <1>3 DEF Unharmed, LoadedTyped
<1>5. LoadedInOrder'
  BY <1>1, <1>2, NothingLoaded DEF LoadedInOrder
<1>6. StoppedFromTheEnd'
  BY <1>1, <1>3 DEF StoppedFromTheEnd
<1> QED
  BY <1>1, <1>4, <1>5, <1>6 DEF Unharmed

(* Nothing of the lists is touched.                                           *)
LEMMA ListsStay ==
  ASSUME Unharmed, UNCHANGED <<found, ordered, loadOrder, state, asked>>, pos' = pos,
         \/ phase' = phase
         \/ phase = "loading" /\ phase' = "loaded"
         \/ phase = "stopping" /\ phase' = "stopped"
  PROVE  Unharmed'
<1>1. LoadedTyped'
  BY DEF Unharmed, LoadedTyped, Loadable
<1>2. LoadedInOrder'
  BY DEF Unharmed, LoadedInOrder
<1>3. StoppedFromTheEnd'
  BY DEF Unharmed, StoppedFromTheEnd
<1> QED
  BY <1>1, <1>2, <1>3 DEF Unharmed

(* The plugin whose turn it is is not loaded yet.                             *)
LEMMA NextIsNew ==
  ASSUME Unharmed, OrderedOnce, phase \in {"loading", "initializing"}, pos \in 1..Len(ordered)
  PROVE  /\ ordered[pos] \in Loadable
         /\ \A i \in 1..Len(loadOrder) : loadOrder[i] # ordered[pos] /\ loadOrder[i] \in Loadable
<1>1. /\ ordered \in Seq(Loadable) /\ Distinct(ordered)
      /\ GonePast(loadOrder, ordered, pos)
      /\ pos \in Nat /\ loadOrder \in Seq(Loadable)
  BY DEF OrderedOnce, Unharmed, LoadedInOrder, LoadedTyped
<1>2. \A j \in 1..(pos - 1) : j # pos
  BY <1>1
<1>3. \A i \in 1..Len(loadOrder) : loadOrder[i] # ordered[pos]
  BY <1>1, <1>2 DEF GonePast, Distinct
<1>4. ordered[pos] \in Loadable /\ \A i \in 1..Len(loadOrder) : loadOrder[i] \in Loadable
  BY <1>1
<1> QED
  BY <1>3, <1>4

LEMMA GoesPastOne ==
  ASSUME NEW l, NEW o, NEW p \in Nat, GonePast(l, o, p)
  PROVE  GonePast(l, o, p + 1)
<1>1. \A j \in 1..(p - 1) : j \in 1..((p + 1) - 1)
  OBVIOUS
<1> QED
  BY <1>1 DEF GonePast

LEMMA LoadsPlugin ==
  ASSUME Unharmed, OrderedOnce, Life!LoadPlugin
  PROVE  Unharmed' /\ phase' \in {"loading", "initializing"}
<1> DEFINE n == ordered[pos]
<1>1. /\ phase = "loading" /\ pos \in DOMAIN ordered
      /\ UNCHANGED <<found, ordered, loadOrder, elsewhere, asked>>
      /\ \/ pos' = pos + 1 /\ phase' = phase /\ state' = state
         \/ pos' = pos + 1 /\ phase' = phase /\ state' = [state EXCEPT ![n] = "failed"]
         \/ /\ Life!MissingDependencies(n) = {}
            /\ pos' = pos /\ phase' = "initializing" /\ state' = [state EXCEPT ![n] = "loading"]
  BY DEF Life!LoadPlugin
<1>2. /\ ordered \in Seq(Loadable) /\ loadOrder \in Seq(Loadable) /\ asked = <<>>
      /\ DOMAIN state = Loadable /\ pos \in Nat /\ pos \in 1..Len(ordered)
      /\ GonePast(loadOrder, ordered, pos)
      /\ Distinct(loadOrder) /\ Follows(loadOrder, found)
      /\ \A i \in 1..Len(loadOrder) : state[loadOrder[i]] \in {"active", "paused"}
  BY <1>1 DEF OrderedOnce, Unharmed, LoadedTyped, LoadedInOrder, StoppedFromTheEnd
<1>3. n \in Loadable /\ \A i \in 1..Len(loadOrder) : loadOrder[i] # n /\ loadOrder[i] \in Loadable
  BY <1>1, <1>2, NextIsNew
<1> HIDE DEF n
<1>4. Loadable' = Loadable /\ phase' \in {"loading", "initializing"} /\ pos' \in Nat
      /\ DOMAIN state' = Loadable
      /\ \A i \in 1..Len(loadOrder) : state'[loadOrder[i]] = state[loadOrder[i]]
  BY <1>1, <1>2, <1>3 DEF Loadable
<1>5. LoadedTyped'
  BY <1>1, <1>2, <1>4 DEF LoadedTyped
<1>6. LoadedInOrder'
  <2>1. Distinct(loadOrder') /\ Follows(loadOrder', found')
    BY <1>1, <1>2
  <2>2. CASE pos' = pos + 1 /\ phase' = phase
    <3>1. GonePast(loadOrder', ordered', pos') /\ pos' >= 1
      BY <1>1, <1>2, <2>2, GoesPastOne
    <3> QED
      BY <1>1, <2>1, <2>2, <3>1 DEF LoadedInOrder
  <2>3. CASE Life!MissingDependencies(n) = {} /\ pos' = pos /\ phase' = "initializing"
    <3>1. Life!Range(loadOrder) = {loadOrder[i] : i \in 1..Len(loadOrder)}
      BY <1>2 DEF Life!Range
    <3>2. \A p \in DepsOf(found, n) : p \in Life!Range(loadOrder)
      BY <2>3 DEF Life!MissingDependencies, DepsOf, Life!Manifest
    <3>3. Ready(n, loadOrder, found)
      BY <3>1, <3>2 DEF Ready
    <3>4. Ready(ordered'[pos'], loadOrder', found') /\ pos' \in 1..Len(ordered') /\ pos' >= 1
          /\ GonePast(loadOrder', ordered', pos')
      BY <1>1, <1>2, <2>3, <3>3 DEF n
    <3> QED
      BY <2>1, <3>4 DEF LoadedInOrder
  <2> QED
    BY <1>1, <2>2, <2>3
<1>7. StoppedFromTheEnd'
  BY <1>1, <1>2, <1>4 DEF StoppedFromTheEnd
<1> QED
  BY <1>4, <1>5, <1>6, <1>7 DEF Unharmed

LEMMA PluginInitialized ==
  ASSUME Unharmed, OrderedOnce, Life!Initialized
  PROVE  Unharmed' /\ phase' = "loading"
<1> DEFINE n == ordered[pos]
           L == Len(loadOrder)
           w == Append(loadOrder, n)
<1>1. /\ phase = "initializing" /\ phase' = "loading" /\ pos' = pos + 1
      /\ UNCHANGED <<found, ordered, elsewhere, asked>>
      /\ \/ loadOrder' = loadOrder /\ state' = state
         \/ state' = [state EXCEPT ![n] = "active"] /\ loadOrder' = w
  BY DEF Life!Initialized
<1>2. /\ ordered \in Seq(Loadable) /\ loadOrder \in Seq(Loadable) /\ asked = <<>>
      /\ DOMAIN state = Loadable /\ pos \in Nat /\ pos \in 1..Len(ordered)
      /\ GonePast(loadOrder, ordered, pos)
      /\ Distinct(loadOrder) /\ Follows(loadOrder, found) /\ Ready(n, loadOrder, found)
      /\ \A i \in 1..Len(loadOrder) : state[loadOrder[i]] \in {"active", "paused"}
  BY <1>1 DEF OrderedOnce, Unharmed, LoadedTyped, LoadedInOrder, StoppedFromTheEnd
<1>3. n \in Loadable /\ \A i \in 1..L : loadOrder[i] # n /\ loadOrder[i] \in Loadable
  BY <1>1, <1>2, NextIsNew
<1>4. L \in Nat /\ w \in Seq(Loadable) /\ Len(w) = L + 1 /\ w[L + 1] = n
      /\ \A i \in 1..L : w[i] = loadOrder[i]
  BY <1>2, <1>3
<1>5. GonePast(loadOrder, ordered, pos + 1) /\ pos + 1 >= 1 /\ pos + 1 \in Nat /\ Loadable' = Loadable
  BY <1>1, <1>2, GoesPastOne DEF Loadable
<1>6. CASE loadOrder' = loadOrder /\ state' = state
  <2>1. LoadedTyped'
    BY <1>1, <1>2, <1>5, <1>6 DEF LoadedTyped
  <2>2. LoadedInOrder'
    BY <1>1, <1>2, <1>5, <1>6 DEF LoadedInOrder
  <2>3. StoppedFromTheEnd'
    BY <1>1, <1>2, <1>6 DEF StoppedFromTheEnd
  <2> QED
    BY <1>1, <2>1, <2>2, <2>3 DEF Unharmed
<1>7. CASE state' = [state EXCEPT ![n] = "active"] /\ loadOrder' = w
  <2> HIDE DEF w, n
  <2>0. \A i \in 1..(L + 1) : i \in 1..L \/ i = L + 1
    BY <1>4
  <2>1. LoadedTyped'
    BY <1>1, <1>2, <1>4, <1>5, <1>7 DEF LoadedTyped
  <2>2. GonePast(w, ordered, pos + 1)
    <3>1. pos \in 1..((pos + 1) - 1) /\ w[L + 1] = ordered[pos]
      BY <1>2, <1>4 DEF n
    <3>2. \A i \in 1..L : \E j \in 1..((pos + 1) - 1) : j \in 1..Len(ordered) /\ w[i] = ordered[j]
      BY <1>4, <1>5 DEF GonePast
    <3>3. \E j \in 1..((pos + 1) - 1) : j \in 1..Len(ordered) /\ w[L + 1] = ordered[j]
      BY <1>2, <3>1
    <3> QED
      BY <1>4, <2>0, <3>2, <3>3 DEF GonePast
  <2>3. Distinct(w)
    <3>1. ASSUME NEW i \in 1..(L + 1), NEW j \in 1..(L + 1), w[i] = w[j] PROVE i = j
      <4>1. CASE i \in 1..L /\ j \in 1..L
        BY <1>2, <1>4, <3>1, <4>1 DEF Distinct
      <4>2. CASE i \in 1..L /\ j = L + 1
        BY <1>3, <1>4, <3>1, <4>2
      <4>3. CASE i = L + 1 /\ j \in 1..L
        BY <1>3, <1>4, <3>1, <4>3
      <4> QED
        BY <2>0, <4>1, <4>2, <4>3
    <3> QED
      BY <1>4, <3>1 DEF Distinct
  <2>4. Follows(w, found)
    <3>1. ASSUME NEW i \in 1..L, NEW p \in DepsOf(found, w[i])
          PROVE  \E j \in 1..(i - 1) : w[j] = p
      <4>1. PICK j \in 1..(i - 1) : loadOrder[j] = p
        BY <1>2, <1>4, <3>1 DEF Follows
      <4>2. j \in 1..L
        BY <1>4, <4>1
      <4> QED
        BY <1>4, <4>1, <4>2
    <3>2. ASSUME NEW p \in DepsOf(found, w[L + 1])
          PROVE  \E j \in 1..((L + 1) - 1) : w[j] = p
      <4>1. PICK j \in 1..L : loadOrder[j] = p
        BY <1>2, <1>4, <3>2 DEF Ready
      <4>2. j \in 1..((L + 1) - 1)
        BY <1>4, <4>1
      <4> QED
        BY <1>4, <4>1, <4>2
    <3>3. ASSUME NEW i \in 1..(L + 1), NEW p \in DepsOf(found, w[i])
          PROVE  \E j \in 1..(i - 1) : w[j] = p
      <4>1. CASE i \in 1..L
        BY <3>1, <4>1
      <4>2. CASE i = L + 1
        BY <3>2, <3>3, <4>2
      <4> QED
        BY <2>0, <4>1, <4>2
    <3> QED
      BY <1>4, <3>3 DEF Follows
  <2>5. LoadedInOrder'
    BY <1>1, <1>5, <1>7, <2>2, <2>3, <2>4 DEF LoadedInOrder
  <2>6. StoppedFromTheEnd'
    <3>1. \A i \in 1..(L + 1) : state'[w[i]] \in {"active", "paused"}
      <4>1. \A i \in 1..L : state'[w[i]] = state[loadOrder[i]]
        BY <1>2, <1>3, <1>4, <1>7
      <4>2. state'[w[L + 1]] = "active"
        BY <1>2, <1>3, <1>4, <1>7
      <4> QED
        BY <1>2, <2>0, <4>1, <4>2
    <3> QED
      BY <1>1, <1>4, <1>7, <3>1 DEF StoppedFromTheEnd
  <2> QED
    BY <1>1, <2>1, <2>5, <2>6 DEF Unharmed
<1> QED
  BY <1>1, <1>6, <1>7

LEMMA PausesPlugin ==
  ASSUME Unharmed, NEW n, Life!Pause(n)
  PROVE  Unharmed' /\ phase' = "loaded"
<1>1. /\ phase = "loaded" /\ phase' = "loaded" /\ pos' = pos
      /\ state' = [state EXCEPT ![n] = IF @ = "active" THEN "paused" ELSE "active"]
      /\ UNCHANGED <<found, ordered, loadOrder, asked>>
  BY DEF Life!Pause
<1>2. Loadable' = Loadable /\ DOMAIN state' = DOMAIN state
      /\ \A m \in DOMAIN state : state'[m] = state[m] \/ state'[m] \in {"paused", "active"}
  BY <1>1 DEF Loadable
<1>3. LoadedTyped'
  BY <1>1, <1>2 DEF Unharmed, LoadedTyped
<1>4. LoadedInOrder'
  BY <1>1 DEF Unharmed, LoadedInOrder
<1>5. StoppedFromTheEnd'
  <2>1. \A i \in 1..Len(loadOrder) : loadOrder[i] \in DOMAIN state /\ state[loadOrder[i]] \in {"active", "paused"}
    BY <1>1 DEF Unharmed, LoadedTyped, StoppedFromTheEnd
  <2> QED
    BY <1>1, <1>2, <2>1 DEF StoppedFromTheEnd
<1> QED
  BY <1>1, <1>3, <1>4, <1>5 DEF Unharmed

LEMMA ShutdownBegins ==
  ASSUME Unharmed, Life!Shutdown
  PROVE  Unharmed' /\ phase' = "stopping"
<1>1. /\ phase = "loaded" /\ phase' = "stopping" /\ pos' = Len(loadOrder)
      /\ UNCHANGED <<found, ordered, loadOrder, state, asked>>
  BY DEF Life!Shutdown
<1>2. /\ loadOrder \in Seq(Loadable) /\ asked = <<>> /\ DOMAIN state = Loadable
      /\ Len(loadOrder) \in Nat /\ Loadable' = Loadable /\ Len(asked) = 0 /\ asked \in Seq(Loadable)
      /\ Distinct(loadOrder) /\ Follows(loadOrder, found)
      /\ \A i \in 1..Len(loadOrder) : state[loadOrder[i]] \in {"active", "paused"} /\ ~(i > Len(loadOrder))
  BY <1>1 DEF Unharmed, LoadedTyped, LoadedInOrder, StoppedFromTheEnd, Loadable
<1>3. LoadedTyped'
  BY <1>1, <1>2 DEF LoadedTyped
<1>4. LoadedInOrder'
  BY <1>1, <1>2 DEF LoadedInOrder
<1>5. StoppedFromTheEnd'
  <2>1. 1..0 = {}
    OBVIOUS
  <2> QED
    BY <1>1, <1>2, <2>1 DEF StoppedFromTheEnd
<1> QED
  BY <1>1, <1>3, <1>4, <1>5 DEF Unharmed

LEMMA PluginShutDown ==
  ASSUME Unharmed, Life!ShutdownPlugin
  PROVE  Unharmed' /\ phase' = "stopping"
<1> DEFINE n == loadOrder[pos]
           L == Len(loadOrder)
           A == Len(asked)
           w == Append(asked, n)
<1>1. /\ phase = "stopping" /\ phase' = "stopping" /\ pos > 0 /\ pos' = pos - 1
      /\ UNCHANGED <<found, ordered, loadOrder>>
      /\ \/ /\ state[n] = "active" /\ asked' = w
            /\ state' = [state EXCEPT ![n] = "disabled"] \/ state' = state
         \/ state[n] # "active" /\ state' = state /\ asked' = asked
  BY DEF Life!ShutdownPlugin
<1>2. /\ loadOrder \in Seq(Loadable) /\ asked \in Seq(Loadable)
      /\ DOMAIN state = Loadable /\ pos \in Nat /\ Loadable' = Loadable
      /\ Distinct(loadOrder) /\ Follows(loadOrder, found)
      /\ L \in Nat /\ A \in Nat /\ pos <= L
      /\ \A i \in 1..L : i <= pos => state[loadOrder[i]] \in {"active", "paused"}
      /\ \A i \in 1..L : i > pos =>
            state[loadOrder[i]] = "paused" \/ \E a \in 1..A : asked[a] = loadOrder[i]
      /\ \A a \in 1..A : \E i \in 1..L : i > pos /\ asked[a] = loadOrder[i]
      /\ \A a, b \in 1..A, i, j \in 1..L :
            a < b /\ asked[a] = loadOrder[i] /\ asked[b] = loadOrder[j] => j < i
  BY <1>1 DEF Unharmed, LoadedTyped, LoadedInOrder, StoppedFromTheEnd, Loadable
<1>3. pos \in 1..L /\ n \in Loadable /\ state[n] \in {"active", "paused"}
      /\ \A i \in 1..L : loadOrder[i] \in Loadable /\ (loadOrder[i] = n => i = pos)
  <2>1. pos \in 1..L
    BY <1>1, <1>2
  <2> QED
    BY <1>2, <2>1 DEF Distinct
<1>4. w \in Seq(Loadable) /\ Len(w) = A + 1 /\ w[A + 1] = n
      /\ \A a \in 1..A : w[a] = asked[a]
  BY <1>2, <1>3
<1> HIDE DEF n, L, A, w
<1>5. /\ \A i \in 1..L : i # pos => state'[loadOrder[i]] = state[loadOrder[i]]
      /\ DOMAIN state' = Loadable /\ pos' \in Nat
  BY <1>1, <1>2, <1>3
<1>6. /\ \A i \in 1..L : i <= pos - 1 => i <= pos /\ i # pos
      /\ \A i \in 1..L : i > pos - 1 => i = pos \/ (i > pos /\ i # pos)
      /\ pos - 1 <= L /\ pos > pos - 1
      /\ \A i \in 1..L : i > pos => i > pos - 1
  BY <1>1, <1>2
<1>7. LoadedTyped'
  BY <1>1, <1>2, <1>4, <1>5 DEF LoadedTyped
<1>8. LoadedInOrder'
  BY <1>1, <1>2 DEF LoadedInOrder
<1>9. \A i \in 1..L : i <= pos - 1 => state'[loadOrder[i]] \in {"active", "paused"}
  BY <1>2, <1>5, <1>6
<1>10. CASE asked' = w
  <2>0. \A a \in 1..(A + 1) : a \in 1..A \/ a = A + 1
    BY <1>2
  <2>1. \A i \in 1..L : i > pos - 1 =>
          state'[loadOrder[i]] = "paused" \/ \E a \in 1..(A + 1) : w[a] = loadOrder[i]
    <3>1. ASSUME NEW i \in 1..L, i > pos, i # pos
          PROVE  state'[loadOrder[i]] = "paused" \/ \E a \in 1..(A + 1) : w[a] = loadOrder[i]
      <4>1. state'[loadOrder[i]] = state[loadOrder[i]]
        BY <1>5, <3>1
      <4>2. \A a \in 1..A : a \in 1..(A + 1)
        BY <1>2
      <4> QED
        BY <1>2, <1>4, <3>1, <4>1, <4>2
    <3>2. A + 1 \in 1..(A + 1) /\ w[A + 1] = loadOrder[pos]
      BY <1>2, <1>4 DEF n
    <3> QED
      BY <1>6, <3>1, <3>2
  <2>2. \A a \in 1..(A + 1) : \E i \in 1..L : i > pos - 1 /\ w[a] = loadOrder[i]
    <3>1. \A a \in 1..A : \E i \in 1..L : i > pos - 1 /\ w[a] = loadOrder[i]
      BY <1>2, <1>4, <1>6
    <3>2. \E i \in 1..L : i > pos - 1 /\ w[A + 1] = loadOrder[i]
      BY <1>3, <1>4, <1>6 DEF n
    <3> QED
      BY <2>0, <3>1, <3>2
  <2>3. ASSUME NEW a \in 1..(A + 1), NEW b \in 1..(A + 1), NEW i \in 1..L, NEW j \in 1..L,
               a < b, w[a] = loadOrder[i], w[b] = loadOrder[j]
        PROVE  j < i
    <3>1. a \in 1..A
      BY <1>2, <2>3
    <3>2. CASE b \in 1..A
      BY <1>2, <1>4, <2>3, <3>1, <3>2
    <3>3. CASE b = A + 1
      <4>1. j = pos
        BY <1>3, <1>4, <2>3, <3>3
      <4>2. PICK k \in 1..L : k > pos /\ asked[a] = loadOrder[k]
        BY <1>2, <3>1
      <4>3. k = i
        BY <1>2, <1>4, <2>3, <3>1, <4>2 DEF Distinct, L
      <4> QED
        BY <1>2, <4>1, <4>2, <4>3
    <3> QED
      BY <2>0, <3>2, <3>3
  <2>4. StoppedFromTheEnd'
    BY <1>1, <1>4, <1>6, <1>9, <1>10, <2>1, <2>2, <2>3 DEF StoppedFromTheEnd, L
  <2> QED
    BY <1>1, <1>7, <1>8, <2>4 DEF Unharmed
<1>11. CASE state[n] # "active" /\ state' = state /\ asked' = asked
  <2>1. \A i \in 1..L : i > pos - 1 =>
          state[loadOrder[i]] = "paused" \/ \E a \in 1..A : asked[a] = loadOrder[i]
    <3>1. state[loadOrder[pos]] = "paused"
      BY <1>3, <1>11 DEF n
    <3> QED
      BY <1>2, <1>6, <3>1
  <2>2. \A a \in 1..A : \E i \in 1..L : i > pos - 1 /\ asked[a] = loadOrder[i]
    BY <1>2, <1>6
  <2>3. StoppedFromTheEnd'
    BY <1>1, <1>2, <1>6, <1>9, <1>11, <2>1, <2>2 DEF StoppedFromTheEnd, L, A
  <2> QED
    BY <1>1, <1>7, <1>8, <2>3 DEF Unharmed
<1> QED
  BY <1>1, <1>10, <1>11

LEMMA AllAreStopped ==
  ASSUME Unharmed, Life!AllStopped
  PROVE  Unharmed' /\ phase' = "stopped"
BY ListsStay DEF Life!AllStopped

(* A step that leaves the plugins alone.                                      *)
LEMMA PluginsStay ==
  ASSUME Unharmed, UNCHANGED Life!pluginVars
  PROVE  Unharmed' /\ phase' = phase
BY ListsStay DEF Life!pluginVars

LEMMA PluginsKeepComingUp ==
  ASSUME LifeInv, OrderedOnce, Life!PluginsComeUp
  PROVE  LifeInv'
<1>1. /\ stage = "plugins" /\ up' = up
      /\ Life!Resolve \/ Life!LoadPlugin \/ Life!Initialized \/ Life!AllLoaded
      /\ stage' = CASE phase' = "unbootable" -> "failed"
                    [] phase' = "loaded" -> "pools"
                    [] OTHER -> "plugins"
      /\ Unharmed /\ PhasesAgree
  BY DEF Life!PluginsComeUp, LifeInv
<1>2. Unharmed' /\ phase' \in {"loading", "unbootable", "initializing", "loaded"}
  <2>1. CASE Life!Resolve
    BY <1>1, <2>1, ResolvesOrder
  <2>2. CASE Life!LoadPlugin
    BY <1>1, <2>2, LoadsPlugin
  <2>3. CASE Life!Initialized
    BY <1>1, <2>3, PluginInitialized
  <2>4. CASE Life!AllLoaded
    BY <1>1, <2>4, ListsStay DEF Life!AllLoaded
  <2> QED
    BY <1>1, <2>1, <2>2, <2>3, <2>4
<1>3. \/ phase' = "unbootable" /\ stage' = "failed"
      \/ phase' = "loaded" /\ stage' = "pools"
      \/ phase' \in {"loading", "initializing"} /\ stage' = "plugins"
  <2>1. CASE phase' = "unbootable"
    BY <1>1, <2>1
  <2>2. CASE phase' = "loaded"
    BY <1>1, <2>2
  <2>3. CASE phase' \in {"loading", "initializing"}
    BY <1>1, <2>3
  <2> QED
    BY <1>2, <2>1, <2>2, <2>3
<1>4. PhasesAgree'
  BY <1>3 DEF PhasesAgree
<1> QED
  BY <1>2, <1>4 DEF LifeInv

LEMMA PluginsKeepGoing ==
  ASSUME LifeInv, Life!PluginsGo
  PROVE  LifeInv'
<1>1. /\ stage = "stop plugins" /\ up' = up
      /\ Life!ShutdownPlugin \/ Life!AllStopped
      /\ stage' = IF phase' = "stopped" THEN "stop pools" ELSE stage
      /\ Unharmed /\ PhasesAgree
  BY DEF Life!PluginsGo, LifeInv
<1>2. CASE Life!ShutdownPlugin
  <2>1. Unharmed' /\ phase' = "stopping"
    BY <1>1, <1>2, PluginShutDown
  <2> QED
    BY <1>1, <2>1 DEF PhasesAgree, LifeInv
<1>3. CASE Life!AllStopped
  <2>1. Unharmed' /\ phase' = "stopped"
    BY <1>1, <1>3, AllAreStopped
  <2> QED
    BY <1>1, <2>1 DEF PhasesAgree, LifeInv
<1> QED
  BY <1>1, <1>2, <1>3

LEMMA ServingKeeps ==
  ASSUME LifeInv, Life!Serving
  PROVE  LifeInv'
<1>1. /\ stage = "serving" /\ UNCHANGED <<stage, up>>
      /\ \E n \in DOMAIN state : Life!Pause(n) \/ Life!LoadFromPath(n)
      /\ Unharmed /\ PhasesAgree
  BY DEF Life!Serving, LifeInv
<1>2. PICK n : Life!Pause(n) \/ Life!LoadFromPath(n)
  BY <1>1
<1>3. Unharmed' /\ phase' = "loaded"
  <2>1. CASE Life!Pause(n)
    BY <1>1, <2>1, PausesPlugin
  <2>2. CASE Life!LoadFromPath(n)
    BY <1>1, <2>2, ListsStay DEF Life!LoadFromPath
  <2> QED
    BY <1>2, <2>1, <2>2
<1>4. PhasesAgree'
  BY <1>1, <1>3 DEF PhasesAgree
<1> QED
  BY <1>3, <1>4 DEF LifeInv

LEMMA LifeSteps ==
  ASSUME LifeInv, OrderedOnce, Life!LifespanNext \/ UNCHANGED life
  PROVE  LifeInv'
<1>0. Unharmed /\ PhasesAgree
  BY DEF LifeInv
<1>1. CASE UNCHANGED life
  <2>1. Unharmed' /\ phase' = phase /\ stage' = stage /\ up' = up
    BY <1>0, <1>1, PluginsStay DEF life, Life!pluginVars
  <2> QED
    BY <1>0, <2>1 DEF PhasesAgree, LifeInv
<1>2. CASE Life!PluginsComeUp
  BY <1>2, PluginsKeepComingUp
<1>3. CASE Life!PoolsComeUp \/ Life!CacheComesUp \/ Life!TasksStart \/ Life!TaskEnds
  <2>1. /\ UNCHANGED Life!pluginVars
        /\ \/ stage = "pools" /\ stage' = "cache" /\ up' = up \cup {"pools"}
           \/ stage = "cache" /\ stage' = "tasks" /\ up' = up \cup {"cache"}
           \/ stage = "cache" /\ stage' = "failed" /\ up' = up
           \/ stage = "tasks" /\ stage' = "serving" /\ up' = up
           \/ stage' = stage /\ up' = up
    BY <1>3 DEF Life!PoolsComeUp, Life!CacheComesUp, Life!TasksStart, Life!TaskEnds, Life!Comes
  <2>2. Unharmed' /\ phase' = phase
    BY <1>0, <2>1, PluginsStay
  <2>3. PhasesAgree'
    BY <1>0, <2>1, <2>2 DEF PhasesAgree
  <2> QED
    BY <2>2, <2>3 DEF LifeInv
<1>4. CASE Life!Serving
  BY <1>4, ServingKeeps
<1>5. CASE Life!EndServing
  <2>1. stage = "serving" /\ stage' = "stop plugins" /\ up' = up /\ Life!Shutdown
    BY <1>5 DEF Life!EndServing
  <2>2. Unharmed' /\ phase' = "stopping"
    BY <1>0, <2>1, ShutdownBegins
  <2>3. PhasesAgree'
    BY <1>0, <2>1, <2>2 DEF PhasesAgree
  <2> QED
    BY <2>2, <2>3 DEF LifeInv
<1>6. CASE Life!PluginsGo
  BY <1>6, PluginsKeepGoing
<1>7. CASE Life!PoolsGo \/ Life!CacheGoes \/ Life!StreamGoes
  <2>1. /\ UNCHANGED Life!pluginVars
        /\ \/ stage = "stop pools" /\ stage' = "stop cache"
           \/ stage = "stop cache" /\ stage' = "stop stream"
           \/ stage = "stop stream" /\ stage' = "down"
    BY <1>7 DEF Life!PoolsGo, Life!CacheGoes, Life!StreamGoes
  <2>2. Unharmed' /\ phase' = phase
    BY <1>0, <2>1, PluginsStay
  <2>3. PhasesAgree'
    BY <1>0, <2>1, <2>2 DEF PhasesAgree
  <2> QED
    BY <2>2, <2>3 DEF LifeInv
<1> QED
  BY <1>1, <1>2, <1>3, <1>4, <1>5, <1>6, <1>7 DEF Life!LifespanNext

(* Who was asked, and when.                                                   *)
LEMMA AskedInOrder == LifeInv => StopsDependentsFirst
<1> SUFFICES ASSUME LifeInv PROVE StopsDependentsFirst
  OBVIOUS
<1> DEFINE L == Len(loadOrder)
           A == Len(asked)
<1>1. /\ loadOrder \in Seq(Loadable) /\ asked \in Seq(Loadable) /\ L \in Nat /\ A \in Nat
      /\ pos \in Nat /\ Distinct(loadOrder) /\ Follows(loadOrder, found) /\ PhasesAgree
  BY DEF LifeInv, Unharmed, LoadedTyped, LoadedInOrder
<1>2. /\ Life!Range(asked) = {asked[a] : a \in 1..A}
      /\ Life!Range(loadOrder) = {loadOrder[i] : i \in 1..L}
      /\ DOMAIN asked = 1..A
  BY <1>1 DEF Life!Range
<1>3. Life!PluginsStopOnTheirServices
  BY <1>1 DEF PhasesAgree, Life!PluginsStopOnTheirServices
<1>4. CASE phase \notin {"stopping", "stopped"}
  <2>1. asked = <<>>
    BY <1>1, <1>4 DEF PhasesAgree, LifeInv, Unharmed, LoadedTyped
  <2>2. DOMAIN asked = {} /\ Life!Range(asked) = {}
    BY <2>1 DEF Life!Range
  <2> QED
    BY <1>3, <2>2 DEF StopsDependentsFirst, Life!StopsDependentsFirst, Life!IsInjective
<1>5. CASE phase \in {"stopping", "stopped"}
  <2>1. /\ \A i \in 1..L : i > pos =>
            state[loadOrder[i]] = "paused" \/ \E a \in 1..A : asked[a] = loadOrder[i]
        /\ \A a \in 1..A : \E i \in 1..L : i > pos /\ asked[a] = loadOrder[i]
        /\ \A a, b \in 1..A, i, j \in 1..L :
             a < b /\ asked[a] = loadOrder[i] /\ asked[b] = loadOrder[j] => j < i
    BY <1>5 DEF LifeInv, Unharmed, StoppedFromTheEnd
  <2> HIDE DEF L, A
  <2>2. ASSUME NEW a \in 1..A, NEW b \in 1..A, asked[a] = asked[b] PROVE a = b
    <3>1. PICK i \in 1..L : asked[a] = loadOrder[i]
      BY <2>1
    <3>2. asked[b] = loadOrder[i] /\ ~(i < i) /\ a \in Nat /\ b \in Nat
      BY <1>1, <2>2, <3>1
    <3>3. (a < b => i < i) /\ (b < a => i < i)
      BY ONLY <2>1, <3>1, <3>2, a \in 1..A, b \in 1..A, i \in 1..L
    <3> QED
      BY <3>2, <3>3
  <2>3. Life!IsInjective(asked)
    BY <1>2, <2>2 DEF Life!IsInjective
  <2>4. ASSUME NEW p \in Life!Range(loadOrder), NEW q \in Life!Range(loadOrder),
               p \in Life!Range(Life!Manifest(q).deps), p \in Life!Range(asked),
               state[q] # "paused"
        PROVE  q \in Life!Range(asked) /\ Life!At(asked, q) < Life!At(asked, p)
    <3>1. PICK a \in 1..A : asked[a] = p
      BY <1>2, <2>4
    <3>2. PICK i \in 1..L : i > pos /\ p = loadOrder[i]
      BY <2>1, <3>1
    <3>3. PICK j \in 1..L : q = loadOrder[j]
      BY <1>2, <2>4
    <3>4. p \in DepsOf(found, loadOrder[j])
      BY <2>4, <3>3 DEF DepsOf, Life!Manifest
    <3>5. PICK k \in 1..(j - 1) : loadOrder[k] = p
      BY <1>1, <3>4 DEF Follows, L
    <3>6. k \in 1..L /\ k < j
      BY <1>1, <3>5
    <3>7. k = i
      BY <1>1, <3>2, <3>5, <3>6 DEF Distinct, L
    <3>8. j > pos
      BY <1>1, <3>2, <3>6, <3>7
    <3>9. PICK b \in 1..A : asked[b] = q
      BY <2>1, <2>4, <3>3, <3>8
    <3>10. ~(a < b)
      BY <1>1, <2>1, <3>1, <3>2, <3>3, <3>6, <3>7, <3>9
    <3>11. a # b
      <4>1. ASSUME a = b PROVE FALSE
        BY <1>1, <3>1, <3>2, <3>3, <3>6, <3>7, <3>9, <4>1 DEF Distinct, L
      <4> QED
        BY <4>1
    <3>12. b < a
      BY <1>1, <3>10, <3>11
    <3>13. Life!At(asked, p) = a
      <4>1. \A x \in DOMAIN asked : asked[x] = p <=> x = a
        BY <1>2, <2>2, <3>1
      <4> QED
        BY <1>2, <4>1 DEF Life!At
    <3>14. Life!At(asked, q) = b
      <4>1. \A x \in DOMAIN asked : asked[x] = q <=> x = b
        BY <1>2, <2>2, <3>9
      <4> QED
        BY <1>2, <4>1 DEF Life!At
    <3> QED
      BY <1>2, <3>9, <3>12, <3>13, <3>14
  <2>5. Life!StopsDependentsFirst
    BY <2>3, <2>4 DEF Life!StopsDependentsFirst
  <2> QED
    BY <1>3, <2>5 DEF StopsDependentsFirst
<1> QED
  BY <1>4, <1>5

(* No dependency is loaded after what needs it.                               *)
LEMMA LoadedBehind ==
  ASSUME LifeInv
  PROVE  \A i \in DOMAIN loadOrder :
           Life!Range(Life!Manifest(loadOrder[i]).deps) \subseteq {loadOrder[j] : j \in 1..(i - 1)}
<1>1. Follows(loadOrder, found) /\ DOMAIN loadOrder = 1..Len(loadOrder)
  BY DEF LifeInv, Unharmed, LoadedInOrder, LoadedTyped
<1>2. \A i \in 1..Len(loadOrder) : \A p \in Life!Range(Life!Manifest(loadOrder[i]).deps) :
        \E j \in 1..(i - 1) : loadOrder[j] = p
  BY <1>1 DEF Follows, DepsOf, Life!Manifest
<1> QED
  BY <1>1, <1>2

LEMMA LifeStays == EngineSpec => [](OrderInv /\ LifeInv)
<1>1. EngineInit => OrderInv /\ LifeInv
  BY OrderStarts, LifeStarts DEF EngineInit
<1>2. OrderInv /\ LifeInv /\ [EngineNext]_vars => (OrderInv /\ LifeInv)'
  <2> SUFFICES ASSUME OrderInv, LifeInv, [EngineNext]_vars PROVE OrderInv' /\ LifeInv'
    OBVIOUS
  <2>1. Life!LifespanNext \/ UNCHANGED life
    BY OneServiceSteps
  <2> QED
    BY <2>1, OrderIsOnce, OrderSteps, LifeSteps
<1> QED
  BY <1>1, <1>2, PTL DEF EngineSpec

(* Whatever the sources hold, the order in which resolve_load_order puts the  *)
(* plugins has every name once, in its highest version, behind all it depends *)
(* on, and lets one of lower priority go first only where one of at least     *)
(* that priority needs it; and load_all, whichever initialize fails, loads    *)
(* nothing before its dependencies (manager.py load_all, registry.py          *)
(* resolve_load_order).                                                       *)
THEOREM OrderIsSafe == EngineSpec => []LoadOrderSafe
<1>1. OrderInv /\ LifeInv => LoadOrderSafe
  <2> SUFFICES ASSUME OrderInv, LifeInv, phase \notin {"boot", "unbootable"}
               PROVE  LoadOrderSafe
    BY DEF LoadOrderSafe, Life!LoadOrderSafe
  <2> QED
    BY OrdersAreSafe, LoadedBehind DEF LoadOrderSafe, Life!LoadOrderSafe
<1> QED
  BY <1>1, LifeStays, PTL

(* shutdown_all asks no plugin before one that depends on it, and none twice, *)
(* whatever initialize and shutdown raise and whoever pauses; and while it    *)
(* asks, the pools and the cache are still up (manager.py shutdown_all, the   *)
(* lifespan of gateway/app.py).                                               *)
THEOREM DependentsStopFirst == EngineSpec => []StopsDependentsFirst
BY AskedInOrder, LifeStays, PTL

-----------------------------------------------------------------------------
(* The router.  A call of handle has used the first tools of one object.      *)
Called == AgentNames \cup {"general"}
Handled == [pc : {"new", "tools", "done", "raised"}, name : Called, object : Nat,
            used : Seq(Nat \X Nat)]

RouterTyped ==
  /\ names \in Seq(Called) /\ default \in Agent!Range(names)
  /\ object \in [Agent!Range(names) -> Nat]
  /\ tools \in Seq(Nat)
  /\ handling \in [Handlings -> Handled]

UsedInOrder(H) == H.used = [i \in 1..Len(H.used) |-> <<H.object, i>>]

RouterInv ==
  /\ RouterTyped /\ \A h \in Handlings : UsedInOrder(handling[h])

LEMMA RouterStarts == Agent!RouterInit => RouterInv
<1> SUFFICES ASSUME Agent!RouterInit PROVE RouterInv
  OBVIOUS
<1>1. /\ names = <<"general">> /\ default = "general" /\ object = [n \in {"general"} |-> 1]
      /\ tools = <<0>>
      /\ handling = [h \in Handlings |-> [pc |-> "new", name |-> "general", object |-> 0, used |-> <<>>]]
  BY DEF Agent!RouterInit
<1>2. Agent!Range(names) = {"general"} /\ names \in Seq(Called) /\ tools \in Seq(Nat)
  <2>1. "general" \in Called
    BY DEF Called
  <2>2. DOMAIN names = {1} /\ names[1] = "general" /\ names \in Seq(Called)
    BY <1>1, <2>1
  <2> QED
    BY <1>1, <2>2 DEF Agent!Range
<1>3. <<>> \in Seq(Nat \X Nat) /\ Len(<<>>) = 0 /\ <<>> = [i \in 1..0 |-> <<0, i>>]
  OBVIOUS
<1>4. RouterTyped
  <2>1. [pc |-> "new", name |-> "general", object |-> 0, used |-> <<>>] \in Handled
    BY <1>3 DEF Handled, Called
  <2>2. handling \in [Handlings -> Handled] /\ object \in [{"general"} -> Nat]
    BY <1>1, <2>1
  <2> QED
    BY <1>1, <1>2, <2>2 DEF RouterTyped
<1>5. \A h \in Handlings : UsedInOrder(handling[h])
  BY <1>1, <1>3 DEF UsedInOrder
<1> QED
  BY <1>4, <1>5 DEF RouterInv

LEMMA RegistersAgent ==
  ASSUME RouterInv, NEW n \in Called, NEW d \in BOOLEAN, Agent!RegisterAgent(n, d)
  PROVE  RouterInv'
<1>1. /\ tools' = Append(tools, 0) /\ handling' = handling
      /\ object' = [m \in DOMAIN object \cup {n} |-> IF m = n THEN Len(tools) + 1 ELSE object[m]]
      /\ names' = IF n \in Agent!Range(names) THEN names ELSE Append(names, n)
      /\ default' = IF d THEN n ELSE default
  BY DEF Agent!RegisterAgent
<1>2. RouterTyped
  BY DEF RouterInv
<1>3. names' \in Seq(Called) /\ Agent!Range(names') = Agent!Range(names) \cup {n}
  <2>1. CASE n \in Agent!Range(names)
    BY <1>1, <1>2, <2>1 DEF RouterTyped
  <2>2. CASE n \notin Agent!Range(names)
    <3>1. names \in Seq(Called) /\ names' = Append(names, n)
      BY <1>1, <1>2, <2>2 DEF RouterTyped
    <3> HIDE DEF Called
    <3>2. names' \in Seq(Called) /\ DOMAIN names' = 1..(Len(names) + 1) /\ DOMAIN names = 1..Len(names)
          /\ Len(names) \in Nat
      BY <3>1
    <3>3. names'[Len(names) + 1] = n /\ \A i \in 1..Len(names) : names'[i] = names[i]
      BY <3>1
    <3>4. \A i \in 1..(Len(names) + 1) : i \in 1..Len(names) \/ i = Len(names) + 1
      BY <3>2
    <3>5. \A i \in 1..Len(names) : i \in 1..(Len(names) + 1)
      BY <3>2
    <3>6. Len(names) + 1 \in 1..(Len(names) + 1)
      BY <3>2
    <3> QED
      BY <3>2, <3>3, <3>4, <3>5, <3>6 DEF Agent!Range
  <2> QED
    BY <2>1, <2>2
<1>4. object' \in [Agent!Range(names') -> Nat]
  <2>1. DOMAIN object = Agent!Range(names) /\ Len(tools) + 1 \in Nat
        /\ \A m \in DOMAIN object : object[m] \in Nat
    BY <1>2 DEF RouterTyped
  <2>2. DOMAIN object' = Agent!Range(names')
    BY <1>1, <1>3, <2>1
  <2>3. \A m \in Agent!Range(names') : object'[m] \in Nat
    BY <1>1, <1>3, <2>1
  <2> QED
    BY <1>1, <2>2, <2>3
<1>5. tools' \in Seq(Nat)
  BY <1>1, <1>2 DEF RouterTyped
<1>6. RouterTyped'
  BY <1>1, <1>2, <1>3, <1>4, <1>5 DEF RouterTyped
<1> QED
  BY <1>1, <1>6 DEF RouterInv

LEMMA RegistersTool ==
  ASSUME RouterInv, NEW n, Agent!RegisterTool(n)
  PROVE  RouterInv'
<1>1. /\ UNCHANGED <<names, object, default, handling>>
      /\ n \in Agent!Range(names) /\ tools' = [tools EXCEPT ![object[n]] = @ + 1]
  BY DEF Agent!RegisterTool
<1>2. tools \in Seq(Nat) /\ object[n] \in Nat
  BY <1>1 DEF RouterInv, RouterTyped
<1>3. tools' \in Seq(Nat)
  <2>1. \A i \in DOMAIN tools : tools[i] \in Nat /\ tools[i] + 1 \in Nat
    BY <1>2
  <2>2. \A i \in DOMAIN tools' : tools'[i] \in Nat
    BY <1>1, <2>1
  <2>3. DOMAIN tools = 1..Len(tools) /\ Len(tools) \in Nat
    BY <1>2
  <2>4. DOMAIN tools' = 1..Len(tools)
    BY <1>1, <2>3
  <2>5. tools' = [i \in DOMAIN tools' |-> tools'[i]]
    BY <1>1
  <2>6. tools' \in [1..Len(tools) -> Nat]
    BY <2>2, <2>4, <2>5
  <2> QED
    BY <2>3, <2>6
<1> QED
  BY <1>1, <1>3 DEF RouterInv, RouterTyped

(* A call is put into what may be put there.                                  *)
LEMMA PutsCall ==
  ASSUME RouterInv, NEW h \in Handlings, NEW H \in Handled, UsedInOrder(H),
         handling' = [handling EXCEPT ![h] = H], UNCHANGED <<names, object, default, tools>>
  PROVE  RouterInv'
<1>1. handling \in [Handlings -> Handled]
  BY DEF RouterInv, RouterTyped
<1>2. /\ handling' \in [Handlings -> Handled]
      /\ \A g \in Handlings : handling'[g] = IF g = h THEN H ELSE handling[g]
  BY <1>1
<1>3. RouterTyped'
  BY <1>2 DEF RouterInv, RouterTyped
<1>4. \A g \in Handlings : UsedInOrder(handling'[g])
  BY <1>2 DEF RouterInv
<1> QED
  BY <1>3, <1>4 DEF RouterInv

LEMMA HandleKeeps ==
  ASSUME RouterInv, NEW h \in Handlings, Agent!Handle(h)
  PROVE  RouterInv'
<1>1. PICK n \in Agent!Routed :
        handling' = [handling EXCEPT ![h] =
                      [pc |-> IF tools[object[n]] = 0 THEN "done" ELSE "tools",
                       name |-> n, object |-> object[n], used |-> <<>>]]
  BY DEF Agent!Handle
<1> DEFINE H == [pc |-> IF tools[object[n]] = 0 THEN "done" ELSE "tools",
                 name |-> n, object |-> object[n], used |-> <<>>]
<1>2. n \in Agent!Range(names)
  BY DEF Agent!Routed, RouterInv, RouterTyped
<1>3. n \in Called /\ object[n] \in Nat
  BY <1>2 DEF RouterInv, RouterTyped, Agent!Range
<1>4. H \in Handled
  <2>1. <<>> \in Seq(Nat \X Nat)
    OBVIOUS
  <2> QED
    BY <1>3, <2>1 DEF Handled
<1>5. UsedInOrder(H)
  BY DEF UsedInOrder
<1>6. UNCHANGED <<names, object, default, tools>>
  BY DEF Agent!Handle
<1> QED
  BY <1>1, <1>4, <1>5, <1>6, PutsCall

LEMMA NextToolKeeps ==
  ASSUME RouterInv, NEW h \in Handlings, Agent!NextTool(h)
  PROVE  RouterInv'
<1> DEFINE H == handling[h]
           L == Len(H.used)
           o == H.object
           w == Append(H.used, <<o, L + 1>>)
<1>1. /\ UNCHANGED <<names, object, default, tools>>
      /\ \/ handling' = [handling EXCEPT ![h].used = Append(@, <<o, L + 1>>)]
         \/ handling' = [handling EXCEPT ![h].pc = "raised"]
         \/ handling' = [handling EXCEPT ![h].pc = "done"]
  BY DEF Agent!NextTool
<1>2. H \in Handled /\ UsedInOrder(H) /\ handling \in [Handlings -> Handled]
  BY DEF RouterInv, RouterTyped
<1>3. H.used \in Seq(Nat \X Nat) /\ o \in Nat /\ L \in Nat
  BY <1>2 DEF Handled
<1>4. CASE handling' = [handling EXCEPT ![h].used = Append(@, <<o, L + 1>>)]
  <2> DEFINE G == [H EXCEPT !.used = w]
  <2>1. handling' = [handling EXCEPT ![h] = G]
    BY <1>2, <1>4
  <2>2. w \in Seq(Nat \X Nat) /\ Len(w) = L + 1
    BY <1>3
  <2>3. G \in Handled /\ G.used = w /\ G.object = o
    BY <1>2, <2>2 DEF Handled
  <2>4. w = [i \in 1..(L + 1) |-> <<o, i>>]
    <3>1. H.used = [i \in 1..L |-> <<o, i>>]
      BY <1>2 DEF UsedInOrder
    <3>2. \A i \in 1..(L + 1) : w[i] = IF i <= L THEN H.used[i] ELSE <<o, L + 1>>
      BY <1>3
    <3>3. \A i \in 1..L : H.used[i] = <<o, i>>
      BY <3>1, Zenon
    <3>4. ASSUME NEW i \in 1..(L + 1) PROVE w[i] = <<o, i>>
      <4>1. CASE i <= L
        <5>1. i \in 1..L
          BY <1>3, <4>1
        <5> QED
          BY <3>2, <3>3, <4>1, <5>1
      <4>2. CASE i = L + 1
        <5>1. ~(i <= L)
          BY <1>3, <4>2
        <5> QED
          BY <3>2, <4>2, <5>1
      <4> QED
        BY <1>3, <4>1, <4>2
    <3>5. w = [i \in 1..(L + 1) |-> w[i]]
      BY <1>3
    <3> HIDE DEF w
    <3> QED
      BY <3>4, <3>5
  <2> HIDE DEF w, o, L
  <2>5. UsedInOrder(G)
    BY <2>2, <2>3, <2>4 DEF UsedInOrder
  <2> HIDE DEF G
  <2> QED
    BY <1>1, <2>1, <2>3, <2>5, PutsCall
<1>5. ASSUME NEW p \in {"done", "raised"}, handling' = [handling EXCEPT ![h].pc = p]
      PROVE  RouterInv'
  <2> DEFINE G == [H EXCEPT !.pc = p]
  <2>1. handling' = [handling EXCEPT ![h] = G]
    BY <1>2, <1>5
  <2>2. G \in Handled /\ G.used = H.used /\ G.object = H.object
    BY <1>2 DEF Handled
  <2>3. UsedInOrder(G)
    BY <1>2, <2>2 DEF UsedInOrder
  <2> HIDE DEF G
  <2> QED
    BY <1>1, <2>1, <2>2, <2>3, PutsCall
<1> HIDE DEF H, L, o, w
<1> QED
  BY <1>1, <1>4, <1>5

LEMMA RouterSteps ==
  ASSUME RouterInv, Agent!RouterNext \/ UNCHANGED router
  PROVE  RouterInv'
<1>1. CASE UNCHANGED <<names, object, default, tools, handling>>
  BY <1>1 DEF RouterInv, RouterTyped
<1>2. CASE \E n \in AgentNames, d \in BOOLEAN : Agent!RegisterAgent(n, d)
  <2>1. PICK n \in AgentNames, d \in BOOLEAN : Agent!RegisterAgent(n, d)
    BY <1>2
  <2>2. n \in Called
    BY DEF Called
  <2> QED
    BY <2>1, <2>2, RegistersAgent
<1>3. CASE \E n : Agent!RegisterTool(n)
  BY <1>3, RegistersTool
<1>4. CASE \E h \in Handlings : Agent!Handle(h) \/ Agent!NextTool(h)
  BY <1>4, HandleKeeps, NextToolKeeps
<1>5. (\E n : Agent!Broadcast(n, {})) \/ (\E from, to : Agent!Request(from, to)) \/ UNCHANGED router
        => UNCHANGED <<names, object, default, tools, handling>>
  BY DEF Agent!Broadcast, Agent!Request, router
<1> QED
  BY <1>1, <1>2, <1>3, <1>4, <1>5 DEF Agent!RouterNext, Agent!Escalate

-----------------------------------------------------------------------------
(* The team.  Where a stands among the members of S, counted from 0.          *)
Stands(S, a) == Cardinality({b \in S : b < a})

LEMMA AgentCardinality == \A S : Agent!Cardinality(S) = Cardinality(S)
  BY DEF Agent!Cardinality, Cardinality

(* Every place is somebody's.                                                 *)
LEMMA EveryPlace ==
  ASSUME NEW S, S \subseteq Nat, IsFiniteSet(S)
  PROVE  /\ \A a \in S : Stands(S, a) \in 0..(Cardinality(S) - 1)
         /\ \A r \in 0..(Cardinality(S) - 1) : \E a \in S : Stands(S, a) = r
<1> DEFINE N == Cardinality(S)
           B(a) == {b \in S : b < a}
           f == [a \in S |-> Stands(S, a)]
<1>1. N \in Nat
  BY FS_CardinalityType
<1>2. \A a : IsFiniteSet(B(a)) /\ Cardinality(B(a)) \in Nat
  <2>1. \A a : B(a) \in SUBSET S
    OBVIOUS
  <2>2. \A T \in SUBSET S : IsFiniteSet(T)
    BY FS_Subset
  <2> HIDE DEF B
  <2> QED
    BY <2>1, <2>2, FS_CardinalityType
<1>3. ASSUME NEW a \in S, NEW T \in SUBSET S, B(a) \subseteq T, a \in T
      PROVE  Cardinality(B(a)) < Cardinality(T)
  <2> DEFINE A == B(a) \cup {a}
  <2>1. a \notin B(a)
    OBVIOUS
  <2>2. A \subseteq T /\ IsFiniteSet(T)
    BY <1>3, FS_Subset
  <2>3. Cardinality(A) = Cardinality(B(a)) + 1 /\ Cardinality(B(a)) \in Nat
    BY <1>2, <2>1, FS_AddElement
  <2>4. Cardinality(A) <= Cardinality(T) /\ Cardinality(T) \in Nat
    BY <2>2, FS_Subset, FS_CardinalityType
  <2> HIDE DEF A, B
  <2> QED
    BY <2>3, <2>4
<1>4. \A a \in S : Stands(S, a) \in 0..(N - 1)
  <2> SUFFICES ASSUME NEW a \in S PROVE Stands(S, a) \in 0..(N - 1)
    OBVIOUS
  <2>1. Cardinality(B(a)) < N /\ Cardinality(B(a)) \in Nat
    BY <1>2, <1>3
  <2> QED
    BY <1>1, <2>1 DEF Stands
<1>5. \A a, b \in S : a < b => Stands(S, a) < Stands(S, b)
  <2> SUFFICES ASSUME NEW a \in S, NEW b \in S, a < b PROVE Cardinality(B(a)) < Cardinality(B(b))
    BY DEF Stands
  <2>0. a \in Nat /\ b \in Nat /\ \A c \in S : c \in Nat
    OBVIOUS
  <2>1. \A c \in S : c < a => c < b
    <3> SUFFICES ASSUME NEW c \in S, c < a PROVE c < b
      OBVIOUS
    <3>1. c \in Nat
      BY <2>0
    <3> QED
      BY <2>0, <3>1
  <2>2. B(a) \subseteq B(b) /\ a \in B(b) /\ B(b) \in SUBSET S
    BY <2>1
  <2> HIDE DEF B
  <2> QED
    BY <1>3, <2>2
<1>6. f \in [S -> 0..(N - 1)]
  BY <1>4
<1>7. ASSUME NEW a \in S, NEW b \in S, f[a] = f[b] PROVE a = b
  <2>1. Stands(S, a) = Stands(S, b) /\ Stands(S, a) \in Int
    BY <1>4, <1>7
  <2>2. ~(a < b) /\ ~(b < a)
    BY <1>5, <2>1
  <2> QED
    BY <2>2
<1>8. f \in Injection(S, 0..(N - 1))
  <2> HIDE DEF f
  <2> QED
    BY <1>6, <1>7 DEF Injection, IsInjective
<1>9. CASE N = 0
  BY <1>4, <1>9
<1>10. CASE N # 0
  <2>1. IsFiniteSet(0..(N - 1))
    BY <1>1, FS_Interval
  <2>2. Cardinality(0..(N - 1)) = IF 0 > N - 1 THEN 0 ELSE (N - 1) - 0 + 1
    BY <1>1, FS_Interval
  <2>3. Cardinality(0..(N - 1)) = N
    BY <1>1, <1>10, <2>2
  <2> HIDE DEF f, N
  <2>4. f \in Surjection(S, 0..(N - 1))
    BY <1>8, <2>1, <2>3, FS_Injection DEF N
  <2>5. \A r \in 0..(N - 1) : \E a \in S : f[a] = r
    BY <2>4 DEF Surjection
  <2>6. \A a \in S : f[a] = Stands(S, a)
    BY DEF f
  <2> QED
    BY <1>4, <2>5, <2>6 DEF N
<1> QED
  BY <1>9, <1>10

(* Picks ts go round the places of S, and the last one was that of place r:   *)
(* as far as one round back, two picks lie as far apart as their places do.   *)
GoneRound(S, r, ts) ==
  /\ ts \in Seq(S)
  /\ ts # <<>> => Stands(S, ts[Len(ts)]) = r
  /\ \A i, j \in 1..Len(ts) : i <= j /\ j < i + Cardinality(S) =>
       \/ Stands(S, ts[j]) = Stands(S, ts[i]) + (j - i)
       \/ Stands(S, ts[j]) = Stands(S, ts[i]) + (j - i) - Cardinality(S)

LEMMA RoundStarts == \A S, r : GoneRound(S, r, <<>>)
<1>1. \A S : <<>> \in Seq(S)
  OBVIOUS
<1>2. Len(<<>>) = 0 /\ 1..0 = {}
  OBVIOUS
<1> QED
  BY <1>1, <1>2 DEF GoneRound

LEMMA RoundGoesOn ==
  ASSUME NEW S, S \subseteq Nat, IsFiniteSet(S), NEW r \in Nat, NEW ts, GoneRound(S, r, ts),
         NEW a \in S, Stands(S, a) = (r + 1) % Cardinality(S)
  PROVE  GoneRound(S, (r + 1) % Cardinality(S), Append(ts, a))
<1> DEFINE N == Cardinality(S)
           L == Len(ts)
           w == Append(ts, a)
<1>1. N \in Nat /\ N # 0
  BY FS_CardinalityType, FS_EmptySet
<1>2. ts \in Seq(S) /\ L \in Nat
  BY DEF GoneRound
<1>3. w \in Seq(S) /\ Len(w) = L + 1 /\ w[L + 1] = a /\ \A i \in 1..L : w[i] = ts[i]
  BY <1>2
<1>4. \A x \in S : Stands(S, x) \in 0..(N - 1)
  BY EveryPlace
<1> HIDE DEF N, L, w
<1>5. L # 0 => r \in 0..(N - 1) /\ Stands(S, a) = IF r + 1 < N THEN r + 1 ELSE 0
  <2> SUFFICES ASSUME L # 0 PROVE r \in 0..(N - 1) /\ Stands(S, a) = IF r + 1 < N THEN r + 1 ELSE 0
    OBVIOUS
  <2>1. ts # <<>> /\ L \in 1..L
    BY <1>2 DEF L
  <2>2. Stands(S, ts[L]) = r /\ ts[L] \in S
    BY <1>2, <2>1 DEF GoneRound, L
  <2>3. r \in 0..(N - 1)
    BY <1>4, <2>2
  <2>4. (r + 1) % N = IF r + 1 < N THEN r + 1 ELSE 0
    BY <1>1, <2>3
  <2> QED
    BY <2>3, <2>4 DEF N
<1>6. ASSUME NEW i \in 1..(L + 1), NEW j \in 1..(L + 1), i <= j, j < i + N
      PROVE  \/ Stands(S, w[j]) = Stands(S, w[i]) + (j - i)
             \/ Stands(S, w[j]) = Stands(S, w[i]) + (j - i) - N
  <2>1. CASE j \in 1..L
    <3>1. i \in 1..L
      BY <1>2, <1>6, <2>1
    <3> QED
      BY <1>3, <1>6, <2>1, <3>1 DEF GoneRound, N, L
  <2>2. CASE j = L + 1 /\ i = L + 1
    <3>1. Stands(S, w[i]) \in Int
      BY <1>3, <1>4, <2>2
    <3> QED
      BY <1>2, <2>2, <3>1
  <2>3. CASE j = L + 1 /\ i \in 1..L
    <3> DEFINE x == Stands(S, ts[i])
               y == Stands(S, ts[L])
    <3>1. L \in 1..L /\ L < i + N /\ i <= L /\ L # 0
      BY <1>1, <1>2, <1>6, <2>3
    <3>2. ts[i] \in S /\ ts[L] \in S
      BY <1>2, <2>3, <3>1 DEF L
    <3>3. y = x + (L - i) \/ y = x + (L - i) - N
      BY <2>3, <3>1 DEF GoneRound, N, L
    <3>4. ts # <<>>
      BY <3>1 DEF L
    <3>5. y = r
      BY <3>4 DEF GoneRound, L
    <3>6. x \in 0..(N - 1) /\ y \in 0..(N - 1)
      BY <1>4, <3>2
    <3>7. w[j] = a /\ w[i] = ts[i]
      BY <1>3, <2>3
    <3>8. Stands(S, a) = IF r + 1 < N THEN r + 1 ELSE 0
      BY <1>5, <3>1
    <3> HIDE DEF x, y
    <3>9. Stands(S, a) = x + ((L + 1) - i) \/ Stands(S, a) = x + ((L + 1) - i) - N
      <4>1. L + 1 < i + N
        BY <1>6, <2>3
      <4> QED
        BY <1>1, <1>2, <2>3, <3>3, <3>5, <3>6, <3>8, <4>1
    <3> QED
      BY <2>3, <3>7, <3>9 DEF x
  <2> QED
    BY <1>2, <2>1, <2>2, <2>3
<1>7. w # <<>>
  BY <1>2, <1>3
<1> QED
  BY <1>3, <1>6, <1>7 DEF GoneRound, N, w

(* Picks less than a round apart differ.                                      *)
LEMMA RoundIsFair ==
  ASSUME NEW S, S \subseteq Nat, IsFiniteSet(S), NEW r, NEW ts, GoneRound(S, r, ts),
         NEW i \in 1..Len(ts), NEW j \in 1..Len(ts), i < j, j < i + Cardinality(S)
  PROVE  ts[i] # ts[j]
<1>1. Cardinality(S) \in Nat
  BY FS_CardinalityType
<1>2. ts[i] \in S
  BY DEF GoneRound
<1>3. Stands(S, ts[i]) \in Int
  <2>1. Stands(S, ts[i]) \in 0..(Cardinality(S) - 1)
    BY <1>2, EveryPlace
  <2> QED
    BY <1>1, <2>1
<1>4. i \in Nat /\ j \in Nat
  OBVIOUS
<1>5. \/ Stands(S, ts[j]) = Stands(S, ts[i]) + (j - i)
      \/ Stands(S, ts[j]) = Stands(S, ts[i]) + (j - i) - Cardinality(S)
  BY <1>4 DEF GoneRound
<1> QED
  BY <1>1, <1>3, <1>4, <1>5

-----------------------------------------------------------------------------
(* The books: b says for each of n agents how many actions of each kind it    *)
(* has; each has an entry.                                                    *)
Kinds == {"running", "completed", "failed"}
Book == [running : Nat, completed : Nat, failed : Nat]
EntriesOf(n, b) == UNION {{<<a, what, i>> : i \in 1..b[a][what]} : a \in 1..n, what \in Kinds}

LEMMA EntryThere ==
  ASSUME NEW n, NEW b, NEW e
  PROVE  e \in EntriesOf(n, b) <=>
           \E a \in 1..n, what \in Kinds : \E i \in 1..b[a][what] : e = <<a, what, i>>
<1> DEFINE F(a, what) == {<<a, what, i>> : i \in 1..b[a][what]}
           Q == {F(a, what) : a \in 1..n, what \in Kinds}
<1>1. EntriesOf(n, b) = UNION Q
  BY DEF EntriesOf
<1>2. \A a, what : e \in F(a, what) <=> \E i \in 1..b[a][what] : e = <<a, what, i>>
  OBVIOUS
<1> HIDE DEF F
<1>3. \A T : T \in Q <=> \E a \in 1..n, what \in Kinds : T = F(a, what)
  OBVIOUS
<1> HIDE DEF Q
<1>4. e \in EntriesOf(n, b) <=> \E T \in Q : e \in T
  BY <1>1
<1>5. e \in EntriesOf(n, b) <=> \E a \in 1..n, what \in Kinds : e \in F(a, what)
  BY <1>3, <1>4
<1> QED
  BY <1>2, <1>5

OneMore(n, b, c, A, k) ==
  \A a \in 1..n, what \in Kinds :
    /\ b[a][what] \in Nat
    /\ c[a][what] = IF a = A /\ what = k THEN b[a][what] + 1 ELSE b[a][what]

LEMMA OneEntryMore ==
  ASSUME NEW n, NEW b, NEW c, NEW A \in 1..n, NEW k \in Kinds, OneMore(n, b, c, A, k)
  PROVE  /\ EntriesOf(n, c) = EntriesOf(n, b) \cup {<<A, k, b[A][k] + 1>>}
         /\ <<A, k, b[A][k] + 1>> \notin EntriesOf(n, b)
<1> DEFINE m == b[A][k] + 1
           x == <<A, k, m>>
<1>0. \A a \in 1..n, what \in Kinds :
        /\ b[a][what] \in Nat
        /\ c[a][what] = IF a = A /\ what = k THEN b[a][what] + 1 ELSE b[a][what]
  BY DEF OneMore
<1>1. b[A][k] \in Nat /\ c[A][k] = m
  BY <1>0
<1>2. ASSUME x \in EntriesOf(n, b) PROVE FALSE
  <2>1. PICK a \in 1..n, what \in Kinds : \E i \in 1..b[a][what] : x = <<a, what, i>>
    BY <1>2, EntryThere
  <2>2. m \in 1..b[A][k]
    BY <2>1
  <2> QED
    BY <1>1, <2>2
<1>3. ASSUME NEW e PROVE e \in EntriesOf(n, c) <=> e \in EntriesOf(n, b) \/ e = x
  <2>1. ASSUME e \in EntriesOf(n, c) PROVE e \in EntriesOf(n, b) \/ e = x
    <3>1. PICK a \in 1..n, what \in Kinds : \E i \in 1..c[a][what] : e = <<a, what, i>>
      BY <2>1, EntryThere
    <3>2. PICK i \in 1..c[a][what] : e = <<a, what, i>>
      BY <3>1
    <3>3. CASE i \in 1..b[a][what]
      BY <3>2, <3>3, EntryThere
    <3>4. CASE i \notin 1..b[a][what]
      <4>1. a = A /\ what = k
        BY <1>0, <3>2, <3>4
      <4>2. i \in 1..m /\ i \notin 1..b[A][k]
        BY <1>1, <3>2, <3>4, <4>1
      <4>3. i = m
        BY <1>1, <4>2
      <4> QED
        BY <3>2, <4>1, <4>3
    <3> QED
      BY <3>3, <3>4
  <2>2. ASSUME e \in EntriesOf(n, b) PROVE e \in EntriesOf(n, c)
    <3>1. PICK a \in 1..n, what \in Kinds : \E i \in 1..b[a][what] : e = <<a, what, i>>
      BY <2>2, EntryThere
    <3>2. PICK i \in 1..b[a][what] : e = <<a, what, i>>
      BY <3>1
    <3>3. b[a][what] \in Nat /\ (c[a][what] = b[a][what] \/ c[a][what] = b[a][what] + 1)
      BY <1>0
    <3>4. i \in 1..c[a][what]
      BY <3>3
    <3> QED
      BY <3>2, <3>4, EntryThere
  <2>3. x \in EntriesOf(n, c)
    <3>1. m \in 1..c[A][k]
      BY <1>1
    <3> QED
      BY <3>1, EntryThere
  <2> QED
    BY <2>1, <2>2, <2>3
<1> QED
  BY <1>2, <1>3

(* A book with one entry more counts one more.                                *)
LEMMA OneActionMore ==
  ASSUME NEW n, NEW b, NEW c, NEW A \in 1..n, NEW k \in Kinds, OneMore(n, b, c, A, k)
  PROVE  /\ IsFiniteSet(EntriesOf(n, b)) <=> IsFiniteSet(EntriesOf(n, c))
         /\ IsFiniteSet(EntriesOf(n, b)) =>
              Cardinality(EntriesOf(n, c)) = Cardinality(EntriesOf(n, b)) + 1
<1> DEFINE x == <<A, k, b[A][k] + 1>>
           S == EntriesOf(n, b)
           T == EntriesOf(n, c)
<1>1. /\ EntriesOf(n, c) = EntriesOf(n, b) \cup {<<A, k, b[A][k] + 1>>}
      /\ <<A, k, b[A][k] + 1>> \notin EntriesOf(n, b)
  <2> HIDE DEF x, S, T
  <2> QED
    BY OneEntryMore
<1>0. T = S \cup {x} /\ x \notin S
  BY <1>1
<1> HIDE DEF x, S, T
<1>2. IsFiniteSet(S) => IsFiniteSet(T) /\ Cardinality(T) = Cardinality(S) + 1
  BY <1>0, FS_AddElement
<1>3. IsFiniteSet(T) => IsFiniteSet(S)
  BY <1>0, FS_Subset
<1> QED
  BY <1>2, <1>3 DEF S, T

(* An agent with an empty book has no entries.                                *)
LEMMA OneAgentMore ==
  ASSUME NEW n \in Nat, NEW b, NEW c,
         \A a \in 1..n, what \in Kinds : c[a][what] = b[a][what],
         \A what \in Kinds : c[n + 1][what] = 0
  PROVE  EntriesOf(n + 1, c) = EntriesOf(n, b)
<1>1. ASSUME NEW e PROVE e \in EntriesOf(n + 1, c) <=> e \in EntriesOf(n, b)
  <2>1. ASSUME e \in EntriesOf(n + 1, c) PROVE e \in EntriesOf(n, b)
    <3>1. PICK a \in 1..(n + 1), what \in Kinds : \E i \in 1..c[a][what] : e = <<a, what, i>>
      BY <2>1, EntryThere
    <3>2. a # n + 1
      <4>1. 1..0 = {}
        OBVIOUS
      <4> QED
        BY <3>1, <4>1
    <3>3. a \in 1..n
      BY <3>2
    <3> QED
      BY <3>1, <3>3, EntryThere
  <2>2. ASSUME e \in EntriesOf(n, b) PROVE e \in EntriesOf(n + 1, c)
    <3>1. PICK a \in 1..n, what \in Kinds : \E i \in 1..b[a][what] : e = <<a, what, i>>
      BY <2>2, EntryThere
    <3>2. a \in 1..(n + 1)
      OBVIOUS
    <3> QED
      BY <3>1, <3>2, EntryThere
  <2> QED
    BY <2>1, <2>2
<1> QED
  BY <1>1

-----------------------------------------------------------------------------
TeamTyped ==
  /\ role \in Seq({"coordinator", "worker"})
  /\ busy \in [1..Len(role) -> BOOLEAN]
  /\ busy \in Seq(BOOLEAN) /\ Len(busy) = Len(role)
  /\ running \in Seq(Nat) /\ Len(running) = Len(role)
  /\ stats \in Seq([completed : Nat, failed : Nat]) /\ Len(stats) = Len(role)
  /\ roundRobin \in Nat /\ actions \in Nat

Books == [a \in 1..Len(role) |-> Agent!Booked(a)]

BooksAgree ==
  /\ IsFiniteSet(EntriesOf(Len(role), Books))
  /\ Cardinality(EntriesOf(Len(role), Books)) = actions

TeamInv == TeamTyped /\ GoneRound(Agent!Idle, roundRobin, turns) /\ BooksAgree

LEMMA TeamStarts == Agent!TeamInit => TeamInv
<1> SUFFICES ASSUME Agent!TeamInit PROVE TeamInv
  OBVIOUS
<1>1. /\ role = <<>> /\ busy = <<>> /\ running = <<>> /\ stats = <<>> /\ turns = <<>>
      /\ roundRobin = 0 /\ actions = 0
  BY DEF Agent!TeamInit
<1>2. \A S : <<>> \in Seq(S) /\ Len(<<>>) = 0 /\ 1..0 = {} /\ <<>> \in [{} -> S]
  OBVIOUS
<1>3. TeamTyped
  BY <1>1, <1>2 DEF TeamTyped
<1>4. GoneRound(Agent!Idle, roundRobin, turns)
  BY <1>1, RoundStarts
<1>5. EntriesOf(Len(role), Books) = {}
  BY <1>1, <1>2, EntryThere
<1>6. BooksAgree
  BY <1>1, <1>5, FS_EmptySet DEF BooksAgree
<1> QED
  BY <1>3, <1>4, <1>6 DEF TeamInv

LEMMA IdleAgents ==
  ASSUME TeamTyped
  PROVE  /\ Agent!Idle = {a \in 1..Len(role) : ~busy[a]} /\ Len(role) \in Nat
         /\ Agent!Idle \subseteq Nat /\ IsFiniteSet(Agent!Idle)
         /\ \A a : Agent!Standing(a) = Stands(Agent!Idle, a)
<1>1. DOMAIN role = 1..Len(role) /\ Len(role) \in Nat
  BY DEF TeamTyped
<1>2. Agent!Idle = {a \in 1..Len(role) : ~busy[a]}
  BY <1>1 DEF Agent!Idle
<1>3. Agent!Idle \subseteq Nat /\ Agent!Idle \in SUBSET (1..Len(role))
  BY <1>2
<1>4. IsFiniteSet(1..Len(role))
  BY <1>1, FS_Interval
<1>5. IsFiniteSet(Agent!Idle)
  BY <1>3, <1>4, FS_Subset
<1>6. \A a : Agent!Standing(a) = Stands(Agent!Idle, a)
  BY AgentCardinality DEF Agent!Standing, Stands
<1> QED
  BY <1>1, <1>2, <1>3, <1>5, <1>6

(* A step that keeps the books, and the idle agents or forgets the turns.     *)
LEMMA TeamKeeps ==
  ASSUME TeamInv, TeamTyped', Books' = Books, actions' = actions, Len(role') = Len(role),
         \/ turns' = <<>>
         \/ turns' = turns /\ Agent!Idle' = Agent!Idle /\ roundRobin' = roundRobin
  PROVE  TeamInv'
<1>1. GoneRound(Agent!Idle', roundRobin', turns')
  BY RoundStarts DEF TeamInv
<1>2. BooksAgree'
  BY DEF TeamInv, BooksAgree
<1> QED
  BY <1>1, <1>2 DEF TeamInv

LEMMA CreatesAgent ==
  ASSUME TeamInv, NEW r \in {"coordinator", "worker"}, Agent!CreateAgent(r)
  PROVE  TeamInv'
<1> DEFINE n == Len(role)
<1>1. /\ role' = Append(role, r) /\ busy' = Append(busy, FALSE) /\ running' = Append(running, 0)
      /\ stats' = Append(stats, [completed |-> 0, failed |-> 0])
      /\ turns' = <<>> /\ UNCHANGED <<roundRobin, actions>>
  BY DEF Agent!CreateAgent
<1>2. /\ role \in Seq({"coordinator", "worker"}) /\ n \in Nat
      /\ busy \in Seq(BOOLEAN) /\ Len(busy) = n
      /\ running \in Seq(Nat) /\ Len(running) = n
      /\ stats \in Seq([completed : Nat, failed : Nat]) /\ Len(stats) = n
      /\ roundRobin \in Nat /\ actions \in Nat
  BY DEF TeamInv, TeamTyped
<1>3. Len(role') = n + 1 /\ role' \in Seq({"coordinator", "worker"})
  BY <1>1, <1>2
<1>4. busy' \in Seq(BOOLEAN) /\ Len(busy') = n + 1
  BY <1>1, <1>2
<1>5. busy' \in [1..(n + 1) -> BOOLEAN]
  BY <1>4
<1>6. running' \in Seq(Nat) /\ Len(running') = n + 1
      /\ running'[n + 1] = 0 /\ \A a \in 1..n : running'[a] = running[a]
  BY <1>1, <1>2
<1>7. [completed |-> 0, failed |-> 0] \in [completed : Nat, failed : Nat]
  OBVIOUS
<1>8. stats' \in Seq([completed : Nat, failed : Nat]) /\ Len(stats') = n + 1
      /\ stats'[n + 1] = [completed |-> 0, failed |-> 0]
      /\ \A a \in 1..n : stats'[a] = stats[a]
  BY <1>1, <1>2, <1>7
<1>9. TeamTyped'
  BY <1>1, <1>2, <1>3, <1>4, <1>5, <1>6, <1>8 DEF TeamTyped
<1>10. GoneRound(Agent!Idle', roundRobin', turns')
  BY <1>1, RoundStarts
<1>11. EntriesOf(n + 1, Books') = EntriesOf(n, Books)
  <2>1. \A a \in 1..n, what \in Kinds : Books'[a][what] = Books[a][what]
    <3>1. ASSUME NEW a \in 1..n PROVE Books'[a] = Books[a]
      <4>1. running'[a] = running[a] /\ stats'[a] = stats[a]
        BY <1>6, <1>8
      <4>2. a \in 1..Len(role') /\ a \in 1..Len(role)
        BY <1>2, <1>3
      <4>3. Agent!Booked(a)' = Agent!Booked(a)
        BY <4>1 DEF Agent!Booked
      <4>4. Books'[a] = Agent!Booked(a)'
        BY <4>2 DEF Books
      <4>5. Books[a] = Agent!Booked(a)
        BY <4>2 DEF Books
      <4> QED
        BY <4>3, <4>4, <4>5
    <3> QED
      BY <3>1
  <2>2. \A what \in Kinds : Books'[n + 1][what] = 0
    <3>1. n + 1 \in 1..(n + 1)
      BY <1>2
    <3>2. Books'[n + 1] = [running |-> 0, completed |-> 0, failed |-> 0]
      BY <1>3, <1>6, <1>8, <3>1 DEF Books, Agent!Booked
    <3> QED
      BY <3>2 DEF Kinds
  <2> HIDE DEF n
  <2> QED
    BY <1>2, <2>1, <2>2, OneAgentMore DEF n
<1>12. BooksAgree'
  BY <1>1, <1>3, <1>11 DEF TeamInv, BooksAgree
<1> QED
  BY <1>9, <1>10, <1>12 DEF TeamInv

LEMMA AssignsNext ==
  ASSUME TeamInv, Agent!AssignNext
  PROVE  TeamInv'
<1> DEFINE r == (roundRobin + 1) % Agent!Cardinality(Agent!Idle)
           a == CHOOSE b \in Agent!Idle : Agent!Standing(b) = r
<1>1. /\ UNCHANGED <<role, busy, running, actions, stats>>
      /\ IF Agent!Idle # {} THEN roundRobin' = r /\ turns' = Append(turns, a)
                            ELSE UNCHANGED <<roundRobin, turns>>
  BY DEF Agent!AssignNext
<1>2. TeamTyped /\ GoneRound(Agent!Idle, roundRobin, turns) /\ BooksAgree
  BY DEF TeamInv
<1>3. Agent!Idle' = Agent!Idle /\ Books' = Books
  BY <1>1 DEF Agent!Idle, Books, Agent!Booked
<1>4. BooksAgree'
  BY <1>1, <1>2, <1>3 DEF BooksAgree
<1>5. CASE Agent!Idle = {}
  <2>1. TeamTyped'
    BY <1>1, <1>2, <1>5 DEF TeamTyped
  <2> QED
    BY <1>1, <1>2, <1>3, <1>4, <1>5, <2>1 DEF TeamInv
<1>6. CASE Agent!Idle # {}
  <2> DEFINE S == Agent!Idle
             N == Cardinality(S)
  <2>1. S \subseteq Nat /\ IsFiniteSet(S) /\ \A b : Agent!Standing(b) = Stands(S, b)
    BY <1>2, IdleAgents
  <2>2. r = (roundRobin + 1) % N
    BY AgentCardinality
  <2>3. N \in Nat /\ N # 0 /\ roundRobin \in Nat
    BY <1>2, <1>6, <2>1, FS_CardinalityType, FS_EmptySet DEF TeamTyped
  <2> HIDE DEF S, N, r
  <2>4. r \in 0..(N - 1) /\ r \in Nat
    BY <2>2, <2>3
  <2>5. \E b \in S : Agent!Standing(b) = r
    BY <2>1, <2>4, EveryPlace DEF N
  <2>6. a \in S /\ Agent!Standing(a) = r
    BY <2>5 DEF S
  <2> HIDE DEF a
  <2>7. Stands(S, a) = (roundRobin + 1) % Cardinality(S)
    BY <2>1, <2>2, <2>6 DEF N
  <2>8. GoneRound(S, (roundRobin + 1) % Cardinality(S), Append(turns, a))
    BY <1>2, <2>1, <2>3, <2>6, <2>7, RoundGoesOn DEF S
  <2>9. GoneRound(Agent!Idle', roundRobin', turns')
    BY <1>1, <1>3, <1>6, <2>2, <2>8 DEF S, N
  <2>10. TeamTyped'
    BY <1>1, <1>2, <1>6, <2>4 DEF TeamTyped
  <2> QED
    BY <1>4, <2>9, <2>10 DEF TeamInv
<1> QED
  BY <1>5, <1>6

(* What busy becomes where agent a is put to value v: the idle ones stay who  *)
(* they are unless a was not at v.                                            *)
LEMMA PutsBusy ==
  ASSUME TeamTyped, NEW a, NEW v \in BOOLEAN, busy' = [busy EXCEPT ![a] = v], role' = role
  PROVE  /\ busy' \in [1..Len(role) -> BOOLEAN] /\ busy' \in Seq(BOOLEAN) /\ Len(busy') = Len(role)
         /\ busy[a] = v => Agent!Idle' = Agent!Idle
<1>1. busy \in [1..Len(role) -> BOOLEAN] /\ Len(role) \in Nat /\ DOMAIN role = 1..Len(role)
  BY DEF TeamTyped
<1>2. busy' \in [1..Len(role) -> BOOLEAN]
  BY <1>1
<1>3. busy' \in Seq(BOOLEAN) /\ Len(busy') = Len(role)
  BY <1>1, <1>2
<1>4. ASSUME busy[a] = v PROVE Agent!Idle' = Agent!Idle
  <2>1. busy' = busy
    BY <1>1, <1>4
  <2> QED
    BY <2>1 DEF Agent!Idle
<1> QED
  BY <1>2, <1>3, <1>4

LEMMA ExecutesTask ==
  ASSUME TeamInv, NEW t, Agent!ExecuteTask(t)
  PROVE  TeamInv'
<1> DEFINE a == task[t].to
<1>1. /\ busy' = [busy EXCEPT ![a] = FALSE]
      /\ turns' = IF busy[a] THEN <<>> ELSE turns
      /\ UNCHANGED <<role, roundRobin, running, actions, stats>>
  BY DEF Agent!ExecuteTask
<1> HIDE DEF a
<1>2. TeamTyped
  BY DEF TeamInv
<1>3. /\ busy' \in [1..Len(role) -> BOOLEAN] /\ busy' \in Seq(BOOLEAN) /\ Len(busy') = Len(role)
      /\ busy[a] = FALSE => Agent!Idle' = Agent!Idle
  BY <1>1, <1>2, PutsBusy
<1>4. TeamTyped'
  BY <1>1, <1>2, <1>3 DEF TeamTyped
<1>5. Books' = Books
  BY <1>1 DEF Books, Agent!Booked
<1>6. turns' = <<>> \/ (turns' = turns /\ Agent!Idle' = Agent!Idle)
  <2>1. CASE a \in 1..Len(role)
    <3>1. busy[a] \in BOOLEAN
      BY <1>2, <2>1 DEF TeamTyped
    <3>2. CASE busy[a] = TRUE
      BY <1>1, <3>2
    <3>3. CASE busy[a] = FALSE
      BY <1>1, <1>3, <3>3
    <3> QED
      BY <3>1, <3>2, <3>3
  <2>2. CASE a \notin 1..Len(role)
    <3>1. busy' = busy
      BY <1>1, <1>2, <2>2 DEF TeamTyped
    <3>2. Agent!Idle' = Agent!Idle
      BY <1>1, <3>1 DEF Agent!Idle
    <3> QED
      BY <1>1, <3>2
  <2> QED
    BY <2>1, <2>2
<1> QED
  BY <1>1, <1>4, <1>5, <1>6, TeamKeeps

(* Agent a is put to v, and the turns are forgotten where it was not there.   *)
LEMMA MovesAgent ==
  ASSUME TeamInv, NEW a \in 1..Len(role), NEW v \in BOOLEAN,
         busy' = [busy EXCEPT ![a] = v], turns' = IF busy[a] = v THEN turns ELSE <<>>,
         UNCHANGED <<role, roundRobin>>
  PROVE  /\ GoneRound(Agent!Idle', roundRobin', turns')
         /\ busy' \in [1..Len(role) -> BOOLEAN] /\ busy' \in Seq(BOOLEAN) /\ Len(busy') = Len(role)
<1>1. TeamTyped /\ GoneRound(Agent!Idle, roundRobin, turns)
  BY DEF TeamInv
<1>2. /\ busy' \in [1..Len(role) -> BOOLEAN] /\ busy' \in Seq(BOOLEAN) /\ Len(busy') = Len(role)
      /\ busy[a] = v => Agent!Idle' = Agent!Idle
  BY <1>1, PutsBusy
<1>3. GoneRound(Agent!Idle', roundRobin', turns')
  <2>1. CASE busy[a] = v
    BY <1>1, <1>2, <2>1
  <2>2. CASE busy[a] # v
    BY <2>2, RoundStarts
  <2> QED
    BY <2>1, <2>2
<1> QED
  BY <1>2, <1>3

(* A value of a list is replaced.                                             *)
LEMMA PutAt ==
  ASSUME NEW T, NEW s \in Seq(T), NEW a \in 1..Len(s), NEW v \in T
  PROVE  /\ [s EXCEPT ![a] = v] \in Seq(T) /\ Len([s EXCEPT ![a] = v]) = Len(s)
         /\ \A b \in 1..Len(s) : [s EXCEPT ![a] = v][b] = IF b = a THEN v ELSE s[b]
<1> DEFINE w == [s EXCEPT ![a] = v]
<1>1. DOMAIN s = 1..Len(s) /\ Len(s) \in Nat /\ \A b \in 1..Len(s) : s[b] \in T
  OBVIOUS
<1>2. DOMAIN w = 1..Len(s) /\ \A b \in 1..Len(s) : w[b] = IF b = a THEN v ELSE s[b]
  BY <1>1
<1>3. \A b \in 1..Len(s) : w[b] \in T
  BY <1>1, <1>2
<1>4. w = [b \in DOMAIN w |-> w[b]]
  OBVIOUS
<1> HIDE DEF w
<1>5. w \in [1..Len(s) -> T]
  BY <1>2, <1>3, <1>4
<1>6. w \in Seq(T) /\ Len(w) = Len(s)
  BY <1>1, <1>5
<1> QED
  BY <1>2, <1>6 DEF w

(* The book of an agent whose actions under way are r and whose outcomes o.   *)
BookOf(r, o) == [running |-> r, completed |-> o.completed, failed |-> o.failed]
Outcome == [completed : Nat, failed : Nat]

LEMMA BookSays ==
  ASSUME NEW r, NEW o
  PROVE  /\ BookOf(r, o)["running"] = r /\ BookOf(r, o)["completed"] = o.completed
         /\ BookOf(r, o)["failed"] = o.failed
BY DEF BookOf

(* Between the books b and c agent A has begun an action, or one has ended.   *)
Begun(n, b, c, A, R, Q, S) ==
  \A a \in 1..n : /\ b[a] = BookOf(R[a], S[a]) /\ c[a] = BookOf(Q[a], S[a])
                  /\ R[a] \in Nat /\ S[a] \in Outcome
                  /\ Q[a] = IF a = A THEN R[a] + 1 ELSE R[a]
Ended(n, b, c, A, k, R, S, T) ==
  \A a \in 1..n : /\ b[a] = BookOf(R[a], S[a]) /\ c[a] = BookOf(R[a], T[a])
                  /\ R[a] \in Nat /\ S[a] \in Outcome
                  /\ T[a] = IF a = A THEN [S[a] EXCEPT ![k] = @ + 1] ELSE S[a]

LEMMA StartsOne ==
  ASSUME NEW n, NEW b, NEW c, NEW A \in 1..n, NEW R, NEW Q, NEW S, Begun(n, b, c, A, R, Q, S)
  PROVE  OneMore(n, b, c, A, "running")
<1> SUFFICES ASSUME NEW a \in 1..n, NEW what \in Kinds
             PROVE  /\ b[a][what] \in Nat
                    /\ c[a][what] = IF a = A /\ what = "running" THEN b[a][what] + 1 ELSE b[a][what]
  BY DEF OneMore
<1>1. /\ b[a] = BookOf(R[a], S[a]) /\ c[a] = BookOf(Q[a], S[a])
      /\ R[a] \in Nat /\ S[a] \in Outcome
      /\ Q[a] = IF a = A THEN R[a] + 1 ELSE R[a]
  BY DEF Begun
<1>2. /\ b[a]["running"] = R[a] /\ c[a]["running"] = Q[a]
      /\ b[a]["completed"] = S[a].completed /\ c[a]["completed"] = S[a].completed
      /\ b[a]["failed"] = S[a].failed /\ c[a]["failed"] = S[a].failed
  BY <1>1, BookSays
<1>3. S[a].completed \in Nat /\ S[a].failed \in Nat
  BY <1>1 DEF Outcome
<1> QED
  BY <1>1, <1>2, <1>3 DEF Kinds

LEMMA EndsOne ==
  ASSUME NEW n, NEW b, NEW c, NEW A \in 1..n, NEW k \in {"completed", "failed"},
         NEW R, NEW S, NEW T, Ended(n, b, c, A, k, R, S, T)
  PROVE  OneMore(n, b, c, A, k)
<1> SUFFICES ASSUME NEW a \in 1..n, NEW what \in Kinds
             PROVE  /\ b[a][what] \in Nat
                    /\ c[a][what] = IF a = A /\ what = k THEN b[a][what] + 1 ELSE b[a][what]
  BY DEF OneMore
<1>1. /\ b[a] = BookOf(R[a], S[a]) /\ c[a] = BookOf(R[a], T[a])
      /\ R[a] \in Nat /\ S[a] \in Outcome
      /\ T[a] = IF a = A THEN [S[a] EXCEPT ![k] = @ + 1] ELSE S[a]
  BY DEF Ended
<1>2. /\ b[a]["running"] = R[a] /\ c[a]["running"] = R[a]
      /\ b[a]["completed"] = S[a].completed /\ c[a]["completed"] = T[a].completed
      /\ b[a]["failed"] = S[a].failed /\ c[a]["failed"] = T[a].failed
  <2>1. b[a] = BookOf(R[a], S[a]) /\ c[a] = BookOf(R[a], T[a])
    BY <1>1
  <2> QED
    BY <2>1, BookSays
<1>3. S[a].completed \in Nat /\ S[a].failed \in Nat
  BY <1>1 DEF Outcome
<1>4. a = A => /\ T[a].completed = IF k = "completed" THEN S[a].completed + 1 ELSE S[a].completed
               /\ T[a].failed = IF k = "failed" THEN S[a].failed + 1 ELSE S[a].failed
  <2>1. DOMAIN S[a] = {"completed", "failed"}
    BY <1>1 DEF Outcome
  <2> QED
    BY <1>1, <2>1
<1>5. a # A => T[a].completed = S[a].completed /\ T[a].failed = S[a].failed
  BY <1>1
<1> QED
  BY <1>1, <1>2, <1>3, <1>4, <1>5 DEF Kinds

LEMMA BooksSay ==
  /\ \A a \in 1..Len(role) : Books[a] = BookOf(running[a], stats[a])
  /\ \A a \in 1..Len(role') : Books'[a] = BookOf(running'[a], stats'[a])
BY DEF Books, Agent!Booked, BookOf

LEMMA Acts ==
  ASSUME TeamInv, NEW a, Agent!Act(a)
  PROVE  TeamInv'
<1> DEFINE n == Len(role)
<1>1. /\ a \in DOMAIN role
      /\ actions' = actions + 1
      /\ running' = [running EXCEPT ![a] = running[a] + 1]
      /\ busy' = [busy EXCEPT ![a] = TRUE]
      /\ turns' = IF busy[a] THEN turns ELSE <<>>
      /\ UNCHANGED <<role, roundRobin, stats>>
  BY DEF Agent!Act
<1>2. /\ TeamTyped /\ BooksAgree /\ n \in Nat /\ a \in 1..n
      /\ running \in Seq(Nat) /\ Len(running) = n
      /\ stats \in Seq(Outcome) /\ Len(stats) = n
  BY <1>1 DEF TeamInv, TeamTyped, Outcome
<1>3. busy[a] \in BOOLEAN
  BY <1>2 DEF TeamTyped
<1>4. turns' = IF busy[a] = TRUE THEN turns ELSE <<>>
  BY <1>1, <1>3
<1>5. /\ GoneRound(Agent!Idle', roundRobin', turns')
      /\ busy' \in [1..n -> BOOLEAN] /\ busy' \in Seq(BOOLEAN) /\ Len(busy') = n
  BY <1>1, <1>2, <1>4, MovesAgent
<1>6. running[a] + 1 \in Nat /\ \A b \in 1..n : running[b] \in Nat /\ stats[b] \in Outcome
  BY <1>2
<1>7. /\ running' \in Seq(Nat) /\ Len(running') = n
      /\ \A b \in 1..n : running'[b] = IF b = a THEN running[a] + 1 ELSE running[b]
  BY <1>1, <1>2, <1>6, PutAt
<1>8. TeamTyped'
  BY <1>1, <1>2, <1>5, <1>7 DEF TeamTyped
<1>9. OneMore(n, Books, Books', a, "running")
  <2>1. \A b \in 1..n : Books[b] = BookOf(running[b], stats[b]) /\ Books'[b] = BookOf(running'[b], stats[b])
    BY <1>1, BooksSay
  <2>2. \A b \in 1..n : running'[b] = IF b = a THEN running[b] + 1 ELSE running[b]
    BY <1>7
  <2> HIDE DEF n
  <2> QED
    <3>1. Begun(n, Books, Books', a, running, running', stats)
      BY <1>6, <2>1, <2>2 DEF Begun
    <3> QED
      BY <1>2, <3>1, StartsOne
<1>10. "running" \in Kinds
  BY DEF Kinds
<1>11. BooksAgree'
  <2>1. EntriesOf(Len(role'), Books') = EntriesOf(n, Books')
    BY <1>1
  <2> HIDE DEF n
  <2>2. /\ IsFiniteSet(EntriesOf(n, Books)) <=> IsFiniteSet(EntriesOf(n, Books'))
        /\ IsFiniteSet(EntriesOf(n, Books)) =>
             Cardinality(EntriesOf(n, Books')) = Cardinality(EntriesOf(n, Books)) + 1
    BY <1>2, <1>9, <1>10, OneActionMore
  <2> QED
    BY <1>1, <1>2, <2>1, <2>2 DEF BooksAgree, n
<1> QED
  BY <1>5, <1>8, <1>11 DEF TeamInv

LEMMA EndsAct ==
  ASSUME TeamInv, NEW a, Agent!ActEnds(a)
  PROVE  TeamInv'
<1> DEFINE n == Len(role)
           D == [b \in 1..n |-> BookOf(running'[b], stats[b])]
<1>1. /\ a \in DOMAIN role /\ running[a] > 0
      /\ running' = [running EXCEPT ![a] = running[a] - 1]
      /\ busy' = [busy EXCEPT ![a] = FALSE]
      /\ turns' = IF busy[a] THEN <<>> ELSE turns
      /\ UNCHANGED <<role, roundRobin, actions>>
      /\ \/ stats' = [stats EXCEPT ![a].completed = @ + 1]
         \/ stats' = [stats EXCEPT ![a].failed = @ + 1]
  BY DEF Agent!ActEnds
<1>2. /\ TeamTyped /\ BooksAgree /\ n \in Nat /\ a \in 1..n
      /\ running \in Seq(Nat) /\ Len(running) = n
      /\ stats \in Seq(Outcome) /\ Len(stats) = n
  BY <1>1 DEF TeamInv, TeamTyped, Outcome
<1>3. busy[a] \in BOOLEAN
  BY <1>2 DEF TeamTyped
<1>4. turns' = IF busy[a] = FALSE THEN turns ELSE <<>>
  BY <1>1, <1>3
<1>5. /\ GoneRound(Agent!Idle', roundRobin', turns')
      /\ busy' \in [1..n -> BOOLEAN] /\ busy' \in Seq(BOOLEAN) /\ Len(busy') = n
  BY <1>1, <1>2, <1>4, MovesAgent
<1>6. /\ running[a] - 1 \in Nat /\ (running[a] - 1) + 1 = running[a]
      /\ \A b \in 1..n : running[b] \in Nat /\ stats[b] \in Outcome
  BY <1>1, <1>2
<1>7. /\ running' \in Seq(Nat) /\ Len(running') = n
      /\ \A b \in 1..n : running'[b] = IF b = a THEN running[a] - 1 ELSE running[b]
  BY <1>1, <1>2, <1>6, PutAt
<1>8. /\ \A b \in 1..n : D[b] = BookOf(running'[b], stats[b])
      /\ \A b \in 1..n : Books[b] = BookOf(running[b], stats[b])
      /\ \A b \in 1..n : Books'[b] = BookOf(running'[b], stats'[b])
  BY <1>1, BooksSay
<1>9. \A b \in 1..n : running'[b] \in Nat /\ running[b] = IF b = a THEN running'[b] + 1 ELSE running'[b]
  BY <1>6, <1>7
<1> HIDE DEF D, n
<1>10. OneMore(n, D, Books, a, "running")
  <2>1. Begun(n, D, Books, a, running', running, stats)
    BY <1>6, <1>8, <1>9 DEF Begun
  <2> QED
    BY <1>2, <2>1, StartsOne
<1>11. "running" \in Kinds /\ "completed" \in Kinds /\ "failed" \in Kinds
  BY DEF Kinds
<1>12. ASSUME NEW k \in {"completed", "failed"}, stats' = [stats EXCEPT ![a][k] = @ + 1]
       PROVE  TeamInv'
  <2> DEFINE o == [stats[a] EXCEPT ![k] = @ + 1]
  <2>1. stats' = [stats EXCEPT ![a] = o]
    BY <1>2, <1>12
  <2>2. o \in Outcome
    <3>1. stats[a] \in Outcome
      BY <1>2, <1>6
    <3> QED
      BY <3>1 DEF Outcome
  <2>3. \A b \in 1..n : [stats EXCEPT ![a] = o][b] = IF b = a THEN o ELSE stats[b]
    <3> HIDE DEF o
    <3> QED
      BY <1>2, <2>2, PutAt
  <2>4. stats' \in Seq(Outcome) /\ Len(stats') = n
    <3> HIDE DEF o
    <3> QED
      BY <1>2, <2>1, <2>2, PutAt
  <2>5. \A b \in 1..n : stats'[b] = IF b = a THEN [stats[b] EXCEPT ![k] = @ + 1] ELSE stats[b]
    BY <2>1, <2>3
  <2> HIDE DEF o
  <2>6. TeamTyped'
    BY <1>1, <1>2, <1>5, <1>7, <2>4 DEF TeamTyped, Outcome, n
  <2>7. OneMore(n, D, Books', a, k)
    <3>1. Ended(n, D, Books', a, k, running', stats, stats')
      BY <1>6, <1>8, <1>9, <2>5 DEF Ended
    <3> QED
      BY <1>2, <3>1, EndsOne
  <2>8. BooksAgree'
    <3>1. EntriesOf(Len(role'), Books') = EntriesOf(n, Books')
      BY <1>1 DEF n
    <3>2. /\ IsFiniteSet(EntriesOf(n, D)) <=> IsFiniteSet(EntriesOf(n, Books'))
          /\ IsFiniteSet(EntriesOf(n, D)) =>
               Cardinality(EntriesOf(n, Books')) = Cardinality(EntriesOf(n, D)) + 1
      BY <1>2, <1>11, <2>7, OneActionMore
    <3>3. /\ IsFiniteSet(EntriesOf(n, D)) <=> IsFiniteSet(EntriesOf(n, Books))
          /\ IsFiniteSet(EntriesOf(n, D)) =>
               Cardinality(EntriesOf(n, Books)) = Cardinality(EntriesOf(n, D)) + 1
      BY <1>2, <1>10, <1>11, OneActionMore
    <3> QED
      BY <1>1, <1>2, <3>1, <3>2, <3>3 DEF BooksAgree, n
  <2> QED
    BY <1>5, <2>6, <2>8 DEF TeamInv
<1>13. \/ stats' = [stats EXCEPT ![a]["completed"] = @ + 1]
       \/ stats' = [stats EXCEPT ![a]["failed"] = @ + 1]
  BY <1>1
<1> QED
  BY <1>12, <1>13

LEMMA TeamSteps ==
  ASSUME TeamInv, Agent!TeamNext \/ UNCHANGED team
  PROVE  TeamInv'
<1>1. CASE UNCHANGED <<role, roundRobin, busy, running, actions, stats, turns>>
  <2>1. TeamTyped' /\ Books' = Books /\ Agent!Idle' = Agent!Idle
    BY <1>1 DEF TeamInv, TeamTyped, Books, Agent!Booked, Agent!Idle
  <2> QED
    BY <1>1, <2>1, TeamKeeps
<1>2. CASE \E r \in {"coordinator", "worker"} : Agent!CreateAgent(r)
  BY <1>2, CreatesAgent
<1>3. CASE Agent!AssignNext
  BY <1>3, AssignsNext
<1>4. CASE \E t : Agent!ExecuteTask(t)
  BY <1>4, ExecutesTask
<1>5. CASE \E a : Agent!Act(a) \/ Agent!ActEnds(a)
  BY <1>5, Acts, EndsAct
<1>6. (\E a : Agent!AssignTask(a)) \/ (\E from, to : Agent!SendMessage(from, to)) \/ UNCHANGED team
        => UNCHANGED <<role, roundRobin, busy, running, actions, stats, turns>>
  BY DEF Agent!AssignTask, Agent!SendMessage, team
<1> QED
  BY <1>1, <1>2, <1>3, <1>4, <1>5, <1>6 DEF Agent!TeamNext

LEMMA AgentsHold == RouterInv /\ TeamInv => AgentsSound
<1> SUFFICES ASSUME RouterInv, TeamInv PROVE AgentsSound
  OBVIOUS
<1>1. Agent!HandledByOneRegistration
  BY DEF RouterInv, RouterTyped, UsedInOrder, Agent!HandledByOneRegistration
<1>2. TeamTyped /\ GoneRound(Agent!Idle, roundRobin, turns) /\ BooksAgree
  BY DEF TeamInv
<1>3. DOMAIN turns = 1..Len(turns)
  BY <1>2 DEF GoneRound
<1>4. \A i \in DOMAIN turns, j \in DOMAIN turns :
        i < j /\ j < i + Agent!Cardinality(Agent!Idle) => turns[i] # turns[j]
  BY <1>2, <1>3, IdleAgents, AgentCardinality, RoundIsFair
<1>5. Agent!Entries = EntriesOf(Len(role), Books)
  <2>1. DOMAIN role = 1..Len(role)
    BY <1>2 DEF TeamTyped
  <2> DEFINE F(a, what) == {<<a, what, i>> : i \in 1..Agent!Booked(a)[what]}
             G(a, what) == {<<a, what, i>> : i \in 1..Books[a][what]}
  <2>2. \A a \in 1..Len(role) : Books[a] = Agent!Booked(a)
    BY DEF Books
  <2>3. \A a \in 1..Len(role), what \in Kinds : F(a, what) = G(a, what)
    BY <2>2
  <2>4. Agent!Entries = UNION {F(a, what) : a \in 1..Len(role), what \in Kinds}
    BY <2>1 DEF Agent!Entries, Kinds
  <2>5. EntriesOf(Len(role), Books) = UNION {G(a, what) : a \in 1..Len(role), what \in Kinds}
    BY DEF EntriesOf
  <2> HIDE DEF F, G
  <2>6. {F(a, what) : a \in 1..Len(role), what \in Kinds} = {G(a, what) : a \in 1..Len(role), what \in Kinds}
    BY <2>3
  <2> QED
    BY <2>4, <2>5, <2>6
<1>6. Agent!FairTurns
  BY <1>2, <1>4, <1>5, AgentCardinality DEF Agent!FairTurns, BooksAgree
<1> QED
  BY <1>1, <1>6 DEF AgentsSound

(* Whoever is registered again while inputs are handled, an input is handled  *)
(* with the tools of one registration, each once and in order; while the same *)
(* agents are idle nobody is picked twice before all others were; and every   *)
(* action is in the books once (agent_router.py handle, multi_agent.py        *)
(* _next_agent and act).                                                      *)
THEOREM AgentsStaySound == EngineSpec => []AgentsSound
<1>1. EngineInit => RouterInv /\ TeamInv
  BY RouterStarts, TeamStarts DEF EngineInit
<1>2. RouterInv /\ TeamInv /\ [EngineNext]_vars => (RouterInv /\ TeamInv)'
  <2> SUFFICES ASSUME RouterInv, TeamInv, [EngineNext]_vars PROVE RouterInv' /\ TeamInv'
    OBVIOUS
  <2>1. (Agent!RouterNext \/ UNCHANGED router) /\ (Agent!TeamNext \/ UNCHANGED team)
    BY OneServiceSteps
  <2> QED
    BY <2>1, RouterSteps, TeamSteps
<1> QED
  BY <1>1, <1>2, AgentsHold, PTL DEF EngineSpec

-----------------------------------------------------------------------------
(* The swarm's server.  w is the stream of the packets q from packet p on:    *)
(* all their units, each once, in order.                                      *)
Packet == [node : Nodes, beat : BOOLEAN, body : 0..1]
Bytes == Nat \X Nat
Size(q, x) == 2 + q[x].body
Earlier(u, v) == u[1] < v[1] \/ (u[1] = v[1] /\ u[2] < v[2])

InOrder(q, w, p) ==
  /\ w \in Seq(Bytes) /\ p \in 1..(Len(q) + 1)
  /\ \A i \in 1..Len(w) : w[i][1] \in p..Len(q) /\ w[i][2] \in 1..Size(q, w[i][1])
  /\ \A x \in p..Len(q) : \A k \in 1..Size(q, x) : \E i \in 1..Len(w) : w[i] = <<x, k>>
  /\ \A i, j \in 1..Len(w) : i < j => Earlier(w[i], w[j])

LEMMA Sizes ==
  ASSUME NEW q \in Seq(Packet), NEW x \in 1..Len(q)
  PROVE  /\ q[x] \in Packet /\ q[x].body \in {0, 1} /\ Size(q, x) \in {2, 3}
         /\ q[x].beat \in BOOLEAN /\ q[x].node \in Nodes
<1>1. q[x] \in Packet
  OBVIOUS
<1>2. q[x].body \in 0..1 /\ q[x].beat \in BOOLEAN /\ q[x].node \in Nodes
  BY <1>1 DEF Packet
<1> QED
  BY <1>1, <1>2 DEF Size

(* What is left of a stream starts with the header of its packet.             *)
LEMMA StartsWithHeader ==
  ASSUME NEW q \in Seq(Packet), NEW w, NEW p, InOrder(q, w, p), Len(w) # 0
  PROVE  /\ p \in 1..Len(q) /\ Len(w) \in Nat /\ Len(w) >= 2
         /\ w[1] = <<p, 1>> /\ w[2] = <<p, 2>>
<1>1. /\ w \in Seq(Bytes) /\ Len(w) \in Nat /\ Len(q) \in Nat /\ p \in 1..(Len(q) + 1)
      /\ 1 \in 1..Len(w) /\ \A i \in 1..Len(w) : w[i][1] \in Nat /\ w[i][2] \in Nat /\ i \in Nat
  <2>1. w \in Seq(Bytes) /\ p \in 1..(Len(q) + 1)
    BY DEF InOrder
  <2>2. Len(w) \in Nat /\ Len(q) \in Nat
    BY <2>1
  <2>3. \A i \in 1..Len(w) : w[i] \in Bytes
    BY <2>1
  <2> QED
    BY <2>1, <2>2, <2>3 DEF Bytes
<1>2. w[1][1] \in p..Len(q) /\ w[1][2] \in 1..Size(q, w[1][1])
  BY <1>1 DEF InOrder
<1>3. p \in 1..Len(q)
  BY <1>1, <1>2
<1>4. Size(q, p) \in {2, 3}
  BY <1>3, Sizes
<1>5. 1 \in 1..Size(q, p) /\ 2 \in 1..Size(q, p) /\ p \in p..Len(q)
  BY <1>3, <1>4
<1>6. PICK i \in 1..Len(w) : w[i] = <<p, 1>>
  BY <1>5 DEF InOrder
<1>7. i = 1
  <2> SUFFICES ASSUME i # 1 PROVE FALSE
    OBVIOUS
  <2>1. 1 < i
    BY <1>1
  <2>2. Earlier(w[1], w[i])
    BY <1>1, <2>1 DEF InOrder
  <2>3. w[i][1] = p /\ w[i][2] = 1
    BY <1>6
  <2>4. Size(q, w[1][1]) \in {2, 3}
    BY <1>1, <1>2, Sizes
  <2> QED
    BY <1>1, <1>2, <1>3, <2>2, <2>3, <2>4 DEF Earlier
<1>8. PICK j \in 1..Len(w) : w[j] = <<p, 2>>
  BY <1>5 DEF InOrder
<1>9. j # 1
  BY <1>6, <1>7, <1>8
<1>10. j >= 2 /\ Len(w) >= 2 /\ 2 \in 1..Len(w)
  BY <1>1, <1>9
<1>11. j = 2
  <2> SUFFICES ASSUME j # 2 PROVE FALSE
    OBVIOUS
  <2>1. 2 < j /\ 1 < 2
    BY <1>1, <1>10
  <2>2. Earlier(w[1], w[2]) /\ Earlier(w[2], w[j])
    BY <1>1, <1>10, <2>1 DEF InOrder
  <2>3. w[1][1] = p /\ w[1][2] = 1 /\ w[j][1] = p /\ w[j][2] = 2
    BY <1>6, <1>7, <1>8
  <2> QED
    BY <1>1, <1>3, <1>10, <2>2, <2>3 DEF Earlier
<1> QED
  BY <1>1, <1>3, <1>6, <1>7, <1>8, <1>10, <1>11

(* Behind a packet that is a header only the stream goes on with the next.    *)
LEMMA HeaderTaken ==
  ASSUME NEW q \in Seq(Packet), NEW w, NEW p, InOrder(q, w, p), Len(w) # 0, q[p].body = 0,
         NEW v \in Seq(Bytes), Len(v) = Len(w) - 2,
         \A i \in 1..Len(v) : v[i] = w[i + 2]
  PROVE  InOrder(q, v, p + 1)
<1>1. /\ p \in 1..Len(q) /\ Len(w) \in Nat /\ Len(w) >= 2 /\ Len(q) \in Nat
      /\ w[1] = <<p, 1>> /\ w[2] = <<p, 2>>
  BY StartsWithHeader
<1>2. /\ Len(v) \in Nat /\ \A i \in 1..Len(v) : i + 2 \in 1..Len(w) /\ 2 < i + 2 /\ i \in Nat
      /\ 1 \in 1..Len(w) /\ 2 \in 1..Len(w)
      /\ \A i \in 1..Len(w) : i = 1 \/ i = 2 \/ (i - 2 \in 1..Len(v) /\ (i - 2) + 2 = i)
  BY <1>1
<1>3. \A i \in 1..Len(w) : w[i][1] \in Nat /\ w[i][2] \in Nat
  <2>1. w \in Seq(Bytes)
    BY DEF InOrder
  <2>2. \A i \in 1..Len(w) : w[i] \in Bytes
    BY <2>1
  <2> QED
    BY <2>2 DEF Bytes
<1>4. ASSUME NEW i \in 1..Len(v)
      PROVE  v[i][1] \in (p + 1)..Len(q) /\ v[i][2] \in 1..Size(q, v[i][1])
  <2>1. /\ w[i + 2][1] \in p..Len(q) /\ w[i + 2][2] \in 1..Size(q, w[i + 2][1])
        /\ Earlier(w[2], w[i + 2])
    BY <1>2 DEF InOrder
  <2>2. w[i + 2][1] # p
    <3> SUFFICES ASSUME w[i + 2][1] = p PROVE FALSE
      OBVIOUS
    <3>1. Size(q, p) = 2
      BY DEF Size
    <3>2. w[i + 2][2] \in 1..2 /\ w[2][1] = p /\ w[2][2] = 2
      BY <1>1, <2>1, <3>1
    <3>3. 2 < w[i + 2][2]
      BY <1>1, <2>1, <3>2 DEF Earlier
    <3> QED
      BY <3>2, <3>3
  <2>3. w[i + 2][1] \in (p + 1)..Len(q)
    BY <1>1, <2>1, <2>2
  <2> QED
    BY <2>1, <2>3
<1>5. ASSUME NEW x \in (p + 1)..Len(q), NEW k \in 1..Size(q, x)
      PROVE  \E i \in 1..Len(v) : v[i] = <<x, k>>
  <2>1. x \in p..Len(q) /\ x # p
    BY <1>1
  <2>2. PICK i \in 1..Len(w) : w[i] = <<x, k>>
    BY <2>1 DEF InOrder
  <2>3. i # 1 /\ i # 2
    BY <1>1, <2>1, <2>2
  <2>4. i - 2 \in 1..Len(v) /\ (i - 2) + 2 = i
    BY <1>2, <2>3
  <2> QED
    BY <2>2, <2>4
<1>6. ASSUME NEW i \in 1..Len(v), NEW j \in 1..Len(v), i < j
      PROVE  Earlier(v[i], v[j])
  <2>1. i + 2 < j + 2 /\ i + 2 \in 1..Len(w) /\ j + 2 \in 1..Len(w)
    BY <1>2, <1>6
  <2>2. Earlier(w[i + 2], w[j + 2])
    BY <2>1 DEF InOrder
  <2> QED
    BY <2>2
<1>7. p + 1 \in 1..(Len(q) + 1)
  BY <1>1
<1> QED
  BY <1>4, <1>5, <1>6, <1>7 DEF InOrder

(* A packet is sent: its units come last.                                     *)
LEMMA PacketSent ==
  ASSUME NEW q \in Seq(Packet), NEW w, NEW p, InOrder(q, w, p), NEW u \in Packet,
         NEW v \in Seq(Bytes), Len(v) = Len(w) + (2 + u.body),
         \A i \in 1..Len(v) : v[i] = IF i <= Len(w) THEN w[i] ELSE <<Len(q) + 1, i - Len(w)>>
  PROVE  InOrder(Append(q, u), v, p)
<1> DEFINE L == Len(q)
           N == Len(w)
           Q == Append(q, u)
           m == 2 + u.body
<1>1. w \in Seq(Bytes) /\ p \in 1..(L + 1) /\ L \in Nat /\ N \in Nat /\ m \in {2, 3}
  <2>1. u.body \in 0..1
    BY DEF Packet
  <2> QED
    BY <2>1 DEF InOrder
<1>2. Q \in Seq(Packet) /\ Len(Q) = L + 1 /\ Q[L + 1] = u /\ \A x \in 1..L : Q[x] = q[x]
  OBVIOUS
<1>3. Size(Q, L + 1) = m /\ \A x \in 1..L : Size(Q, x) = Size(q, x)
  BY <1>2 DEF Size
<1>4. \A i \in 1..N : w[i][1] \in p..L /\ w[i][2] \in 1..Size(q, w[i][1])
  BY DEF InOrder
<1>5. \A x \in p..L : x \in 1..L
  BY <1>1
<1> HIDE DEF Q, m, L, N
<1>6. Len(v) = N + m /\ \A i \in 1..(N + m) : v[i] = IF i <= N THEN w[i] ELSE <<L + 1, i - N>>
  BY DEF N, m, L
<1>7. ASSUME NEW i \in 1..(N + m)
      PROVE  v[i][1] \in p..(L + 1) /\ v[i][2] \in 1..Size(Q, v[i][1])
  <2>1. CASE i <= N
    <3>1. i \in 1..N /\ v[i] = w[i]
      BY <1>1, <1>6, <2>1
    <3>2. w[i][1] \in p..L /\ w[i][2] \in 1..Size(q, w[i][1])
      BY <1>4, <3>1
    <3>3. w[i][1] \in p..(L + 1) /\ Size(Q, w[i][1]) = Size(q, w[i][1])
      BY <1>1, <1>3, <1>5, <3>2
    <3> QED
      BY <3>1, <3>2, <3>3
  <2>2. CASE ~(i <= N)
    <3>1. v[i] = <<L + 1, i - N>> /\ i - N \in 1..m
      BY <1>1, <1>6, <2>2
    <3>2. v[i][1] = L + 1 /\ v[i][2] = i - N /\ L + 1 \in p..(L + 1)
      BY <1>1, <3>1
    <3> QED
      BY <1>3, <3>1, <3>2
  <2> QED
    BY <2>1, <2>2
<1>8. ASSUME NEW x \in p..(L + 1), NEW k \in 1..Size(Q, x)
      PROVE  \E i \in 1..(N + m) : v[i] = <<x, k>>
  <2>1. CASE x # L + 1
    <3>1. x \in p..L /\ Size(Q, x) = Size(q, x)
      BY <1>1, <1>3, <2>1
    <3>2. PICK i \in 1..N : w[i] = <<x, k>>
      BY <3>1 DEF InOrder, L, N
    <3>3. i <= N /\ i \in 1..(N + m)
      BY <1>1
    <3> QED
      BY <1>6, <3>2, <3>3
  <2>2. CASE x = L + 1
    <3>1. k \in 1..m
      BY <1>3, <2>2
    <3>2. N + k \in 1..(N + m) /\ ~(N + k <= N) /\ (N + k) - N = k
      BY <1>1, <3>1
    <3>3. v[N + k] = <<x, k>>
      BY <1>6, <2>2, <3>2
    <3> QED
      BY <3>2, <3>3
  <2> QED
    BY <2>1, <2>2
<1>9. ASSUME NEW i \in 1..(N + m), NEW j \in 1..(N + m), i < j
      PROVE  Earlier(v[i], v[j])
  <2>1. CASE j <= N
    <3>1. i \in 1..N /\ j \in 1..N /\ i <= N
      BY <1>1, <1>9, <2>1
    <3>2. v[i] = w[i] /\ v[j] = w[j]
      BY <1>6, <2>1, <3>1
    <3>3. Earlier(w[i], w[j])
      BY <1>9, <3>1 DEF InOrder, N
    <3> QED
      BY <3>2, <3>3
  <2>2. CASE i <= N /\ ~(j <= N)
    <3>1. i \in 1..N /\ v[i] = w[i] /\ v[j] = <<L + 1, j - N>>
      BY <1>1, <1>6, <2>2
    <3>2. w[i][1] \in p..L
      BY <1>4, <3>1
    <3>3. v[i][1] < v[j][1]
      BY <1>1, <3>1, <3>2
    <3> QED
      BY <3>3 DEF Earlier
  <2>3. CASE ~(i <= N)
    <3>1. ~(j <= N)
      BY <1>1, <1>9, <2>3
    <3>2. v[i] = <<L + 1, i - N>> /\ v[j] = <<L + 1, j - N>>
      BY <1>6, <2>3, <3>1
    <3>3. i - N < j - N
      BY <1>1, <1>9
    <3> QED
      BY <3>2, <3>3 DEF Earlier
  <2> QED
    BY <2>1, <2>2, <2>3
<1>10. p \in 1..((L + 1) + 1)
  BY <1>1
<1>11. Len(Q) = L + 1
  BY <1>2
<1>12. InOrder(Q, v, p)
  BY <1>6, <1>7, <1>8, <1>9, <1>10, <1>11 DEF InOrder
<1> QED
  BY <1>12 DEF Q

(* The server, with b in its buffer, is at the first packet p that has not    *)
(* come whole.                                                                *)
Waits(q, b, p) ==
  Len(b) < 2 \/ (p \in 1..Len(q) /\ Len(b) < Size(q, p))

LEMMA WaitsForTheFirst ==
  ASSUME NEW q \in Seq(Packet), NEW b \in Seq(Bytes), NEW r \in Seq(Bytes), NEW p,
         InOrder(q, b \o r, p), Waits(q, b, p), NEW x \in 1..Len(q)
  PROVE  (\A i \in DOMAIN r : r[i][1] # x) <=> x < p
<1> DEFINE w == b \o r
           N == Len(b)
           M == Len(r)
<1>1. N \in Nat /\ M \in Nat /\ DOMAIN r = 1..M /\ Len(q) \in Nat /\ x \in Nat
  OBVIOUS
<1>2. /\ w \in Seq(Bytes) /\ Len(w) = N + M
      /\ \A i \in 1..M : N + i \in 1..(N + M) /\ w[N + i] = r[i]
  OBVIOUS
<1>3. p \in 1..(Len(q) + 1)
  BY DEF InOrder
<1> HIDE DEF w
<1>4. InOrder(q, w, p)
  BY DEF w
<1>5. ASSUME x < p, NEW i \in 1..M PROVE r[i][1] # x
  <2>1. w[N + i][1] \in p..Len(q)
    BY <1>2, <1>4 DEF InOrder
  <2> QED
    BY <1>1, <1>2, <1>3, <1>5, <2>1
<1>6. ASSUME ~(x < p) PROVE \E i \in 1..M : r[i][1] = x
  <2>1. x \in p..Len(q) /\ Size(q, x) \in {2, 3}
    BY <1>1, <1>3, <1>6, Sizes
  <2>2. \A k \in 1..Size(q, x) : \E i \in 1..(N + M) : w[i] = <<x, k>>
    BY <1>2, <1>4, <2>1 DEF InOrder
  <2>3. 1 \in 1..Size(q, x) /\ 2 \in 1..Size(q, x)
    BY <2>1
  <2>4. Len(w) # 0
    BY <1>1, <1>2, <2>2, <2>3
  <2>5. /\ p \in 1..Len(q) /\ Len(w) >= 2 /\ w[1] = <<p, 1>> /\ w[2] = <<p, 2>>
    BY <1>4, <2>4, StartsWithHeader
  <2>6. ASSUME NEW j \in 1..(N + M), w[j][1] = x, j > N PROVE \E i \in 1..M : r[i][1] = x
    <3>1. j - N \in 1..M /\ N + (j - N) = j
      BY <1>1, <2>6
    <3> QED
      BY <1>2, <2>6, <3>1
  <2>7. CASE N < 2
    <3>1. PICK j \in 1..(N + M) : w[j] = <<x, 2>>
      BY <2>2, <2>3
    <3>2. j # 1 /\ w[j][1] = x
      BY <2>5, <3>1
    <3>3. j > N
      BY <1>1, <2>7, <3>2
    <3> QED
      BY <2>6, <3>2, <3>3
  <2>8. CASE ~(N < 2)
    <3>1. Size(q, p) \in {2, 3} /\ N < Size(q, p)
      BY <2>5, <2>8, Sizes DEF Waits
    <3>2. Size(q, p) = 3 /\ N = 2
      <4>1. N \in Nat /\ N >= 2
        BY <1>1, <2>8
      <4> HIDE DEF N
      <4>2. \A z \in {2, 3} : N < z => z = 3 /\ N = 2
        BY <4>1
      <4> QED
        BY <3>1, <4>2
    <3>3. CASE x = p
      <4>1. 3 \in 1..Size(q, x)
        BY <3>2, <3>3
      <4>2. PICK j \in 1..(N + M) : w[j] = <<x, 3>>
        BY <2>2, <4>1
      <4>3. j # 1 /\ j # 2 /\ w[j][1] = x
        BY <2>5, <4>2
      <4>4. j > N
        BY <1>1, <3>2, <4>3
      <4> QED
        BY <2>6, <4>3, <4>4
    <3>4. CASE x # p
      <4>1. PICK j \in 1..(N + M) : w[j] = <<x, 1>>
        BY <2>2, <2>3
      <4>2. j # 1 /\ j # 2 /\ w[j][1] = x
        BY <2>5, <3>4, <4>1
      <4>3. j > N
        BY <1>1, <3>2, <4>2
      <4> QED
        BY <2>6, <4>2, <4>3
    <3> QED
      BY <3>3, <3>4
  <2> QED
    BY <2>7, <2>8
<1> QED
  BY <1>1, <1>5, <1>6

(* The heartbeats of n before packet p.                                       *)
Beaten(q, n, p) == {x \in 1..(p - 1) : q[x].beat /\ q[x].node = n}

LEMMA BeatenCount ==
  ASSUME NEW q, NEW n, NEW p \in Nat \ {0}
  PROVE  /\ IsFiniteSet(Beaten(q, n, p)) /\ Cardinality(Beaten(q, n, p)) \in Nat
         /\ q[p].beat = TRUE =>
              Cardinality(Beaten(q, n, p + 1)) =
                IF q[p].node = n THEN Cardinality(Beaten(q, n, p)) + 1
                ELSE Cardinality(Beaten(q, n, p))
<1> DEFINE S == Beaten(q, n, p)
<1>1. S \in SUBSET (1..(p - 1)) /\ p \notin S
  BY DEF Beaten
<1>2. IsFiniteSet(1..(p - 1))
  BY FS_Interval
<1>3. IsFiniteSet(S) /\ Cardinality(S) \in Nat
  BY <1>1, <1>2, FS_Subset, FS_CardinalityType
<1>4. \A x \in 1..((p + 1) - 1) : x \in 1..(p - 1) \/ x = p
  OBVIOUS
<1>5. p \in 1..((p + 1) - 1) /\ \A x \in 1..(p - 1) : x \in 1..((p + 1) - 1)
  OBVIOUS
<1>6. ASSUME q[p].beat = TRUE, q[p].node = n PROVE Beaten(q, n, p + 1) = S \cup {p}
  BY <1>4, <1>5, <1>6 DEF Beaten
<1>7. ASSUME q[p].node # n PROVE Beaten(q, n, p + 1) = S
  BY <1>4, <1>5, <1>7 DEF Beaten
<1> HIDE DEF S
<1>8. Cardinality(S \cup {p}) = Cardinality(S) + 1
  BY <1>1, <1>3, FS_AddElement
<1> QED
  BY <1>3, <1>6, <1>7, <1>8 DEF S

-----------------------------------------------------------------------------
(* The inner loop, with r still on the wire: s has been counting right so     *)
(* far, and k turns have been made of n at most.                              *)
Counts(q, p) == [n \in Nodes |-> Cardinality(Beaten(q, n, p))]
Good(q, r, s) ==
  /\ s.buffer \in Seq(Bytes) /\ s.ghosts = 0
  /\ \E p : /\ InOrder(q, s.buffer \o r, p) /\ s.beats = Counts(q, p)
            /\ s.done = TRUE => p \in 1..Len(q) /\ Len(s.buffer) < Size(q, p)
Stream == (1..Len(sent)) \X (1..3)
TurnState(s) ==
  /\ DOMAIN s = {"buffer", "beats", "ghosts", "lost", "done"}
  /\ s.buffer \in Seq(Stream) /\ s.lost \in BOOLEAN /\ s.done \in BOOLEAN
HeadersOnly == \A x \in 1..Len(sent) : sent[x].beat => sent[x].body = 0
Turning(q, r, s, n, k) ==
  /\ TurnState(s)
  /\ HeadersOnly /\ s.lost = FALSE =>
       Good(q, r, s) /\ (s.done = TRUE \/ Len(s.buffer) < 2 \/ Len(s.buffer) + 2 * k <= n)

(* A slice behind the first two.                                              *)
LEMMA SliceOf ==
  ASSUME NEW b \in Seq(Bytes), Len(b) >= 2
  PROVE  /\ SubSeq(b, 3, Len(b)) \in Seq(Bytes) /\ Len(SubSeq(b, 3, Len(b))) = Len(b) - 2
         /\ \A i \in 1..(Len(b) - 2) : SubSeq(b, 3, Len(b))[i] = b[i + 2]
<1> DEFINE N == Len(b)
<1>1. N \in Nat /\ 3 \in 1..(N + 1) /\ N \in (3 - 1)..N
  OBVIOUS
<1>2. /\ SubSeq(b, 3, N) \in Seq(Bytes)
      /\ Len(SubSeq(b, 3, N)) = IF 3 <= N THEN N - 3 + 1 ELSE 0
      /\ \A i \in 1..N - 3 + 1 : SubSeq(b, 3, N)[i] = b[3 + i - 1]
  BY <1>1, SubSeqProperties
<1> HIDE DEF N
<1>3. N - 3 + 1 = N - 2 /\ (~(3 <= N) => N - 2 = 0) /\ \A i \in 1..(N - 2) : 3 + i - 1 = i + 2
  BY <1>1
<1> QED
  BY <1>2, <1>3 DEF N

LEMMA SliceBehind ==
  ASSUME NEW b \in Seq(Bytes), NEW r \in Seq(Bytes), Len(b) >= 2,
         NEW c \in Seq(Bytes), Len(c) = Len(b) - 2, \A i \in 1..(Len(b) - 2) : c[i] = b[i + 2]
  PROVE  /\ c \o r \in Seq(Bytes) /\ Len(c \o r) = Len(b \o r) - 2
         /\ \A i \in 1..Len(c \o r) : (c \o r)[i] = (b \o r)[i + 2]
<1>1. Len(b) \in Nat /\ Len(r) \in Nat
  OBVIOUS
<1>2. \A i \in 1..Len(c) : c[i] = b[i + 2]
  OBVIOUS
<1>3. /\ c \o r \in Seq(Bytes) /\ Len(c \o r) = Len(c) + Len(r) /\ Len(b \o r) = Len(b) + Len(r)
  <2>1. \A u, v \in Seq(Bytes) : u \o v \in Seq(Bytes) /\ Len(u \o v) = Len(u) + Len(v)
    BY ConcatProperties
  <2> QED
    BY <2>1
<1>4. Len(c \o r) = Len(b \o r) - 2
  BY <1>1, <1>3
<1>5. ASSUME NEW i \in 1..Len(c \o r) PROVE (c \o r)[i] = (b \o r)[i + 2]
  <2>1. (c \o r)[i] = IF i <= Len(c) THEN c[i] ELSE r[i - Len(c)]
    BY <1>3, <1>5
  <2>2. i + 2 \in 1..(Len(b) + Len(r)) /\ i \in Nat
    BY <1>1, <1>3
  <2>3. (b \o r)[i + 2] = IF i + 2 <= Len(b) THEN b[i + 2] ELSE r[(i + 2) - Len(b)]
    BY <2>2
  <2>4. CASE i <= Len(c)
    <3>1. i \in 1..Len(c) /\ i + 2 <= Len(b)
      BY <1>1, <2>2, <2>4
    <3> QED
      BY <1>2, <2>1, <2>3, <2>4, <3>1
  <2>5. CASE ~(i <= Len(c))
    <3>1. ~(i + 2 <= Len(b)) /\ (i + 2) - Len(b) = i - Len(c)
      BY <1>1, <2>2, <2>5
    <3> QED
      BY <2>1, <2>3, <2>5, <3>1
  <2> QED
    BY <2>4, <2>5
<1> QED
  BY <1>3, <1>4, <1>5

LEMMA TurnIsState ==
  ASSUME sent \in Seq(Packet), NEW s, TurnState(s), NEW t \in Swarm!Turn(s)
  PROVE  TurnState(t) /\ (s.lost = TRUE => t.lost = TRUE)
<1> DEFINE b == s.buffer
           Cut(m) == SubSeq(b, m, Len(b))
<1>1. b \in Seq(Stream) /\ Len(b) \in Nat
  BY LenProperties DEF TurnState
<1>2. ASSUME NEW m \in Nat \ {0} PROVE Cut(m) \in Seq(Stream)
  <2>1. \A i \in m..Len(b) : b[i] \in Stream
    BY <1>1, ElementOfSeq
  <2> HIDE DEF b
  <2> QED
    BY <1>1, <2>1, SubSeqProperties
<1>3. \/ t = s
      \/ t = [s EXCEPT !.done = TRUE]
      \/ \E m \in Nat \ {0} : t = [s EXCEPT !.ghosts = @ + 1, !.buffer = Cut(m)]
      \/ \E n, m : m \in Nat \ {0} /\ t = [s EXCEPT !.beats[n] = @ + 1, !.buffer = Cut(m)]
      \/ t = [s EXCEPT !.buffer = <<>>, !.lost = TRUE, !.done = TRUE]
  <2>1. CASE s.done = TRUE \/ Len(b) < 2
    BY <2>1 DEF Swarm!Turn, Swarm!Header
  <2>2. CASE ~(s.done = TRUE \/ Len(b) < 2)
    <3>1. b[1] \in Stream
      BY <1>1, <2>2, ElementOfSeq
    <3> DEFINE p == b[1][1]
               m == 1 + Swarm!Length(p)
    <3>2. p \in 1..Len(sent)
      BY <3>1 DEF Stream
    <3>3. m \in Nat \ {0}
      <4>1. Size(sent, p) \in {2, 3}
        BY <3>2, Sizes
      <4> QED
        BY <4>1 DEF Swarm!Length, Swarm!Header, Size
    <3>4. ~(s.done \/ Len(s.buffer) < Swarm!Header)
      BY <2>2 DEF TurnState, Swarm!Header
    <3>5. \/ t \in Swarm!Misread(s) \/ t = Swarm!Beat(s) \/ t = Swarm!Data(s)
      BY <3>4 DEF Swarm!Turn
    <3>6. CASE t \in Swarm!Misread(s)
      <4>1. \A k \in (1 + Swarm!Header)..(Len(b) + 1) : k \in Nat \ {0}
        BY <1>1 DEF Swarm!Header
      <4> QED
        BY <3>6, <4>1 DEF Swarm!Misread
    <3>7. CASE t = Swarm!Beat(s)
      <4>1. t = [s EXCEPT !.beats[sent[p].node] = @ + 1, !.buffer = Cut(m)]
        BY <3>7 DEF Swarm!Beat
      <4> QED
        BY <3>3, <4>1
    <3>8. CASE t = Swarm!Data(s)
      BY <3>8 DEF Swarm!Data
    <3> QED
      BY <3>5, <3>6, <3>7, <3>8
  <2> QED
    BY <2>1, <2>2
<1>4. <<>> \in Seq(Stream)
  OBVIOUS
<1> HIDE DEF Cut, b
<1>5. CASE t = s
  BY <1>5
<1>6. CASE t = [s EXCEPT !.done = TRUE]
  BY <1>6 DEF TurnState
<1>7. CASE \E m \in Nat \ {0} : t = [s EXCEPT !.ghosts = @ + 1, !.buffer = Cut(m)]
  BY <1>2, <1>7 DEF TurnState
<1>8. CASE \E n, m : m \in Nat \ {0} /\ t = [s EXCEPT !.beats[n] = @ + 1, !.buffer = Cut(m)]
  BY <1>2, <1>8 DEF TurnState
<1>9. CASE t = [s EXCEPT !.buffer = <<>>, !.lost = TRUE, !.done = TRUE]
  BY <1>4, <1>9 DEF TurnState
<1> QED
  BY <1>3, <1>5, <1>6, <1>7, <1>8, <1>9

(* A turn on a buffer that starts with the header of p.                       *)
LEMMA TurnAtHeader ==
  ASSUME sent \in Seq(Packet), NEW s, TurnState(s), s.lost = FALSE, s.done = FALSE,
         s.buffer \in Seq(Bytes), ~(Len(s.buffer) < 2), NEW p \in 1..Len(sent),
         s.buffer[1] = <<p, 1>>, NEW t \in Swarm!Turn(s)
  PROVE  IF sent[p].beat THEN t = Swarm!Beat(s) ELSE t = Swarm!Data(s)
<1>1. s.buffer[1][1] = p /\ s.buffer[1][2] = 1
  OBVIOUS
<1>2. ~(s.done \/ Len(s.buffer) < Swarm!Header)
  BY DEF Swarm!Header
<1>3. Swarm!Turn(s) = IF sent[p].beat THEN {Swarm!Beat(s)} ELSE {Swarm!Data(s)}
  BY <1>1, <1>2 DEF Swarm!Turn
<1> QED
  BY <1>3

AtBeat(s, r, p) ==
  /\ TurnState(s) /\ s.buffer \in Seq(Bytes) /\ Len(s.buffer) >= 2 /\ s.beats = Counts(sent, p)
  /\ s.buffer[1] = <<p, 1>> /\ sent[p].beat = TRUE /\ sent[p].body = 0
  /\ InOrder(sent, s.buffer \o r, p)
BeatGone(s, t, r, p) ==
  /\ t.buffer \in Seq(Bytes) /\ Len(t.buffer) = Len(s.buffer) - 2
  /\ t.ghosts = s.ghosts /\ t.done = s.done
  /\ InOrder(sent, t.buffer \o r, p + 1) /\ t.beats = Counts(sent, p + 1)

LEMMA BeatTaken ==
  ASSUME sent \in Seq(Packet), NEW r \in Seq(Bytes), NEW s, NEW p \in 1..Len(sent),
         AtBeat(s, r, p)
  PROVE  BeatGone(s, Swarm!Beat(s), r, p)
<1> DEFINE t == Swarm!Beat(s)
<1>0. /\ TurnState(s) /\ s.buffer \in Seq(Bytes) /\ Len(s.buffer) >= 2 /\ s.beats = Counts(sent, p)
      /\ s.buffer[1] = <<p, 1>> /\ sent[p].beat = TRUE /\ sent[p].body = 0
      /\ InOrder(sent, s.buffer \o r, p)
  BY DEF AtBeat
<1> DEFINE c == SubSeq(s.buffer, 3, Len(s.buffer))
           m == sent[p].node
<1>1. Swarm!Length(p) = 2 /\ 1 + 2 = 3
  BY <1>0 DEF Swarm!Length, Swarm!Header
<1>2. t = [s EXCEPT !.beats[m] = @ + 1, !.buffer = SubSeq(@, 3, Len(@))]
  <2>1. s.buffer[1][1] = p
    BY <1>0
  <2> QED
    BY <1>1, <2>1 DEF Swarm!Beat
<1>3. t.buffer = c /\ t.ghosts = s.ghosts /\ t.done = s.done /\ t.beats = [s.beats EXCEPT ![m] = @ + 1]
  BY <1>0, <1>2 DEF TurnState
<1>4. c \in Seq(Bytes) /\ Len(c) = Len(s.buffer) - 2 /\ \A i \in 1..(Len(s.buffer) - 2) : c[i] = s.buffer[i + 2]
  BY <1>0, SliceOf
<1> HIDE DEF c, t
<1>5. /\ c \o r \in Seq(Bytes) /\ Len(c \o r) = Len(s.buffer \o r) - 2
      /\ \A i \in 1..Len(c \o r) : (c \o r)[i] = (s.buffer \o r)[i + 2]
  BY <1>0, <1>4, SliceBehind
<1>6. Len(s.buffer \o r) # 0
  <2>1. Len(s.buffer \o r) \in Nat /\ Len(c \o r) \in Nat
    BY <1>5
  <2> QED
    BY <1>5, <2>1
<1>7. InOrder(sent, c \o r, p + 1)
  BY <1>0, <1>5, <1>6, HeaderTaken
<1>8. p \in Nat \ {0}
  OBVIOUS
<1>9. m \in Nodes
  BY Sizes
<1> DEFINE d == s.beats
<1>10. t.beats = Counts(sent, p + 1)
  <2>1. d = [n \in Nodes |-> Cardinality(Beaten(sent, n, p))]
    BY <1>0 DEF Counts
  <2>2. t.beats = [d EXCEPT ![m] = d[m] + 1]
    BY <1>3
  <2> HIDE DEF m, d, t
  <2>3. t.beats = [n \in Nodes |-> IF n = m THEN d[n] + 1 ELSE d[n]]
    BY <1>9, <2>1, <2>2
  <2>4. \A n \in Nodes : Cardinality(Beaten(sent, n, p + 1)) = IF n = m THEN d[n] + 1 ELSE d[n]
    <3> SUFFICES ASSUME NEW n \in Nodes
                 PROVE  Cardinality(Beaten(sent, n, p + 1)) = IF n = m THEN d[n] + 1 ELSE d[n]
      OBVIOUS
    <3>1. Cardinality(Beaten(sent, n, p + 1)) =
            IF sent[p].node = n THEN Cardinality(Beaten(sent, n, p)) + 1 ELSE Cardinality(Beaten(sent, n, p))
      <4>1. sent[p].beat = TRUE => Cardinality(Beaten(sent, n, p + 1)) =
              IF sent[p].node = n THEN Cardinality(Beaten(sent, n, p)) + 1 ELSE Cardinality(Beaten(sent, n, p))
        BY <1>8, BeatenCount, Zenon
      <4>2. sent[p].beat = TRUE
        BY <1>0
      <4> QED
        BY <4>1, <4>2, Zenon
    <3>2. d[n] = Cardinality(Beaten(sent, n, p))
      BY <2>1
    <3> QED
      BY <3>1, <3>2 DEF m
  <2> QED
    BY <2>3, <2>4 DEF Counts
<1>11. BeatGone(s, t, r, p)
  BY <1>0, <1>3, <1>4, <1>7, <1>10 DEF BeatGone
<1> QED
  BY <1>11 DEF t

LEMMA TurnKeeps ==
  ASSUME sent \in Seq(Packet), NEW r \in Seq(Bytes), NEW s, NEW n \in Nat, NEW k \in Nat,
         Turning(sent, r, s, n, k), NEW t \in Swarm!Turn(s)
  PROVE  Turning(sent, r, t, n, k + 1)
<1>1. TurnState(s) /\ TurnState(t) /\ (s.lost = TRUE => t.lost = TRUE)
  BY TurnIsState DEF Turning
<1> SUFFICES ASSUME HeadersOnly, t.lost = FALSE
             PROVE  Good(sent, r, t) /\ (t.done = TRUE \/ Len(t.buffer) < 2 \/ Len(t.buffer) + 2 * (k + 1) <= n)
  BY <1>1 DEF Turning
<1>2. /\ s.lost = FALSE /\ Good(sent, r, s) /\ s.done \in BOOLEAN
      /\ (s.done = TRUE \/ Len(s.buffer) < 2 \/ Len(s.buffer) + 2 * k <= n)
  BY <1>1 DEF Turning, TurnState
<1>3. CASE s.done = TRUE \/ Len(s.buffer) < 2
  <2>1. t = s
    BY <1>3 DEF Swarm!Turn, Swarm!Header
  <2> QED
    BY <1>2, <1>3, <2>1
<1>4. CASE ~(s.done = TRUE \/ Len(s.buffer) < 2)
  <2>1. s.buffer \in Seq(Bytes) /\ s.ghosts = 0
    BY <1>2 DEF Good
  <2>2. PICK p : InOrder(sent, s.buffer \o r, p) /\ s.beats = Counts(sent, p)
    BY <1>2 DEF Good
  <2>3. /\ Len(s.buffer) \in Nat /\ Len(s.buffer) >= 2 /\ Len(s.buffer \o r) # 0
        /\ (s.buffer \o r)[1] = s.buffer[1]
    BY <1>4, <2>1
  <2>4. p \in 1..Len(sent) /\ s.buffer[1] = <<p, 1>>
    BY <2>2, <2>3, StartsWithHeader
  <2>5. IF sent[p].beat THEN t = Swarm!Beat(s) ELSE t = Swarm!Data(s)
    BY <1>1, <1>2, <1>4, <2>1, <2>4, TurnAtHeader
  <2>6. sent[p].beat \in BOOLEAN
    BY <2>4, Sizes
  <2>7. CASE sent[p].beat = TRUE
    <3>1. sent[p].body = 0 /\ t = Swarm!Beat(s)
      BY <2>4, <2>5, <2>7 DEF HeadersOnly
    <3>2. /\ t.buffer \in Seq(Bytes) /\ Len(t.buffer) = Len(s.buffer) - 2
          /\ t.ghosts = s.ghosts /\ t.done = s.done
          /\ InOrder(sent, t.buffer \o r, p + 1) /\ t.beats = Counts(sent, p + 1)
      <4>1. AtBeat(s, r, p)
        BY <1>1, <2>1, <2>2, <2>3, <2>4, <2>7, <3>1 DEF AtBeat
      <4>2. BeatGone(s, t, r, p)
        BY <2>4, <3>1, <4>1, BeatTaken
      <4> QED
        BY <4>2 DEF BeatGone
    <3>3. Good(sent, r, t)
      BY <1>4, <2>1, <3>2 DEF Good
    <3>4. Len(t.buffer) + 2 * (k + 1) <= n
      <4>1. \A a, b \in Nat : a + 2 * k <= n /\ b = a - 2 => b + 2 * (k + 1) <= n
        OBVIOUS
      <4>2. Len(s.buffer) + 2 * k <= n
        BY <1>2, <1>4, Zenon
      <4>3. Len(t.buffer) \in Nat
        BY <3>2, LenProperties
      <4> QED
        BY <2>3, <3>2, <4>1, <4>2, <4>3
    <3> QED
      BY <3>3, <3>4
  <2>8. CASE sent[p].beat = FALSE
    <3>1. t = Swarm!Data(s)
      BY <2>5, <2>8
    <3>2. s.buffer[1][1] = p /\ Swarm!Length(p) = Size(sent, p)
      BY <2>4 DEF Swarm!Length, Size, Swarm!Header
    <3>3. CASE Len(s.buffer) < Size(sent, p)
      <4>1. t = [s EXCEPT !.done = TRUE]
        BY <3>1, <3>2, <3>3 DEF Swarm!Data
      <4>2. t.buffer = s.buffer /\ t.ghosts = s.ghosts /\ t.beats = s.beats /\ t.done = TRUE
        BY <1>1, <4>1 DEF TurnState
      <4> QED
        BY <2>1, <2>2, <2>4, <3>3, <4>2 DEF Good
    <3>4. CASE ~(Len(s.buffer) < Size(sent, p))
      <4>1. t = [s EXCEPT !.buffer = <<>>, !.lost = TRUE, !.done = TRUE]
        BY <3>1, <3>2, <3>4 DEF Swarm!Data
      <4>2. t.lost = TRUE
        BY <1>1, <4>1 DEF TurnState
      <4> QED
        BY <4>2
    <3> QED
      BY <3>3, <3>4
  <2> QED
    BY <2>6, <2>7, <2>8
<1> QED
  BY <1>3, <1>4

(* The sets of what s may be after each of n turns are there.                 *)
Turned(Y) == UNION {Swarm!Turn(t) : t \in Y}
TurnsTo(f, n, s) == f = [k \in 0..n |-> IF k = 0 THEN {s} ELSE Turned(f[k - 1])]

LEMMA TurnsAreThere ==
  ASSUME NEW s, NEW n \in Nat
  PROVE  \E f : TurnsTo(f, n, s)
<1> DEFINE S == {i \in Nat : ~\E f : TurnsTo(f, i, s)}
<1> SUFFICES ASSUME S # {} PROVE FALSE
  OBVIOUS
<1>1. PICK i \in S : \A y \in S : i <= y
  <2>1. S \subseteq Nat
    OBVIOUS
  <2> HIDE DEF S
  <2> QED
    BY <2>1, LeastNumber
<1>2. CASE i = 0
  <2> DEFINE g == [k \in 0..0 |-> {s}]
  <2>1. \A k \in 0..0 : k = 0
    OBVIOUS
  <2>2. TurnsTo(g, 0, s)
    BY <2>1 DEF TurnsTo
  <2> QED
    BY <1>1, <1>2, <2>2
<1>3. CASE i # 0
  <2>1. i - 1 \in Nat /\ i - 1 < i /\ i \in Nat
    BY <1>1, <1>3
  <2>2. PICK f : TurnsTo(f, i - 1, s)
    BY <1>1, <2>1
  <2> DEFINE H(h, k) == IF k = 0 THEN {s} ELSE Turned(h[k - 1])
             g == [k \in 0..i |-> IF k = i THEN Turned(f[i - 1]) ELSE f[k]]
  <2>3. f = [k \in 0..(i - 1) |-> H(f, k)]
    BY <2>2 DEF TurnsTo
  <2>4. ASSUME NEW k \in 0..i PROVE g[k] = H(g, k)
    <3>1. CASE k = i
      <4>1. g[i - 1] = f[i - 1] /\ i # 0 /\ g[k] = Turned(f[i - 1])
        BY <1>3, <2>1, <3>1
      <4> QED
        BY <3>1, <4>1
    <3>2. CASE k # i /\ k # 0
      <4>1. k \in 0..(i - 1) /\ k - 1 \in 0..i /\ k - 1 # i
        BY <2>1, <3>2
      <4>2. g[k] = f[k] /\ g[k - 1] = f[k - 1]
        BY <3>2, <4>1
      <4> HIDE DEF g
      <4>3. f[k] = Turned(f[k - 1])
        BY <2>3, <3>2, <4>1
      <4> QED
        BY <3>2, <4>2, <4>3
    <3>3. CASE k # i /\ k = 0
      <4>1. k \in 0..(i - 1)
        BY <2>1, <3>3
      <4>2. g[k] = f[k] /\ f[k] = {s}
        BY <2>3, <3>3, <4>1
      <4> QED
        BY <3>3, <4>2
    <3> QED
      BY <3>1, <3>2, <3>3
  <2>5. g = [k \in 0..i |-> g[k]]
    OBVIOUS
  <2> HIDE DEF g
  <2>6. \A k \in 0..i : g[k] = H(g, k)
    BY <2>4
  <2> HIDE DEF H
  <2>7. g = [k \in 0..i |-> H(g, k)]
    BY <2>5, <2>6
  <2>8. TurnsTo(g, i, s)
    BY <2>7 DEF TurnsTo, H
  <2> QED
    BY <1>1, <2>8
<1> QED
  BY <1>2, <1>3

(* What the inner loop makes of s.                                            *)
TurnedOut(r, t) == Good(sent, r, t) /\ (t.done = TRUE \/ Len(t.buffer) < 2)

LEMMA HandleTurns ==
  ASSUME sent \in Seq(Packet), NEW r \in Seq(Bytes), NEW s, TurnState(s),
         HeadersOnly /\ s.lost = FALSE => Good(sent, r, s),
         NEW t \in Swarm!Handle(s)
  PROVE  /\ TurnState(t) /\ (s.lost = TRUE => t.lost = TRUE)
         /\ HeadersOnly /\ t.lost = FALSE => TurnedOut(r, t)
<1> DEFINE n == Len(s.buffer)
           F == CHOOSE after : after = [k \in 0..n |->
                  IF k = 0 THEN {s} ELSE UNION {Swarm!Turn(u) : u \in after[k - 1]}]
<1>1. n \in Nat /\ n \in 0..n /\ 0 \in 0..n
  <2>1. n \in Nat
    BY LenProperties DEF TurnState
  <2> HIDE DEF n
  <2> QED
    BY <2>1
<1>2. t \in F[n]
  BY DEF Swarm!Handle
<1>3. Turning(sent, r, s, n, 0)
  <2>1. n + 2 * 0 <= n
    BY <1>1
  <2> HIDE DEF n
  <2>2. Len(s.buffer) + 2 * 0 <= n
    BY <2>1 DEF n
  <2> QED
    BY <2>2 DEF Turning
<1> HIDE DEF n, F
<1>4. PICK f : f = [k \in 0..n |-> IF k = 0 THEN {s} ELSE Turned(f[k - 1])]
  BY <1>1, TurnsAreThere DEF TurnsTo
<1>5. f = [k \in 0..n |-> IF k = 0 THEN {s} ELSE UNION {Swarm!Turn(u) : u \in f[k - 1]}]
  BY <1>4 DEF Turned
<1>6. F = [k \in 0..n |-> IF k = 0 THEN {s} ELSE UNION {Swarm!Turn(u) : u \in F[k - 1]}]
  BY <1>5, Zenon DEF F
<1>7. F[0] = {s} /\ \A k \in 0..n : k # 0 => F[k] = UNION {Swarm!Turn(u) : u \in F[k - 1]}
  BY <1>1, <1>6
<1> DEFINE Fine(k) == \A u \in F[k] : Turning(sent, r, u, n, k) /\ (s.lost = TRUE => u.lost = TRUE)
           S == {k \in 0..n : ~Fine(k)}
<1>8. S = {}
  <2> SUFFICES ASSUME S # {} PROVE FALSE
    OBVIOUS
  <2>1. PICK k \in S : \A y \in S : k <= y
    <3>1. S \subseteq Nat
      OBVIOUS
    <3> HIDE DEF S
    <3> QED
      BY <3>1, LeastNumber
  <2>2. k # 0
    BY <1>3, <1>7, <2>1
  <2>3. k - 1 \in 0..n /\ k - 1 \in Nat /\ ~(k <= k - 1) /\ (k - 1) + 1 = k /\ k \in 0..n
    BY <1>1, <2>1, <2>2
  <2>4. Fine(k - 1)
    BY <2>1, <2>3
  <2>5. ASSUME NEW u \in F[k] PROVE Turning(sent, r, u, n, k) /\ (s.lost = TRUE => u.lost = TRUE)
    <3>1. PICK v \in F[k - 1] : u \in Swarm!Turn(v)
      BY <1>7, <2>2, <2>3
    <3>2. Turning(sent, r, v, n, k - 1) /\ (s.lost = TRUE => v.lost = TRUE)
      BY <2>4
    <3>3. Turning(sent, r, u, n, (k - 1) + 1)
      BY <1>1, <2>3, <3>1, <3>2, TurnKeeps
    <3>4. v.lost = TRUE => u.lost = TRUE
      BY <3>1, <3>2, TurnIsState DEF Turning
    <3> QED
      BY <2>3, <3>2, <3>3, <3>4
  <2>6. Fine(k)
    BY <2>5
  <2> QED
    BY <2>1, <2>6
<1>9. Turning(sent, r, t, n, n) /\ (s.lost = TRUE => t.lost = TRUE)
  BY <1>1, <1>2, <1>8
<1>10. ASSUME HeadersOnly, t.lost = FALSE PROVE TurnedOut(r, t)
  <2>1. Good(sent, r, t) /\ (t.done = TRUE \/ Len(t.buffer) < 2 \/ Len(t.buffer) + 2 * n <= n)
    BY <1>9, <1>10 DEF Turning
  <2>2. Len(t.buffer) \in Nat
    BY <2>1, LenProperties DEF Good
  <2>3. Len(t.buffer) + 2 * n <= n => Len(t.buffer) < 2
    <3>1. \A a \in Nat : a + 2 * n <= n => a < 2
      BY <1>1
    <3> QED
      BY <2>2, <3>1
  <2> QED
    BY <2>1, <2>3 DEF TurnedOut
<1> QED
  BY <1>9, <1>10 DEF Turning

-----------------------------------------------------------------------------
(* The invariant: as long as nothing was dropped and heartbeats are headers   *)
(* only, the server stands at the first packet that has not come whole.       *)
Calm == lost = FALSE /\ HeadersOnly
StandsAt(q, b, r, m, p) == InOrder(q, b \o r, p) /\ m = Counts(q, p) /\ Waits(q, b, p)
InStep ==
  /\ buffer \in Seq(Bytes) /\ wire \in Seq(Bytes) /\ ghosts = 0
  /\ \E p : StandsAt(sent, buffer, wire, beats, p)
SwarmInv ==
  /\ sent \in Seq(Packet) /\ buffer \in Seq(Stream) /\ wire \in Seq(Stream) /\ lost \in BOOLEAN
  /\ Calm => InStep

LEMMA SwarmStarts == ASSUME Swarm!SwarmInit PROVE SwarmInv
<1>1. sent = <<>> /\ wire = <<>> /\ buffer = <<>> /\ ghosts = 0 /\ lost = FALSE /\ beats = [n \in Nodes |-> 0]
  BY DEF Swarm!SwarmInit
<1>2. <<>> \in Seq(Packet) /\ <<>> \in Seq(Stream) /\ <<>> \in Seq(Bytes) /\ Len(<<>>) = 0 /\ <<>> \o <<>> = <<>>
  OBVIOUS
<1>3. InOrder(<<>>, <<>> \o <<>>, 1)
  BY <1>2 DEF InOrder
<1>4. beats = Counts(<<>>, 1)
  <2>1. \A n : Beaten(<<>>, n, 1) = {}
    BY DEF Beaten
  <2>2. \A n : Cardinality(Beaten(<<>>, n, 1)) = 0
    BY <2>1, FS_EmptySet
  <2> QED
    BY <1>1, <2>2 DEF Counts
<1>5. StandsAt(sent, buffer, wire, beats, 1)
  BY <1>1, <1>2, <1>3, <1>4 DEF StandsAt, Waits
<1> QED
  BY <1>1, <1>2, <1>5 DEF SwarmInv, InStep

LEMMA CountsStay ==
  ASSUME NEW q \in Seq(Packet), NEW u, NEW p \in 1..(Len(q) + 1)
  PROVE  Counts(Append(q, u), p) = Counts(q, p)
<1>1. Len(q) \in Nat /\ p \in Nat
  OBVIOUS
<1>2. \A x \in 1..(p - 1) : x \in 1..Len(q) /\ Append(q, u)[x] = q[x]
  BY <1>1
<1>3. \A n : Beaten(Append(q, u), n, p) = Beaten(q, n, p)
  BY <1>2 DEF Beaten
<1> QED
  BY <1>3 DEF Counts

LEMMA SendKeeps ==
  ASSUME SwarmInv, NEW a \in Nodes, NEW beat \in BOOLEAN, NEW body \in 0..1,
         Swarm!Send(a, beat, body)
  PROVE  SwarmInv'
<1> DEFINE u == [node |-> a, beat |-> beat, body |-> body]
           U == Swarm!Units(Len(sent) + 1, body)
<1>1. sent \in Seq(Packet) /\ lost \in BOOLEAN /\ Len(sent) \in Nat
  BY DEF SwarmInv
<1>2. u \in Packet /\ u.body = body
  BY DEF Packet
<1>3. /\ sent' = Append(sent, u) /\ wire' = wire \o U
      /\ buffer' = buffer /\ beats' = beats /\ ghosts' = ghosts /\ lost' = lost
  BY DEF Swarm!Send
<1>4. /\ U \in Seq(Bytes) /\ Len(U) = 2 + body
      /\ \A k \in 1..(2 + body) : U[k] = <<Len(sent) + 1, k>>
  <2>1. U = [k \in 1..(2 + body) |-> <<Len(sent) + 1, k>>]
    BY DEF Swarm!Units, Swarm!Header
  <2>2. \A k \in 1..(2 + body) : <<Len(sent) + 1, k>> \in Bytes
    BY <1>1 DEF Bytes
  <2>3. 2 + body \in Nat
    OBVIOUS
  <2> HIDE DEF U
  <2> QED
    BY <2>1, <2>2, <2>3
<1> HIDE DEF u, U
<1>5. sent' \in Seq(Packet)
  BY <1>1, <1>2, <1>3
<1>6. buffer' \in Seq(Stream') /\ wire' \in Seq(Stream')
  <2>1. Stream \subseteq Stream' /\ \A k \in 1..(2 + body) : <<Len(sent) + 1, k>> \in Stream'
    <3>1. Len(sent') = Len(sent) + 1
      BY <1>1, <1>2, <1>3
    <3>2. \A k \in 1..(2 + body) : k \in 1..3
      OBVIOUS
    <3> QED
      BY <1>1, <3>1, <3>2 DEF Stream
  <2>2. buffer \in Seq(Stream') /\ wire \in Seq(Stream')
    BY <2>1, SeqMonotonic DEF SwarmInv
  <2>3. U \in Seq(Stream')
    <3>1. \A k \in 1..Len(U) : U[k] \in Stream'
      BY <1>4, <2>1
    <3> QED
      BY <1>4, <3>1
  <2>4. wire \o U \in Seq(Stream')
    BY <2>2, <2>3, ConcatProperties
  <2> QED
    BY <1>3, <2>2, <2>4
<1>7. ASSUME Calm' PROVE InStep'
  <2>1. Calm
    <3>1. \A x \in 1..Len(sent) : x \in 1..Len(sent') /\ sent'[x] = sent[x]
      BY <1>1, <1>2, <1>3
    <3>2. HeadersOnly' /\ lost' = FALSE
      BY <1>7 DEF Calm
    <3>3. \A x \in 1..Len(sent') : sent'[x].beat => sent'[x].body = 0
      BY <3>2 DEF HeadersOnly
    <3>4. HeadersOnly
      BY <3>1, <3>3 DEF HeadersOnly
    <3> QED
      BY <1>3, <3>2, <3>4 DEF Calm
  <2>2. buffer \in Seq(Bytes) /\ wire \in Seq(Bytes) /\ ghosts = 0
    BY <2>1 DEF SwarmInv, InStep
  <2>3. PICK p : InOrder(sent, buffer \o wire, p) /\ beats = Counts(sent, p) /\ Waits(sent, buffer, p)
    BY <2>1 DEF SwarmInv, InStep, StandsAt
  <2> DEFINE w == buffer \o wire
             v == buffer \o (wire \o U)
  <2>4. wire \o U \in Seq(Bytes) /\ w \in Seq(Bytes)
    BY <1>4, <2>2, ConcatProperties
  <2>5. v = w \o U
    BY <1>4, <2>2, ConcatAssociative
  <2> HIDE DEF w, v
  <2>6. /\ v \in Seq(Bytes) /\ Len(v) = Len(w) + Len(U)
        /\ \A i \in 1..(Len(w) + Len(U)) : v[i] = IF i <= Len(w) THEN w[i] ELSE U[i - Len(w)]
    BY <1>4, <2>4, <2>5, ConcatProperties
  <2>7. \A i \in 1..Len(v) : v[i] = IF i <= Len(w) THEN w[i] ELSE <<Len(sent) + 1, i - Len(w)>>
    <3> SUFFICES ASSUME NEW i \in 1..Len(v)
                 PROVE  v[i] = IF i <= Len(w) THEN w[i] ELSE <<Len(sent) + 1, i - Len(w)>>
      OBVIOUS
    <3>1. Len(w) \in Nat /\ i \in Nat
      BY <2>4
    <3>2. ~(i <= Len(w)) => i - Len(w) \in 1..(2 + body)
      BY <1>4, <2>6, <3>1
    <3> QED
      BY <1>4, <2>6, <3>2
  <2>8. InOrder(sent, w, p)
    BY <2>3 DEF w
  <2>9. Len(v) = Len(w) + (2 + u.body)
    BY <1>2, <1>4, <2>6
  <2>10. InOrder(Append(sent, u), v, p)
    BY <1>1, <1>2, <2>6, <2>7, <2>8, <2>9, PacketSent
  <2>11. p \in 1..(Len(sent) + 1)
    BY <2>8 DEF InOrder
  <2>12. beats = Counts(Append(sent, u), p)
    BY <1>1, <2>3, <2>11, CountsStay
  <2>13. Waits(Append(sent, u), buffer, p)
    <3>1. p \in 1..Len(sent) => p \in 1..Len(Append(sent, u)) /\ Size(Append(sent, u), p) = Size(sent, p)
      BY <1>1, <1>2 DEF Size
    <3> QED
      BY <2>3, <3>1 DEF Waits
  <2>14. StandsAt(sent', buffer', wire', beats', p)
    BY <1>3, <2>10, <2>12, <2>13 DEF StandsAt, v
  <2> QED
    BY <1>3, <2>2, <2>4, <2>14 DEF InStep
<1> QED
  BY <1>1, <1>3, <1>5, <1>6, <1>7 DEF SwarmInv

LEMMA ReadKeeps ==
  ASSUME SwarmInv, NEW n \in 1..Len(wire), Swarm!Read(n)
  PROVE  SwarmInv'
<1> DEFINE a == SubSeq(wire, 1, n)
           r == SubSeq(wire, n + 1, Len(wire))
           s == [buffer |-> buffer \o a, beats |-> beats, ghosts |-> ghosts, lost |-> lost, done |-> FALSE]
<1>1. /\ sent \in Seq(Packet) /\ lost \in BOOLEAN /\ sent' = sent /\ wire' = r
      /\ buffer \in Seq(Stream) /\ wire \in Seq(Stream)
  BY DEF SwarmInv, Swarm!Read
<1>2. PICK t \in Swarm!Handle(s) : buffer' = t.buffer /\ beats' = t.beats /\ ghosts' = t.ghosts /\ lost' = t.lost
  BY DEF Swarm!Read
<1>3. /\ a \in Seq(Stream) /\ r \in Seq(Stream) /\ a \o r = wire
  <2>1. Len(wire) \in Nat /\ n \in Nat /\ \A i \in 1..Len(wire) : wire[i] \in Stream
    BY <1>1, LenProperties, ElementOfSeq
  <2>2. \A i \in 1..n : wire[i] \in Stream
    BY <2>1
  <2>3. \A i \in (n + 1)..Len(wire) : wire[i] \in Stream
    BY <2>1
  <2>4. a \in Seq(Stream)
    BY <2>1, <2>2, SubSeqProperties
  <2>5. r \in Seq(Stream)
    BY <2>1, <2>3, SubSeqProperties
  <2>6. a \o r = SubSeq(wire, 1, Len(wire))
    BY <1>1, <2>1, ConcatAdjacentSubSeq
  <2>7. SubSeq(wire, 1, Len(wire)) = wire
    BY <1>1, SubSeqFull
  <2> QED
    BY <2>4, <2>5, <2>6, <2>7
<1> HIDE DEF a, r
<1>4. buffer \o a \in Seq(Stream) /\ (buffer \o a) \o r = buffer \o wire
  <2>1. (buffer \o a) \o r = buffer \o (a \o r)
    <3>1. \A x, y, z \in Seq(Stream) : (x \o y) \o z = x \o (y \o z)
      BY ConcatAssociative
    <3> QED
      BY <1>1, <1>3, <3>1
  <2> QED
    BY <1>1, <1>3, <2>1, ConcatProperties
<1>5. TurnState(s) /\ s.buffer = buffer \o a /\ s.beats = beats /\ s.ghosts = ghosts /\ s.lost = lost /\ s.done = FALSE
  BY <1>1, <1>4 DEF TurnState
<1> HIDE DEF s
<1>6. \A u \in Seq(Stream) : u \in Seq(Bytes)
  <2>1. Stream \subseteq Bytes
    BY <1>1 DEF Stream, Bytes
  <2> QED
    BY <2>1, SeqMonotonic
<1>7. r \in Seq(Bytes)
  BY <1>3, <1>6
<1>8. HeadersOnly /\ s.lost = FALSE => Good(sent, r, s)
  <2> SUFFICES ASSUME HeadersOnly, lost = FALSE PROVE Good(sent, r, s)
    BY <1>5
  <2>1. ghosts = 0 /\ \E p : StandsAt(sent, buffer, wire, beats, p)
    BY DEF SwarmInv, InStep, Calm
  <2>2. PICK p : InOrder(sent, buffer \o wire, p) /\ beats = Counts(sent, p)
    BY <2>1 DEF StandsAt
  <2>3. s.buffer \in Seq(Bytes) /\ s.buffer \o r = buffer \o wire
    BY <1>4, <1>5, <1>6
  <2> QED
    BY <1>5, <2>1, <2>2, <2>3 DEF Good
<1>9. /\ TurnState(t) /\ (s.lost = TRUE => t.lost = TRUE)
      /\ HeadersOnly /\ t.lost = FALSE => TurnedOut(r, t)
  BY <1>1, <1>5, <1>7, <1>8, HandleTurns
<1>10. ASSUME Calm' PROVE InStep'
  <2>1. HeadersOnly /\ t.lost = FALSE
    BY <1>1, <1>2, <1>10 DEF Calm, HeadersOnly
  <2>2. TurnedOut(r, t)
    BY <1>9, <2>1
  <2>3. PICK p : /\ InOrder(sent, t.buffer \o r, p) /\ t.beats = Counts(sent, p)
                 /\ (t.done = TRUE => p \in 1..Len(sent) /\ Len(t.buffer) < Size(sent, p))
    BY <2>2 DEF TurnedOut, Good
  <2>4. t.buffer \in Seq(Bytes) /\ t.ghosts = 0 /\ (t.done = TRUE \/ Len(t.buffer) < 2)
    BY <2>2 DEF TurnedOut, Good
  <2>5. StandsAt(sent, t.buffer, r, t.beats, p)
    BY <2>3, <2>4 DEF StandsAt, Waits
  <2> QED
    BY <1>1, <1>2, <1>7, <2>4, <2>5 DEF InStep
<1>11. Stream' = Stream
  BY <1>1 DEF Stream
<1> QED
  BY <1>1, <1>2, <1>3, <1>9, <1>10, <1>11 DEF SwarmInv, TurnState

LEMMA SwarmStays ==
  ASSUME UNCHANGED swarm, SwarmInv
  PROVE  SwarmInv'
<1>1. /\ sent' = sent /\ wire' = wire /\ buffer' = buffer /\ beats' = beats
      /\ ghosts' = ghosts /\ lost' = lost
  BY DEF swarm
<1> QED
  BY <1>1 DEF SwarmInv, Stream, Calm, HeadersOnly, InStep, StandsAt

LEMMA SwarmKeeps ==
  ASSUME SwarmInv, [EngineNext]_vars
  PROVE  SwarmInv'
<1>1. CASE UNCHANGED swarm
  BY <1>1, SwarmStays
<1>2. CASE Swarm!SwarmNext
  <2>1. CASE \E a \in Nodes, beat \in BOOLEAN, body \in 0..1 : Swarm!Send(a, beat, body)
    BY <2>1, SendKeeps
  <2>2. CASE \E n \in 1..Len(wire) : Swarm!Read(n)
    BY <2>2, ReadKeeps
  <2>3. CASE Swarm!Close
    <3>1. /\ sent' = sent /\ wire' = wire /\ buffer' = buffer /\ beats' = beats
          /\ ghosts' = ghosts /\ lost' = lost
      BY <2>3 DEF Swarm!Close
    <3> QED
      BY <3>1 DEF SwarmInv, Stream, Calm, HeadersOnly, InStep, StandsAt
  <2> QED
    BY <1>2, <2>1, <2>2, <2>3 DEF Swarm!SwarmNext
<1> QED
  BY <1>1, <1>2, OneServiceSteps

LEMMA SwarmCounts == ASSUME SwarmInv PROVE HeartbeatsSurviveSplits
<1>1. sent \in Seq(Packet) /\ lost \in BOOLEAN /\ Len(sent) \in Nat /\ DOMAIN sent = 1..Len(sent)
  BY LenProperties DEF SwarmInv
<1> SUFFICES ASSUME lost = FALSE, HeadersOnly
             PROVE  /\ ghosts = 0
                    /\ \A n \in Nodes :
                         beats[n] = Swarm!Cardinality({x \in DOMAIN sent :
                                      sent[x].beat /\ sent[x].node = n /\ Swarm!Arrived(x)})
                    /\ buffer # <<>> => buffer[1][2] = 1
  BY <1>1, Zenon DEF HeartbeatsSurviveSplits, Swarm!HeartbeatsSurviveSplits, HeadersOnly
<1>2. buffer \in Seq(Bytes) /\ wire \in Seq(Bytes) /\ ghosts = 0
  BY DEF SwarmInv, Calm, InStep
<1>3. PICK p : InOrder(sent, buffer \o wire, p) /\ beats = Counts(sent, p) /\ Waits(sent, buffer, p)
  BY DEF SwarmInv, Calm, InStep, StandsAt
<1>4. p \in 1..(Len(sent) + 1)
  BY <1>3 DEF InOrder
<1>5. \A x \in 1..Len(sent) : Swarm!Arrived(x) <=> x < p
  BY <1>1, <1>2, <1>3, WaitsForTheFirst DEF Swarm!Arrived
<1>6. ASSUME NEW n \in Nodes
      PROVE  beats[n] = Swarm!Cardinality({x \in DOMAIN sent :
                          sent[x].beat /\ sent[x].node = n /\ Swarm!Arrived(x)})
  <2>1. beats[n] = Cardinality(Beaten(sent, n, p))
    BY <1>3 DEF Counts
  <2>2. \A x : x \in 1..(p - 1) <=> x \in 1..Len(sent) /\ x < p
    BY <1>1, <1>4
  <2>3. Beaten(sent, n, p) = {x \in DOMAIN sent :
                          sent[x].beat /\ sent[x].node = n /\ Swarm!Arrived(x)}
    BY <1>1, <1>5, <2>2 DEF Beaten
  <2>4. \A S : Swarm!Cardinality(S) = Cardinality(S)
    BY DEF Swarm!Cardinality, Cardinality
  <2> QED
    BY <2>1, <2>3, <2>4
<1>7. ASSUME buffer # <<>> PROVE buffer[1][2] = 1
  <2>1. Len(buffer) \in Nat /\ Len(buffer) # 0
    BY <1>2, <1>7, EmptySeq, LenProperties
  <2>2. Len(buffer \o wire) # 0 /\ (buffer \o wire)[1] = buffer[1]
    BY <1>2, <2>1
  <2>3. buffer[1] = <<p, 1>>
    BY <1>1, <1>3, <2>2, StartsWithHeader
  <2> QED
    BY <2>3
<1> QED
  BY <1>2, <1>6, <1>7

(* A heartbeat is counted once, for its own node, when the whole of it has    *)
(* come and not before, and the server starts every packet at its first byte, *)
(* however the stream is split.                                               *)
THEOREM HeartbeatsAreCounted == EngineSpec => []HeartbeatsSurviveSplits
<1>1. EngineInit => SwarmInv
  BY SwarmStarts DEF EngineInit
<1>2. SwarmInv /\ [EngineNext]_vars => SwarmInv'
  BY SwarmKeeps
<1>3. SwarmInv => HeartbeatsSurviveSplits
  BY SwarmCounts
<1> QED
  BY <1>1, <1>2, <1>3, PTL DEF EngineSpec

-----------------------------------------------------------------------------
(* The inductive invariant.                                                   *)

MemoryEntry == [key : Keys \cup Others, value : Values \cup {None},
                left : -1..LongestTTL, rest : 0..StaleBound + 1]
MemoryOK(m) == /\ m \in Seq(MemoryEntry)
               /\ Len(m) <= MaxSize
               /\ \A i, j \in DOMAIN m : m[i].key = m[j].key => i = j
Entries(m) == {m[i] : i \in DOMAIN m}

CacheCall == [kind : {"idle", "get", "load", "set", "delete", "clear"},
         key : Keys \cup {None},
         at : {"out", "lookup", "promote", "loading", "store", "returned",
               "keys", "wipe", "files"},
         served : BOOLEAN, value : Values \cup {None}, rest : 0..StaleBound + 1,
         ttl : TTLs, found : SUBSET Keys, alone : BOOLEAN]
CacheKnown == [value : Values \cup {None}, age : -1..LongestTTL + 1]

CacheTyped == /\ MemoryOK(memory)
         /\ redis \in [Keys -> Entry \cup {Missing}]
         /\ disk \in [Keys -> Entry \cup {Missing}]
         /\ op \in [Tasks -> CacheCall]
         /\ last \in [Keys -> CacheKnown]

(* A call is at a step of its kind, and one that is under way has its key.    *)
InCache == {"lookup", "promote", "returned"}
Shaped(o) ==
    /\ o.at = "out" => o = Idle
    /\ o.at \in InCache \cup {"loading", "store"} => o.key \in Keys
    /\ o.at \in InCache => o.kind \in {"get", "load"}
    /\ o.at = "loading" => o.kind = "load"
    /\ o.at = "store" => o.kind \in {"load", "set", "delete"}
    /\ o.at \in {"keys", "wipe", "files"} => o.kind = "clear" /\ o.key = None /\ o.value = None
    /\ o.at = "promote" => o.value # None
    /\ o.at = "loading" => o.value = None /\ ~o.served
    /\ o.kind = "idle" => o = Idle

(* Two calls meet: they are on one key, or one of them clears the cache.  One *)
(* that is alone meets none, unless both are gets.                            *)
Meet(o, p) == /\ o # Idle /\ p # Idle
              /\ o.key = p.key \/ o.kind = "clear" \/ p.kind = "clear"
AloneSound ==
    \A t, u \in Tasks : t # u /\ op[t].alone /\ Meet(op[t], op[u])
                          => op[t].kind = "get" /\ op[u].kind = "get"

(* How long a value may rest in each tier.                                    *)
RedisBound == IF LongestTTL > 2 * DefaultTTL THEN LongestTTL ELSE 2 * DefaultTTL
Within(e, bound) == e.left >= 0 => e.rest + e.left <= bound

(* The tiers have what was written last for k, the file for as long as a file *)
(* lives, and nothing that may outlive its tier.                              *)
KeyOK(k) ==
    /\ last[k] # Unknown =>
         /\ \A e \in Entries(memory) : e.key = k => e.value = last[k].value
         /\ redis[k].value \in {last[k].value, None}
         /\ disk[k].value \in {last[k].value, None}
         /\ last[k].value # None /\ last[k].age <= DefaultTTL =>
              /\ disk[k].value = last[k].value
              /\ disk[k].left = DefaultTTL - last[k].age
    /\ Within(disk[k], DefaultTTL) /\ Within(redis[k], RedisBound)
    /\ redis[k] # Missing => redis[k].left >= 0

MemoryFresh == \A e \in Entries(memory) : Within(e, StaleBound)

(* While a write or a clear is under way nothing is known of its keys; any    *)
(* other call on the key holds what was written last, and a get that meets no *)
(* write has it or found its file expired.                                    *)
Knows(o, k, l) ==
    /\ o.kind = "clear" => l = Unknown
    /\ o.key = k /\ o.at = "store" => l = Unknown
    /\ o.key = k /\ l # Unknown =>
         /\ o.value \in {l.value, None}
         /\ o.kind = "get" /\ o.at = "returned" /\ o.alone =>
              o.value = l.value \/ (o.value = None /\ l.age > DefaultTTL)
CallKnows(t, k) == Knows(op[t], k, last[k])

(* How far an undisturbed write has come through the tiers.                   *)
HalfWritten(t) ==
    op[t].alone /\ op[t].at = "store" =>
        /\ \A e \in Entries(memory) : e.key = op[t].key => e.value = op[t].value
        /\ op[t].served => redis[op[t].key].value \in {op[t].value, None}

(* How far an undisturbed clear has come.                                     *)
HalfCleared(t, k) ==
    op[t].alone /\ op[t].kind = "clear" =>
        /\ \A e \in Entries(memory) : e.key # k
        /\ op[t].at = "wipe" => redis[k] = Missing \/ k \in op[t].found
        /\ op[t].at = "files" => redis[k] = Missing

(* How long the value a call holds has rested.                                *)
FreshCall(o) ==
    /\ o.at = "lookup" => o.rest <= RedisBound
    /\ o.at = "lookup" /\ o.value = None => o.rest = 0
    /\ o.at = "promote" => o.rest <= DefaultTTL
    /\ o.at = "returned" => o.rest <= StaleBound
    /\ o.at \in {"loading", "store"} => o.rest = 0

CacheInv ==
    /\ CacheTyped /\ AloneSound /\ MemoryFresh
    /\ \A t \in Tasks : Shaped(op[t]) /\ FreshCall(op[t]) /\ HalfWritten(t)
    /\ \A k \in Keys : KeyOK(k)
    /\ \A t \in Tasks, k \in Keys : CallKnows(t, k) /\ HalfCleared(t, k)

-----------------------------------------------------------------------------
(* Memory.                                                                    *)

(* Kept(m, I) lists what m has at I: its positions map one to one, and in     *)
(* order, onto those of I.                                                    *)
LEMMA KeptProperties ==
  ASSUME NEW S, NEW m \in Seq(S), NEW I \in SUBSET (DOMAIN m)
  PROVE  /\ Kept(m, I) \in Seq(S)
         /\ Len(Kept(m, I)) <= Len(m)
         /\ I # DOMAIN m => Len(Kept(m, I)) < Len(m)
         /\ \E f \in [DOMAIN Kept(m, I) -> I] :
              /\ \A a \in DOMAIN Kept(m, I) : Kept(m, I)[a] = m[f[a]]
              /\ \A a, b \in DOMAIN Kept(m, I) : a < b => f[a] < f[b]
              /\ \A i \in I : \E a \in DOMAIN Kept(m, I) : f[a] = i
  <1> DEFINE Upto(i) == {j \in I : j <= i}
             n == Cardinality(I)
             rank == [i \in I |-> Cardinality(Upto(i))]
             f == [a \in 1..n |-> CHOOSE i \in I : Cardinality(Upto(i)) = a]
  <1> HIDE DEF n
  <1>1. I \subseteq 1..Len(m) /\ Len(m) \in Nat /\ I \subseteq Nat
    OBVIOUS
  <1>2. IsFiniteSet(I) /\ n \in Nat /\ n <= Len(m) /\ (n = Len(m) => I = DOMAIN m)
    <2>1. IsFiniteSet(1..Len(m)) /\ Cardinality(1..Len(m)) = Len(m)
      <3> DEFINE l == Len(m)
      <3>1. l \in Nat
        OBVIOUS
      <3> HIDE DEF l
      <3>2. IsFiniteSet(1..l) /\ Cardinality(1..l) = l
        BY <3>1, FS_Interval
      <3> QED BY <3>2 DEF l
    <2>2. I \in SUBSET (1..Len(m))
      BY <1>1
    <2>3. IsFiniteSet(I) /\ Cardinality(I) <= Len(m)
      BY <2>1, <2>2, FS_Subset
    <2>4. n \in Nat /\ n <= Len(m)
      BY <2>3, FS_CardinalityType DEF n
    <2>5. n = Len(m) => I = DOMAIN m
      <3>1. n = Cardinality(1..Len(m)) => I = 1..Len(m)
        BY <2>1, <2>2, FS_Subset DEF n
      <3> QED BY <2>1, <3>1
    <2> QED BY <2>3, <2>4, <2>5
  <1>3. \A T \in SUBSET I : IsFiniteSet(T) /\ Cardinality(T) \in Nat /\ Cardinality(T) <= n
    BY <1>2, FS_Subset, FS_CardinalityType DEF n
  <1>4. \A i, j \in I : i < j => rank[i] < rank[j]
    <2> SUFFICES ASSUME NEW i \in I, NEW j \in I, i < j
                 PROVE  rank[i] < rank[j]
      OBVIOUS
    <2>1. Upto(i) \in SUBSET Upto(j) /\ j \in Upto(j) /\ j \notin Upto(i)
      BY <1>1
    <2>2. IsFiniteSet(Upto(j))
      BY <1>3
    <2>3. Cardinality(Upto(i)) <= Cardinality(Upto(j)) /\ Cardinality(Upto(i)) # Cardinality(Upto(j))
      BY <2>1, <2>2, FS_Subset
    <2> QED BY <2>3, <1>3
  <1>5. rank \in [I -> 1..n]
    <2> SUFFICES ASSUME NEW i \in I
                 PROVE  Cardinality(Upto(i)) \in 1..n
      OBVIOUS
    <2>1. i \in Upto(i)
      BY <1>1
    <2>2. Cardinality(Upto(i)) # 0
      BY <2>1, <1>3, FS_EmptySet
    <2> QED BY <2>2, <1>3, <1>2
  <1>6. rank \in Injection(I, 1..n)
    <2> HIDE DEF rank
    <2>1. \A i, j \in I : rank[i] = rank[j] => i = j
      <3> SUFFICES ASSUME NEW i \in I, NEW j \in I, rank[i] = rank[j]
                   PROVE  i = j
        OBVIOUS
      <3>1. ~(i < j) /\ ~(j < i)
        BY <1>4, <1>5, <1>2
      <3> QED BY <3>1, <1>1
    <2> QED BY <2>1, <1>5 DEF Injection, IsInjective
  <1>7. rank \in Surjection(I, 1..n)
    <2>1. IsFiniteSet(1..n) /\ Cardinality(1..n) = n
      BY <1>2, FS_Interval
    <2> QED BY <2>1, <1>6, FS_Injection DEF n
  <1>8. \A a \in 1..n : f[a] \in I /\ rank[f[a]] = a
    <2> SUFFICES ASSUME NEW a \in 1..n
                 PROVE  f[a] \in I /\ rank[f[a]] = a
      OBVIOUS
    <2>1. PICK i \in I : rank[i] = a
      BY <1>7 DEF Surjection
    <2>2. \E j \in I : Cardinality(Upto(j)) = a
      BY <2>1
    <2> QED BY <2>2
  <1>9. Kept(m, I) = [a \in 1..n |-> m[f[a]]]
    BY DEF Kept, n
  <1>11. f \in [1..n -> I]
    BY <1>8
  <1> HIDE DEF f, rank
  <1>10. Kept(m, I) \in Seq(S) /\ Len(Kept(m, I)) = n /\ DOMAIN Kept(m, I) = 1..n
    <2>1. \A a \in 1..n : m[f[a]] \in S
      BY <1>11, <1>1
    <2>2. Kept(m, I) \in [1..n -> S]
      BY <2>1, <1>9
    <2> HIDE DEF Kept
    <2> QED BY <2>2, <1>2
  <1>12. \A a, b \in 1..n : a < b => f[a] < f[b]
    <2> SUFFICES ASSUME NEW a \in 1..n, NEW b \in 1..n, a < b
                 PROVE  f[a] < f[b]
      OBVIOUS
    <2>1. f[a] \in I /\ f[b] \in I /\ rank[f[a]] = a /\ rank[f[b]] = b
      BY <1>8
    <2>2. CASE f[b] < f[a]
      BY <2>1, <2>2, <1>4, <1>2
    <2>3. CASE f[b] = f[a]
      BY <2>1, <2>3, <1>2
    <2> QED BY <2>1, <2>2, <2>3, <1>1
  <1>13. \A i \in I : \E a \in 1..n : f[a] = i
    <2> SUFFICES ASSUME NEW i \in I
                 PROVE  f[rank[i]] = i
      BY <1>5
    <2>1. rank[i] \in 1..n
      BY <1>5
    <2>2. f[rank[i]] \in I /\ rank[f[rank[i]]] = rank[i]
      BY <2>1, <1>8
    <2>3. f[rank[i]] < i \/ i < f[rank[i]] \/ f[rank[i]] = i
      BY <2>2, <1>1
    <2> QED BY <2>1, <2>2, <2>3, <1>4, <1>2
  <1>14. \A a \in 1..n : Kept(m, I)[a] = m[f[a]]
    BY <1>9
  <1> HIDE DEF Kept
  <1>15. Len(Kept(m, I)) <= Len(m) /\ (I # DOMAIN m => Len(Kept(m, I)) < Len(m))
    BY <1>2, <1>10
  <1>16. \E g \in [DOMAIN Kept(m, I) -> I] :
              /\ \A a \in DOMAIN Kept(m, I) : Kept(m, I)[a] = m[g[a]]
              /\ \A a, b \in DOMAIN Kept(m, I) : a < b => g[a] < g[b]
              /\ \A i \in I : \E a \in DOMAIN Kept(m, I) : g[a] = i
    <2>1. f \in [DOMAIN Kept(m, I) -> I]
      BY <1>10, <1>11
    <2> WITNESS f \in [DOMAIN Kept(m, I) -> I]
    <2> QED BY <1>10, <1>12, <1>13, <1>14
  <1> QED BY <1>10, <1>15, <1>16

(* A kept part of a well-formed memory is one, with entries it had.           *)
LEMMA KeptMemory ==
  ASSUME NEW m, MemoryOK(m), NEW I \in SUBSET (DOMAIN m)
  PROVE  /\ MemoryOK(Kept(m, I))
         /\ \A e \in Entries(Kept(m, I)) : \E i \in I : e = m[i]
         /\ I # DOMAIN m => Len(Kept(m, I)) < MaxSize
  <1>0. m \in Seq(MemoryEntry) /\ Len(m) \in Nat /\ MaxSize \in Nat
    BY CacheAssumption DEF MemoryOK
  <1>1. /\ Kept(m, I) \in Seq(MemoryEntry)
        /\ Len(Kept(m, I)) <= Len(m)
        /\ I # DOMAIN m => Len(Kept(m, I)) < Len(m)
    BY <1>0, KeptProperties
  <1>2. PICK f \in [DOMAIN Kept(m, I) -> I] :
              /\ \A a \in DOMAIN Kept(m, I) : Kept(m, I)[a] = m[f[a]]
              /\ \A a, b \in DOMAIN Kept(m, I) : a < b => f[a] < f[b]
    BY <1>0, KeptProperties
  <1>3. \A a, b \in DOMAIN Kept(m, I) : Kept(m, I)[a].key = Kept(m, I)[b].key => a = b
    <2> SUFFICES ASSUME NEW a \in DOMAIN Kept(m, I), NEW b \in DOMAIN Kept(m, I),
                        Kept(m, I)[a].key = Kept(m, I)[b].key
                 PROVE  a = b
      OBVIOUS
    <2>1. f[a] = f[b]
      BY <1>2 DEF MemoryOK
    <2>2. f[a] \in Nat /\ f[b] \in Nat /\ a \in Nat /\ b \in Nat
      BY <1>0, <1>1
    <2> QED BY <1>2, <2>1, <2>2
  <1> HIDE DEF Kept
  <1>4. \A e \in Entries(Kept(m, I)) : \E i \in I : e = m[i]
    BY <1>2 DEF Entries
  <1>5. /\ Len(Kept(m, I)) <= MaxSize
        /\ I # DOMAIN m => Len(Kept(m, I)) < MaxSize
    <2>1. Len(m) <= MaxSize /\ Len(Kept(m, I)) \in Nat
      BY <1>1 DEF MemoryOK
    <2> QED BY <2>1, <1>0, <1>1
  <1> QED BY <1>1, <1>3, <1>4, <1>5 DEF MemoryOK

LEMMA DropMemory ==
  ASSUME NEW m, MemoryOK(m), NEW k
  PROVE  /\ MemoryOK(Drop(m, k))
         /\ \A e \in Entries(Drop(m, k)) : e \in Entries(m) /\ e.key # k
         /\ Holds(m, k) => Len(Drop(m, k)) < MaxSize
         /\ Len(Drop(m, k)) <= Len(m)
  <1> DEFINE I == {i \in DOMAIN m : m[i].key # k}
  <1>1. I \in SUBSET (DOMAIN m) /\ Drop(m, k) = Kept(m, I)
    BY DEF Drop
  <1>2. Holds(m, k) => I # DOMAIN m
    BY DEF Holds
  <1>3. \A i \in I : m[i] \in Entries(m) /\ m[i].key # k
    BY DEF Entries
  <1>4. Len(Kept(m, I)) <= Len(m)
    BY <1>1, KeptProperties DEF MemoryOK
  <1> HIDE DEF I
  <1> QED BY <1>1, <1>2, <1>3, <1>4, KeptMemory

LEMMA Bounds ==
  /\ LongestTTL \in TTLs /\ LongestTTL \in Nat \ {0} /\ \A n \in TTLs : n \in Nat \ {0} /\ n <= LongestTTL
  /\ DefaultTTL \in Nat \ {0} /\ DefaultTTL <= LongestTTL
  /\ RedisBound \in Nat /\ StaleBound = RedisBound + DefaultTTL
  /\ LongestTTL <= RedisBound /\ 2 * DefaultTTL <= RedisBound
  <1>1. LongestTTL \in TTLs /\ \A n \in TTLs : n <= LongestTTL
    BY CacheAssumption DEF LongestTTL
  <1> HIDE DEF LongestTTL
  <1>2. /\ LongestTTL \in Nat \ {0} /\ DefaultTTL \in Nat \ {0}
        /\ DefaultTTL <= LongestTTL
        /\ \A n \in TTLs : n \in Nat \ {0} /\ n <= LongestTTL
    BY <1>1, CacheAssumption
  <1> QED BY <1>1, <1>2 DEF RedisBound, StaleBound

(* An append of a key that is not there, where there is room.                 *)
LEMMA AppendMemory ==
  ASSUME NEW m, MemoryOK(m), NEW e \in MemoryEntry, Len(m) < MaxSize,
         \A d \in Entries(m) : d.key # e.key
  PROVE  /\ MemoryOK(Append(m, e))
         /\ \A d \in Entries(Append(m, e)) : d = e \/ d \in Entries(m)
  <1>1. m \in Seq(MemoryEntry) /\ Len(m) \in Nat /\ MaxSize \in Nat
    BY CacheAssumption DEF MemoryOK
  <1>2. /\ Append(m, e) \in Seq(MemoryEntry)
        /\ Len(Append(m, e)) = Len(m) + 1
        /\ DOMAIN Append(m, e) = 1..(Len(m) + 1) /\ DOMAIN m = 1..Len(m)
        /\ \A i \in 1..Len(m) : Append(m, e)[i] = m[i]
        /\ Append(m, e)[Len(m) + 1] = e
    BY <1>1
  <1>3. \A i \in 1..Len(m) : m[i].key # e.key
    BY <1>2 DEF Entries
  <1>4. \A i, j \in DOMAIN Append(m, e) :
            Append(m, e)[i].key = Append(m, e)[j].key => i = j
    <2> SUFFICES ASSUME NEW i \in 1..(Len(m) + 1), NEW j \in 1..(Len(m) + 1),
                        Append(m, e)[i].key = Append(m, e)[j].key
                 PROVE  i = j
      BY <1>2
    <2>1. CASE i \in 1..Len(m) /\ j \in 1..Len(m)
      BY <2>1, <1>2 DEF MemoryOK
    <2>2. CASE i = Len(m) + 1 /\ j \in 1..Len(m)
      BY <2>2, <1>2, <1>3
    <2>3. CASE i \in 1..Len(m) /\ j = Len(m) + 1
      BY <2>3, <1>2, <1>3
    <2>4. CASE i = Len(m) + 1 /\ j = Len(m) + 1
      BY <2>4
    <2> QED BY <1>1, <2>1, <2>2, <2>3, <2>4
  <1>5. \A d \in Entries(Append(m, e)) : d = e \/ d \in Entries(m)
    <2> SUFFICES ASSUME NEW i \in 1..(Len(m) + 1)
                 PROVE  Append(m, e)[i] = e \/ Append(m, e)[i] \in Entries(m)
      BY <1>2 DEF Entries
    <2>1. CASE i \in 1..Len(m)
      BY <2>1, <1>2 DEF Entries
    <2>2. CASE i = Len(m) + 1
      BY <2>2, <1>2
    <2> QED BY <1>1, <2>1, <2>2
  <1> QED BY <1>1, <1>2, <1>4, <1>5 DEF MemoryOK

LEMMA EvictMemory ==
  ASSUME NEW m, MemoryOK(m), NEW k
  PROVE  /\ MemoryOK(Evict(m, k))
         /\ Entries(Evict(m, k)) \subseteq Entries(m)
         /\ Holds(Evict(m, k), k) \/ Len(Evict(m, k)) < MaxSize
  <1>1. m \in Seq(MemoryEntry) /\ Len(m) \in Nat /\ MaxSize \in Nat \ {0} /\ Len(m) <= MaxSize
    BY CacheAssumption DEF MemoryOK
  <1>2. CASE ~Holds(m, k) /\ Len(m) >= MaxSize
    <2>1. Evict(m, k) = Tail(m) /\ m # <<>>
      BY <1>1, <1>2 DEF Evict
    <2>2. /\ Tail(m) \in Seq(MemoryEntry)
          /\ Len(Tail(m)) = Len(m) - 1
          /\ DOMAIN Tail(m) = 1..(Len(m) - 1)
          /\ \A i \in 1..(Len(m) - 1) : Tail(m)[i] = m[i + 1] /\ i + 1 \in DOMAIN m
      BY <1>1, <2>1
    <2>3. \A i, j \in DOMAIN Tail(m) : Tail(m)[i].key = Tail(m)[j].key => i = j
      BY <1>1, <2>2 DEF MemoryOK
    <2>4. Entries(Tail(m)) \subseteq Entries(m)
      BY <2>2 DEF Entries
    <2> QED BY <1>1, <2>1, <2>2, <2>3, <2>4 DEF MemoryOK
  <1>3. CASE ~(~Holds(m, k) /\ Len(m) >= MaxSize)
    BY <1>1, <1>3 DEF Evict
  <1> QED BY <1>2, <1>3

(* A set leaves a well-formed memory: the new entry, and what it had for      *)
(* other keys.                                                                *)
LEMMA SetMemory ==
  ASSUME NEW m, MemoryOK(m), NEW k \in Keys \cup Others, NEW v \in Values \cup {None},
         NEW ttl \in TTLs, NEW rest \in 0..(StaleBound + 1),
         NEW new \in MemorySets(m, k, v, ttl, rest)
  PROVE  /\ MemoryOK(new)
         /\ \A e \in Entries(new) :
              \/ e = [key |-> k, value |-> v, left |-> ttl, rest |-> rest]
              \/ e \in Entries(m) /\ e.key # k
  <1> DEFINE put == [key |-> k, value |-> v, left |-> ttl, rest |-> rest]
             dropped == Drop(Evict(m, k), k)
             all == Append(dropped, put)
  <1>1. put \in MemoryEntry
    BY Bounds DEF MemoryEntry
  <1>2. /\ MemoryOK(dropped)
        /\ \A e \in Entries(dropped) : e \in Entries(m) /\ e.key # k
        /\ Len(dropped) < MaxSize
    <2>1. /\ MemoryOK(Evict(m, k)) /\ Entries(Evict(m, k)) \subseteq Entries(m)
          /\ Holds(Evict(m, k), k) \/ Len(Evict(m, k)) < MaxSize
      BY EvictMemory
    <2>2. /\ MemoryOK(dropped)
          /\ \A e \in Entries(dropped) : e \in Entries(Evict(m, k)) /\ e.key # k
          /\ Holds(Evict(m, k), k) => Len(dropped) < MaxSize
          /\ Len(dropped) <= Len(Evict(m, k))
      BY <2>1, DropMemory
    <2>3. Len(dropped) \in Nat /\ Len(Evict(m, k)) \in Nat /\ MaxSize \in Nat
      BY <2>1, <2>2, CacheAssumption DEF MemoryOK
    <2> HIDE DEF dropped
    <2> QED BY <2>1, <2>2, <2>3
  <1>3. put.key = k
    OBVIOUS
  <1> HIDE DEF dropped, put
  <1>4. MemoryOK(all) /\ \A e \in Entries(all) : e = put \/ e \in Entries(dropped)
    BY <1>1, <1>2, <1>3, AppendMemory
  <1>5. CASE new = all
    BY <1>5, <1>4, <1>2 DEF put
  <1>6. CASE new = Kept(all, {i \in DOMAIN all : all[i].left > 0})
    <2> DEFINE I == {i \in DOMAIN all : all[i].left > 0}
    <2>1. I \in SUBSET (DOMAIN all) /\ \A i \in I : all[i] \in Entries(all)
      BY DEF Entries
    <2> HIDE DEF all, I
    <2>2. MemoryOK(Kept(all, I)) /\ \A e \in Entries(Kept(all, I)) : e \in Entries(all)
      BY <1>4, <2>1, KeptMemory
    <2> QED BY <1>6, <2>2, <1>4, <1>2 DEF put, I
  <1> QED BY <1>5, <1>6 DEF MemorySets, dropped, put

(* An entry that gets older keeps its key and value, and its bound.           *)
LEMMA OlderEntry ==
  /\ \A e \in MemoryEntry :
       /\ Older(e) \in MemoryEntry
       /\ Older(e).key = e.key /\ Older(e).value = e.value
       /\ Within(e, StaleBound) => Within(Older(e), StaleBound)
  /\ \A e \in Entry :
       /\ Older(e) \in Entry
       /\ Older(e).value = e.value
       /\ Older(e).left = IF e.left > -1 THEN e.left - 1 ELSE e.left
       /\ \A bound \in Nat : bound <= StaleBound /\ Within(e, bound) => Within(Older(e), bound)
  <1>1. StaleBound \in Nat /\ LongestTTL \in Nat
    BY Bounds
  <1> HIDE DEF StaleBound, LongestTTL
  <1>2. ASSUME NEW e \in MemoryEntry
        PROVE  Older(e) = [key |-> e.key, value |-> e.value,
                           left |-> IF e.left > -1 THEN e.left - 1 ELSE e.left,
                           rest |-> IF e.rest <= StaleBound THEN e.rest + 1 ELSE e.rest]
    <2> DEFINE l == IF e.left > -1 THEN e.left - 1 ELSE e.left
               r == IF e.rest <= StaleBound THEN e.rest + 1 ELSE e.rest
    <2>1. Older(e) = [e EXCEPT !.left = l, !.rest = r]
      BY DEF Older
    <2>2. e = [key |-> e.key, value |-> e.value, left |-> e.left, rest |-> e.rest]
      BY DEF MemoryEntry
    <2> HIDE DEF l, r
    <2>3. Older(e) = [key |-> e.key, value |-> e.value, left |-> l, rest |-> r]
      BY <2>1, <2>2
    <2> QED BY <2>3 DEF l, r
  <1>3. ASSUME NEW e \in Entry
        PROVE  Older(e) = [value |-> e.value,
                           left |-> IF e.left > -1 THEN e.left - 1 ELSE e.left,
                           rest |-> IF e.rest <= StaleBound THEN e.rest + 1 ELSE e.rest]
    <2> DEFINE l == IF e.left > -1 THEN e.left - 1 ELSE e.left
               r == IF e.rest <= StaleBound THEN e.rest + 1 ELSE e.rest
    <2>1. Older(e) = [e EXCEPT !.left = l, !.rest = r]
      BY DEF Older
    <2>2. e = [value |-> e.value, left |-> e.left, rest |-> e.rest]
      BY DEF Entry
    <2> HIDE DEF l, r
    <2>3. Older(e) = [value |-> e.value, left |-> l, rest |-> r]
      BY <2>1, <2>2
    <2> QED BY <2>3 DEF l, r
  <1> HIDE DEF Older
  <1>4. ASSUME NEW e \in MemoryEntry
        PROVE  /\ Older(e) \in MemoryEntry
               /\ Older(e).key = e.key /\ Older(e).value = e.value
               /\ Within(e, StaleBound) => Within(Older(e), StaleBound)
    <2>1. e.left \in -1..LongestTTL /\ e.rest \in 0..StaleBound + 1
          /\ e.key \in Keys \cup Others /\ e.value \in Values \cup {None}
      BY DEF MemoryEntry
    <2>2. /\ Older(e).key = e.key /\ Older(e).value = e.value
          /\ Older(e).left = IF e.left > -1 THEN e.left - 1 ELSE e.left
          /\ Older(e).rest = IF e.rest <= StaleBound THEN e.rest + 1 ELSE e.rest
      BY <1>2
    <2>3. Older(e).left \in -1..LongestTTL /\ Older(e).rest \in 0..StaleBound + 1
      BY <1>1, <2>1, <2>2
    <2>4. Older(e) \in MemoryEntry
      BY <1>2, <2>1, <2>2, <2>3 DEF MemoryEntry
    <2>5. Within(e, StaleBound) => Within(Older(e), StaleBound)
      BY <1>1, <2>1, <2>2 DEF Within
    <2> QED BY <2>2, <2>4, <2>5
  <1>5. ASSUME NEW e \in Entry
        PROVE  /\ Older(e) \in Entry
               /\ Older(e).value = e.value
               /\ Older(e).left = IF e.left > -1 THEN e.left - 1 ELSE e.left
               /\ \A bound \in Nat : bound <= StaleBound /\ Within(e, bound)
                                       => Within(Older(e), bound)
    <2>1. e.left \in -1..LongestTTL /\ e.rest \in 0..StaleBound + 1 /\ e.value \in Values
      BY DEF Entry
    <2>2. /\ Older(e).value = e.value
          /\ Older(e).left = IF e.left > -1 THEN e.left - 1 ELSE e.left
          /\ Older(e).rest = IF e.rest <= StaleBound THEN e.rest + 1 ELSE e.rest
      BY <1>3
    <2>3. Older(e).left \in -1..LongestTTL /\ Older(e).rest \in 0..StaleBound + 1
      BY <1>1, <2>1, <2>2
    <2>4. Older(e) \in Entry
      BY <1>3, <2>1, <2>2, <2>3 DEF Entry
    <2>5. \A bound \in Nat : bound <= StaleBound /\ Within(e, bound)
                               => Within(Older(e), bound)
      BY <1>1, <2>1, <2>2 DEF Within
    <2> QED BY <2>2, <2>4, <2>5
  <1> QED BY <1>4, <1>5

LEMMA OlderMemory ==
  ASSUME NEW m, MemoryOK(m)
  PROVE  LET old == [i \in DOMAIN m |-> Older(m[i])]
         IN /\ MemoryOK(old)
            /\ \A e \in Entries(old) : \E d \in Entries(m) : e = Older(d)
  <1> DEFINE old == [i \in DOMAIN m |-> Older(m[i])]
  <1>1. m \in Seq(MemoryEntry) /\ Len(m) \in Nat /\ DOMAIN m = 1..Len(m)
    BY DEF MemoryOK
  <1>2. \A i \in DOMAIN m : Older(m[i]) \in MemoryEntry /\ Older(m[i]).key = m[i].key
    BY <1>1, OlderEntry
  <1>3. old \in [1..Len(m) -> MemoryEntry]
    BY <1>1, <1>2
  <1>4. DOMAIN old = 1..Len(m) /\ \A i \in 1..Len(m) : old[i] = Older(m[i])
    BY <1>1
  <1> HIDE DEF old
  <1>5. old \in Seq(MemoryEntry) /\ Len(old) = Len(m)
    BY <1>1, <1>3
  <1>6. \A i, j \in DOMAIN old : old[i].key = old[j].key => i = j
    BY <1>1, <1>2, <1>4 DEF MemoryOK
  <1>7. \A e \in Entries(old) : \E d \in Entries(m) : e = Older(d)
    BY <1>1, <1>4 DEF Entries
  <1>8. MemoryOK(old)
    BY <1>5, <1>6 DEF MemoryOK
  <1> QED BY <1>7, <1>8 DEF old

-----------------------------------------------------------------------------
(* The calls.                                                                 *)

LEMMA IdleCall == Idle \in CacheCall /\ Shaped(Idle) /\ Idle.alone = FALSE
  <1>1. 0 \in 0..StaleBound + 1
    BY Bounds
  <1>2. DefaultTTL \in TTLs
    BY CacheAssumption
  <1>3. Idle \in CacheCall
    BY <1>1, <1>2 DEF Idle, CacheCall
  <1> QED BY <1>3 DEF Idle, Shaped, InCache

(* A step of a call that goes on, or ends, leaves calls that are alone so.    *)
LEMMA GoesOn ==
  ASSUME op \in [Tasks -> CacheCall], \A u \in Tasks : Shaped(op[u]), AloneSound, NEW t \in Tasks, NEW o \in CacheCall,
         Becomes(t, o), Shaped(o),
         o = Idle \/ (op[t] # Idle /\ o.kind = op[t].kind /\ o.key = op[t].key
                        /\ (o.alone => op[t].alone))
  PROVE  op' \in [Tasks -> CacheCall] /\ (\A u \in Tasks : Shaped(op'[u])) /\ AloneSound'
         /\ op'[t] = o /\ \A u \in Tasks \ {t} : op'[u] = op[u]
  <1>1. op' \in [Tasks -> CacheCall] /\ op'[t] = o /\ \A u \in Tasks \ {t} : op'[u] = op[u]
    BY DEF Becomes
  <1>2. (\A u \in Tasks : Shaped(op'[u]))
    BY <1>1
  <1>3. ASSUME NEW u \in Tasks, NEW w \in Tasks, u # w, op'[u].alone, Meet(op'[u], op'[w])
        PROVE  op'[u].kind = "get" /\ op'[w].kind = "get"
    <2>1. CASE u # t /\ w # t
      BY <2>1, <1>1, <1>3 DEF AloneSound
    <2>2. CASE u = t
      <3>1. o # Idle /\ op[t] # Idle /\ o.kind = op[t].kind /\ o.key = op[t].key /\ op[t].alone
        BY <2>2, <1>1, <1>3, IdleCall DEF Meet
      <3>2. op'[w] = op[w] /\ Meet(op[t], op[w])
        BY <2>2, <1>1, <1>3, <3>1 DEF Meet
      <3> QED BY <2>2, <3>1, <3>2, <1>1, <1>3 DEF AloneSound
    <2>3. CASE w = t
      <3>1. o # Idle /\ op[t] # Idle /\ o.kind = op[t].kind /\ o.key = op[t].key
        BY <2>3, <1>1, <1>3 DEF Meet
      <3>2. op'[u] = op[u] /\ Meet(op[u], op[t])
        BY <2>3, <1>1, <1>3, <3>1 DEF Meet
      <3> QED BY <2>3, <3>1, <3>2, <1>1, <1>3 DEF AloneSound
    <2> QED BY <2>1, <2>2, <2>3
  <1> QED BY <1>1, <1>2, <1>3 DEF AloneSound

(* So does the start of a call: those it meets are no longer alone.           *)
LEMMA SetsOut ==
  ASSUME op \in [Tasks -> CacheCall], \A u \in Tasks : Shaped(op[u]), AloneSound, NEW t \in Tasks, NEW o \in CacheCall,
         op[t] = Idle, Start(t, o), Shaped(o), o.at # "out", o.key = None => o.kind = "clear"
  PROVE  /\ op' \in [Tasks -> CacheCall] /\ (\A u \in Tasks : Shaped(op'[u])) /\ AloneSound'
         /\ \E b \in BOOLEAN : op'[t] = [o EXCEPT !.alone = b]
         /\ \A u \in Tasks \ {t} :
              \E b \in BOOLEAN : op'[u] = [op[u] EXCEPT !.alone = b] /\ (b => op[u].alone)
  <1> DEFINE apart(u) == o.kind = "get" /\ op[u].kind = "get"
             first == \A w \in Tasks \ {t} :
                        op[w] # Idle /\ (w \in OnKey(o.key) \/ o.kind = "clear") => apart(w)
             hit(u) == u \in OnKey(o.key) \/ o.kind = "clear"
  <1>1. op'[t] = [o EXCEPT !.alone = first]
    BY DEF Start
  <1>2. \A u \in Tasks \ {t} :
          op'[u] = IF hit(u) THEN [op[u] EXCEPT !.alone = op[u].alone /\ apart(u)]
                   ELSE op[u]
    BY DEF Start
  <1>3. /\ op'[t] \in CacheCall /\ op'[t].kind = o.kind /\ op'[t].key = o.key
        /\ op'[t].at = o.at /\ op'[t].value = o.value /\ op'[t].served = o.served
        /\ (op'[t].alone <=> first)
        /\ first \in BOOLEAN
    BY <1>1 DEF CacheCall
  <1>4. ASSUME NEW u \in Tasks \ {t}
        PROVE  /\ \E b \in BOOLEAN : op'[u] = [op[u] EXCEPT !.alone = b] /\ (b => op[u].alone)
               /\ op'[u].alone => ~hit(u) \/ apart(u)
    <2>1. op[u] \in CacheCall
      OBVIOUS
    <2>2. CASE hit(u)
      <3> DEFINE b == op[u].alone /\ apart(u)
      <3>1. b \in BOOLEAN /\ (b => op[u].alone) /\ (b => apart(u))
        OBVIOUS
      <3>2. op'[u] = [op[u] EXCEPT !.alone = b]
        BY <1>2, <2>2
      <3> HIDE DEF b
      <3>3. op'[u].alone = b
        BY <3>2, <2>1 DEF CacheCall
      <3> QED BY <3>1, <3>2, <3>3
    <2>3. CASE ~hit(u)
      <3> DEFINE b == op[u].alone
      <3>1. op'[u] = op[u]
        BY <1>2, <2>3
      <3>2. b \in BOOLEAN /\ op[u] = [op[u] EXCEPT !.alone = b]
        BY <2>1 DEF CacheCall
      <3>3. b => op[u].alone
        OBVIOUS
      <3> HIDE DEF b
      <3> QED BY <2>3, <3>1, <3>2, <3>3
    <2> QED BY <2>2, <2>3
  <1>5. \A u \in Tasks \ {t} :
          /\ op'[u] \in CacheCall /\ op'[u].kind = op[u].kind /\ op'[u].key = op[u].key
          /\ op'[u].at = op[u].at /\ op'[u].value = op[u].value
          /\ op'[u].served = op[u].served
          /\ op'[u].alone => op[u].alone
          /\ op[u] = Idle => op'[u] = Idle
    <2> SUFFICES ASSUME NEW u \in Tasks \ {t}
                 PROVE  /\ op'[u] \in CacheCall /\ op'[u].kind = op[u].kind
                        /\ op'[u].key = op[u].key
                        /\ op'[u].at = op[u].at /\ op'[u].value = op[u].value
                        /\ op'[u].served = op[u].served
                        /\ op'[u].alone => op[u].alone
                        /\ op[u] = Idle => op'[u] = Idle
      OBVIOUS
    <2>1. PICK b \in BOOLEAN : op'[u] = [op[u] EXCEPT !.alone = b] /\ (b => op[u].alone)
      BY <1>4
    <2>2. op[u] \in CacheCall
      OBVIOUS
    <2>3. op[u] = Idle => b = FALSE
      BY <2>1, IdleCall
    <2>4. op[u] = Idle => op'[u] = Idle
      <3> SUFFICES ASSUME op[u] = Idle
                   PROVE  op'[u] = Idle
        OBVIOUS
      <3>1. b = op[u].alone
        BY <2>3, IdleCall
      <3>2. op[u] = [op[u] EXCEPT !.alone = b]
        BY <2>2, <3>1 DEF CacheCall
      <3> QED BY <2>1, <3>2
    <2> QED BY <2>1, <2>2, <2>4 DEF CacheCall
  <1>6. op' \in [Tasks -> CacheCall]
    <2>1. DOMAIN op' = Tasks /\ op' = [u \in Tasks |-> op'[u]]
      BY DEF Start
    <2>2. \A u \in Tasks : op'[u] \in CacheCall
      BY <1>3, <1>5
    <2> QED BY <2>1, <2>2
  <1>7. (\A u \in Tasks : Shaped(op'[u]))
    <2> SUFFICES ASSUME NEW u \in Tasks
                 PROVE  Shaped(op'[u])
      OBVIOUS
    <2>1. CASE u = t
      <3>1. o.kind # "idle" /\ o.at # "out"
        BY DEF Shaped, Idle
      <3> QED BY <2>1, <3>1, <1>3 DEF Shaped
    <2>2. CASE u # t
      <3>1. Shaped(op[u]) /\ (op[u] = Idle => op'[u] = Idle)
        BY <2>2, <1>5
      <3> QED BY <2>2, <3>1, <1>5 DEF Shaped
    <2> QED BY <2>1, <2>2
  <1>8. ASSUME NEW u \in Tasks, NEW w \in Tasks, u # w, op'[u].alone, Meet(op'[u], op'[w])
        PROVE  op'[u].kind = "get" /\ op'[w].kind = "get"
    <2>1. CASE u # t /\ w # t
      <3>1. op[u].alone /\ Meet(op[u], op[w])
        BY <2>1, <1>5, <1>8 DEF Meet
      <3> QED BY <2>1, <3>1, <1>5, <1>8 DEF AloneSound
    <2>2. CASE u = t
      <3>1. op[w] # Idle /\ (op[w].key = o.key \/ op[w].kind = "clear" \/ o.kind = "clear")
        BY <2>2, <1>3, <1>5, <1>8 DEF Meet
      <3>2. apart(w)
        BY <2>2, <3>1, <1>3, <1>8 DEF OnKey, first
      <3> QED BY <2>2, <3>2, <1>3, <1>5, <1>8
    <2>3. CASE w = t
      <3>1. op[u] # Idle /\ (op[u].key = o.key \/ op[u].kind = "clear" \/ o.kind = "clear")
        BY <2>3, <1>3, <1>5, <1>8 DEF Meet
      <3>2. apart(u)
        BY <2>3, <3>1, <1>4, <1>8 DEF OnKey
      <3> QED BY <2>3, <3>2, <1>3, <1>5, <1>8
    <2> QED BY <2>1, <2>2, <2>3
  <1>9. AloneSound'
    BY <1>8 DEF AloneSound
  <1>10. \E b \in BOOLEAN : op'[t] = [o EXCEPT !.alone = b]
    BY <1>1, <1>3
  <1> HIDE DEF first
  <1> QED BY <1>4, <1>6, <1>7, <1>9, <1>10

(* The step of a call on key k touches nothing else: what has to be shown is  *)
(* what it makes of k and of itself.                                          *)
Like(p, o) == /\ p.kind = o.kind /\ p.key = o.key /\ p.at = o.at /\ p.served = o.served
              /\ p.value = o.value /\ p.rest = o.rest /\ (p.alone => o.alone)
              /\ o = Idle => p = Idle
OfKey(o, k) == o.key = k /\ o.kind # "clear" /\ o # Idle

LEMMA KeyStep ==
  ASSUME CacheInv, NEW t \in Tasks, NEW k \in Keys,
         CacheTyped', AloneSound', MemoryFresh',
         \A u \in Tasks : Shaped(op'[u]),
         \/ OfKey(op[t], k) /\ (op'[t] = Idle \/ OfKey(op'[t], k))
         \/ op[t] = Idle /\ OfKey(op'[t], k),
         \A u \in Tasks \ {t} : Like(op'[u], op[u]),
         \A e \in Entries(memory') : e.key # k => e \in Entries(memory),
         \A j \in Keys \ {k} : redis'[j] = redis[j] /\ disk'[j] = disk[j] /\ last'[j] = last[j],
         KeyOK(k)', \A u \in Tasks : CallKnows(u, k)',
         FreshCall(op'[t]), HalfWritten(t)'
  PROVE  CacheInv'
  <1>1. ASSUME NEW j \in Keys PROVE KeyOK(j)'
    <2>1. CASE j # k
      BY <2>1 DEF CacheInv, KeyOK
    <2> QED BY <2>1
  <1>2. ASSUME NEW u \in Tasks \ {t} PROVE FreshCall(op'[u])
    BY DEF CacheInv, FreshCall, Like
  <1>3. ASSUME NEW u \in Tasks \ {t}, op'[u].alone, op'[u].kind # "get"
        PROVE  (op'[u].key # k /\ op'[u].kind # "clear") \/ op'[u] = Idle
    <2>1. CASE op[t] # Idle
      <3>1. op[u].alone /\ op[u].kind # "get" /\ (op[u] = Idle => op'[u] = Idle)
            /\ op[u].key = op'[u].key /\ op[u].kind = op'[u].kind
        BY <1>3 DEF Like
      <3>2. ~Meet(op[u], op[t])
        BY <3>1 DEF CacheInv, AloneSound
      <3> QED BY <2>1, <3>1, <3>2 DEF Meet, OfKey
    <2>2. CASE op'[t] # Idle
      <3>1. ~Meet(op'[u], op'[t])
        BY <1>3 DEF AloneSound
      <3> QED BY <2>2, <3>1 DEF Meet, OfKey
    <2> QED BY <2>1, <2>2 DEF OfKey
  <1>4. ASSUME NEW u \in Tasks \ {t} PROVE HalfWritten(u)'
    <2> SUFFICES ASSUME op'[u].alone, op'[u].at = "store"
                 PROVE  /\ \A e \in Entries(memory') :
                             e.key = op'[u].key => e.value = op'[u].value
                        /\ op'[u].served => redis'[op'[u].key].value \in {op'[u].value, None}
      BY DEF HalfWritten
    <2>1. op'[u].kind # "get" /\ op'[u] # Idle /\ op'[u].key \in Keys
      BY DEF Shaped, Idle
    <2>2. op'[u].key \in Keys \ {k}
      BY <2>1, <1>3
    <2>3. HalfWritten(u)
      BY DEF CacheInv
    <2>4. op[u].alone /\ op[u].at = "store" /\ op[u].key = op'[u].key
          /\ op[u].value = op'[u].value /\ op[u].served = op'[u].served
      BY DEF Like
    <2> QED BY <2>2, <2>3, <2>4 DEF HalfWritten
  <1>5. ASSUME NEW u \in Tasks, NEW j \in Keys PROVE HalfCleared(u, j)'
    <2> SUFFICES ASSUME op'[u].alone, op'[u].kind = "clear"
                 PROVE  FALSE
      BY DEF HalfCleared
    <2>1. u # t
      BY DEF OfKey, Idle
    <2> QED BY <2>1, <1>3 DEF Idle
  <1>6. ASSUME NEW u \in Tasks, NEW j \in Keys PROVE CallKnows(u, j)'
    <2>1. CASE j # k /\ u # t
      <3>1. CallKnows(u, j) /\ Like(op'[u], op[u]) /\ last'[j] = last[j]
        BY <2>1 DEF CacheInv
      <3> QED BY <3>1 DEF CallKnows, Knows, Like
    <2>2. CASE j # k /\ u = t
      <3>1. op'[t].kind # "clear" /\ op'[t].key # j
        BY <2>2, CacheAssumption DEF OfKey, Idle
      <3> QED BY <2>2, <3>1 DEF CallKnows, Knows
    <2> QED BY <2>1, <2>2
  <1> QED BY <1>1, <1>2, <1>4, <1>5, <1>6 DEF CacheInv

(* A call on key k that goes on as, or ends with, o.                          *)
LEMMA CallStep ==
  ASSUME CacheInv, NEW t \in Tasks, NEW k \in Keys, OfKey(op[t], k),
         NEW o \in CacheCall, Becomes(t, o), Shaped(o), FreshCall(o),
         o = Idle \/ (o.kind = op[t].kind /\ o.key = k /\ (o.alone => op[t].alone)),
         MemoryOK(memory'), MemoryFresh',
         redis' \in [Keys -> Entry \cup {Missing}], disk' \in [Keys -> Entry \cup {Missing}],
         last' \in [Keys -> CacheKnown],
         \A e \in Entries(memory') : e.key # k => e \in Entries(memory),
         \A j \in Keys \ {k} : redis'[j] = redis[j] /\ disk'[j] = disk[j] /\ last'[j] = last[j],
         KeyOK(k)', Knows(o, k, last'[k]),
         last'[k] \in {last[k], Unknown} \/ \A u \in Tasks \ {t} : Knows(op[u], k, last'[k]),
         o.alone /\ o.at = "store" =>
           /\ \A e \in Entries(memory') : e.key = k => e.value = o.value
           /\ o.served => redis'[k].value \in {o.value, None}
  PROVE  CacheInv'
  <1>1. op[t].key = k /\ op[t] # Idle /\ op \in [Tasks -> CacheCall] /\ AloneSound
        /\ \A u \in Tasks : Shaped(op[u])
    BY DEF OfKey, CacheInv, CacheTyped
  <1>2. /\ op' \in [Tasks -> CacheCall] /\ (\A u \in Tasks : Shaped(op'[u])) /\ AloneSound'
        /\ op'[t] = o /\ \A u \in Tasks \ {t} : op'[u] = op[u]
    BY <1>1, GoesOn
  <1>3. CacheTyped'
    BY <1>2 DEF CacheTyped
  <1>4. op'[t] = Idle \/ OfKey(op'[t], k)
    BY <1>2 DEF OfKey, Shaped, Idle
  <1>5. \A u \in Tasks \ {t} : Like(op'[u], op[u])
    BY <1>2 DEF Like
  <1>6. ASSUME NEW u \in Tasks PROVE CallKnows(u, k)'
    <2>1. u # t => Knows(op[u], k, last[k])
      BY DEF CacheInv, CallKnows
    <2>2. u # t => Knows(op[u], k, last'[k])
      BY <2>1 DEF Knows
    <2> QED BY <2>2, <1>2 DEF CallKnows
  <1>7. HalfWritten(t)'
    <2>1. o.at = "store" => o.key = k
      BY DEF Idle
    <2> QED BY <1>2, <2>1 DEF HalfWritten
  <1> QED BY <1>2, <1>3, <1>4, <1>5, <1>6, <1>7, KeyStep

(* What the invariant says of a call that is under way.                       *)
LEMMA UnderWay ==
  ASSUME CacheInv, NEW t \in Tasks, op[t].at \in InCache \cup {"loading", "store"}
  PROVE  \E o \in CacheCall, k \in Keys :
           /\ o = op[t] /\ o.key = k /\ OfKey(o, k)
           /\ Shaped(o) /\ FreshCall(o) /\ HalfWritten(t)
           /\ KeyOK(k) /\ Knows(o, k, last[k])
  <1>1. op[t] \in CacheCall /\ op[t].key \in Keys /\ OfKey(op[t], op[t].key)
        /\ Shaped(op[t]) /\ FreshCall(op[t]) /\ HalfWritten(t)
    BY DEF CacheInv, CacheTyped, Shaped, OfKey, InCache, Idle
  <1> QED BY <1>1 DEF CacheInv, CallKnows

LEMMA RedisHitKeeps ==
  ASSUME CacheInv, NEW t \in Tasks, RedisHit(t)
  PROVE  CacheInv'
  <1>1. op[t].at = "lookup"
    BY DEF RedisHit
  <1>2. PICK o \in CacheCall, k \in Keys :
           /\ o = op[t] /\ o.key = k /\ OfKey(o, k)
           /\ Shaped(o) /\ FreshCall(o) /\ HalfWritten(t)
           /\ KeyOK(k) /\ Knows(o, k, last[k])
    BY <1>1, UnderWay DEF InCache
  <1> DEFINE p == Gives(o, o.value, o.rest)
  <1>3. /\ o.at = "lookup" /\ o.value # None /\ Becomes(t, p)
        /\ memory' \in MemorySets(memory, k, o.value, DefaultTTL, o.rest)
        /\ redis' = redis /\ disk' = disk /\ last' = last
    BY <1>2 DEF RedisHit
  <1>4. /\ p \in CacheCall /\ p.kind = o.kind /\ p.key = k /\ p.at = "returned" /\ p.value = o.value
        /\ p.rest = o.rest /\ p.alone = o.alone /\ o.rest <= RedisBound
        /\ o.rest \in 0..(StaleBound + 1) /\ o.value \in Values \cup {None}
    BY <1>2, <1>3 DEF Gives, CacheCall, FreshCall
  <1>5. Shaped(p) /\ FreshCall(p)
    BY <1>2, <1>3, <1>4, Bounds DEF Shaped, FreshCall, InCache, Idle, CacheCall
  <1> HIDE DEF p
  <1>6. CacheTyped
    BY DEF CacheInv
  <1>7. /\ MemoryOK(memory')
        /\ \A e \in Entries(memory') :
             \/ e = [key |-> k, value |-> o.value, left |-> DefaultTTL, rest |-> o.rest]
             \/ e \in Entries(memory) /\ e.key # k
    BY <1>3, <1>4, <1>6, CacheAssumption, SetMemory DEF CacheTyped
  <1>8. MemoryFresh'
    BY <1>4, <1>7, Bounds DEF CacheInv, MemoryFresh, Within
  <1>9. KeyOK(k)'
    <2>1. o.key = k /\ op[t].value = o.value
      BY <1>2
    <2>2. last[k] # Unknown => o.value = last[k].value
      BY <1>2, <1>3 DEF Knows
    <2> QED BY <1>2, <1>3, <1>7, <2>2 DEF KeyOK
  <1>10. Knows(p, k, last'[k])
    BY <1>2, <1>3, <1>4 DEF Knows, OfKey
  <1> QED BY <1>2, <1>3, <1>4, <1>5, <1>6, <1>7, <1>8, <1>9, <1>10, CallStep DEF CacheTyped

LEMMA DiskHitKeeps ==
  ASSUME CacheInv, NEW t \in Tasks, DiskHit(t)
  PROVE  CacheInv'
  <1>1. op[t].at = "lookup"
    BY DEF DiskHit
  <1>2. PICK o \in CacheCall, k \in Keys :
           /\ o = op[t] /\ o.key = k /\ OfKey(o, k)
           /\ Shaped(o) /\ FreshCall(o) /\ HalfWritten(t)
           /\ KeyOK(k) /\ Knows(o, k, last[k])
    BY <1>1, UnderWay DEF InCache
  <1>3. PICK e : e = disk[k]
    OBVIOUS
  <1> DEFINE p == At([o EXCEPT !.value = e.value, !.rest = e.rest], "promote")
  <1>4. /\ o.at = "lookup" /\ e.left >= 0 /\ Becomes(t, p)
        /\ memory' \in MemorySets(memory, k, e.value, DefaultTTL, e.rest)
        /\ redis' = redis /\ disk' = disk /\ last' = last
    BY <1>2, <1>3 DEF DiskHit, Live
  <1>5. CacheTyped
    BY DEF CacheInv
  <1>6. /\ e \in Entry /\ e.value \in Values /\ e.rest \in 0..(StaleBound + 1)
        /\ e.left \in Nat /\ e.value # None
    BY <1>3, <1>4, <1>5, CacheAssumption DEF CacheTyped, Missing, Entry
  <1>7. e.rest <= DefaultTTL /\ e.rest \in Nat
    BY <1>2, <1>3, <1>6, Bounds DEF KeyOK, Within
  <1>8. /\ p \in CacheCall /\ p.kind = o.kind /\ p.key = k /\ p.at = "promote" /\ p.value = e.value
        /\ p.rest = e.rest /\ p.alone = o.alone
    BY <1>2, <1>6 DEF At, CacheCall
  <1>9. Shaped(p) /\ FreshCall(p)
    BY <1>2, <1>4, <1>6, <1>7, <1>8 DEF Shaped, FreshCall, InCache, Idle, CacheCall
  <1> HIDE DEF p
  <1>10. /\ MemoryOK(memory')
         /\ \A d \in Entries(memory') :
             \/ d = [key |-> k, value |-> e.value, left |-> DefaultTTL, rest |-> e.rest]
             \/ d \in Entries(memory) /\ d.key # k
    BY <1>4, <1>5, <1>6, CacheAssumption, SetMemory DEF CacheTyped
  <1>11. MemoryFresh'
    BY <1>7, <1>10, Bounds DEF CacheInv, MemoryFresh, Within
  <1>12. last[k] # Unknown => e.value = last[k].value
    BY <1>2, <1>3, <1>6 DEF KeyOK
  <1>13. KeyOK(k)'
    BY <1>2, <1>4, <1>10, <1>12 DEF KeyOK
  <1>14. Knows(p, k, last'[k])
    BY <1>2, <1>4, <1>8, <1>12 DEF Knows, OfKey
  <1> QED BY <1>2, <1>4, <1>5, <1>8, <1>9, <1>10, <1>11, <1>13, <1>14, CallStep DEF CacheTyped

LEMMA MissEverywhereKeeps ==
  ASSUME CacheInv, NEW t \in Tasks, MissEverywhere(t)
  PROVE  CacheInv'
  <1>1. op[t].at = "lookup"
    BY DEF MissEverywhere
  <1>2. PICK o \in CacheCall, k \in Keys :
           /\ o = op[t] /\ o.key = k /\ OfKey(o, k)
           /\ Shaped(o) /\ FreshCall(o) /\ HalfWritten(t)
           /\ KeyOK(k) /\ Knows(o, k, last[k])
    BY <1>1, UnderWay DEF InCache
  <1>3. /\ o.at = "lookup" /\ o.value = None
        /\ memory' = memory /\ redis' = redis /\ last' = last
    BY <1>2 DEF MissEverywhere
  <1>4. CacheTyped /\ MemoryFresh /\ MemoryOK(memory)
    BY DEF CacheInv, CacheTyped
  <1> DEFINE next == IF o.kind = "get" THEN "returned" ELSE "loading"
  <1>5. PICK p : /\ Becomes(t, p)
                 /\ \/ ~Live(disk[k]) /\ disk' = [disk EXCEPT ![k] = Missing] /\ p = At(o, next)
                    \/ Live(disk[k]) /\ disk' = disk
                       /\ p = At([o EXCEPT !.alone = FALSE], next)
    BY <1>2 DEF MissEverywhere
  <1>6. /\ p \in CacheCall /\ p.kind = o.kind /\ p.key = k /\ p.at = next /\ p.value = None
        /\ p.rest = o.rest /\ (p.alone => o.alone /\ ~Live(disk[k])) /\ ~p.served
    <2>1. next \in {"returned", "loading"}
      OBVIOUS
    <2> HIDE DEF next
    <2>2. CASE ~Live(disk[k]) /\ p = At(o, next)
      BY <2>1, <2>2, <1>2, <1>3 DEF At, CacheCall
    <2>3. CASE p = At([o EXCEPT !.alone = FALSE], next)
      <3>1. PICK q : q = [o EXCEPT !.alone = FALSE]
        OBVIOUS
      <3>2. /\ q \in CacheCall /\ q.kind = o.kind /\ q.key = k /\ q.value = None
            /\ q.rest = o.rest /\ ~q.alone
        BY <3>1, <1>2, <1>3 DEF CacheCall
      <3> QED BY <2>1, <2>3, <3>1, <3>2 DEF At, CacheCall
    <2> QED BY <2>2, <2>3, <1>5
  <1>7. Shaped(p) /\ FreshCall(p)
    BY <1>2, <1>3, <1>6, Bounds DEF Shaped, FreshCall, InCache, Idle, CacheCall
  <1>8. /\ disk' \in [Keys -> Entry \cup {Missing}]
        /\ \A j \in Keys \ {k} : disk'[j] = disk[j]
        /\ disk'[k] = disk[k] \/ (~Live(disk[k]) /\ disk'[k] = Missing)
    BY <1>4, <1>5 DEF CacheTyped
  <1>9. last[k] # Unknown /\ last[k].value # None /\ last[k].age <= DefaultTTL => Live(disk[k])
    <2>1. last[k].age \in Int /\ DefaultTTL \in Int
      BY <1>4, Bounds DEF CacheTyped, CacheKnown
    <2> QED BY <2>1, <1>2 DEF KeyOK, Live
  <1>10. KeyOK(k)'
    BY <1>2, <1>3, <1>8, <1>9 DEF KeyOK, Missing, Within
  <1>11. Knows(p, k, last'[k])
    <2>1. last[k].age \in Int /\ DefaultTTL \in Int
      BY <1>4, Bounds DEF CacheTyped, CacheKnown
    <2> QED BY <2>1, <1>2, <1>3, <1>6, <1>9 DEF Knows, OfKey
  <1> QED BY <1>2, <1>3, <1>4, <1>5, <1>6, <1>7, <1>8, <1>10, <1>11, CallStep DEF CacheTyped, MemoryFresh

LEMMA PromotedKeeps ==
  ASSUME CacheInv, NEW t \in Tasks, Promoted(t)
  PROVE  CacheInv'
  <1>1. op[t].at = "promote"
    BY DEF Promoted
  <1>2. PICK o \in CacheCall, k \in Keys :
           /\ o = op[t] /\ o.key = k /\ OfKey(o, k)
           /\ Shaped(o) /\ FreshCall(o) /\ HalfWritten(t)
           /\ KeyOK(k) /\ Knows(o, k, last[k])
    BY <1>1, UnderWay DEF InCache
  <1> DEFINE p == At(o, "returned")
  <1>3. /\ o.at = "promote" /\ Becomes(t, p)
        /\ memory' = memory /\ redis' = redis /\ disk' = disk /\ last' = last
    BY <1>2 DEF Promoted
  <1>4. CacheTyped /\ MemoryFresh /\ MemoryOK(memory)
    BY DEF CacheInv, CacheTyped
  <1>5. /\ p \in CacheCall /\ p.kind = o.kind /\ p.key = k /\ p.at = "returned" /\ p.value = o.value
        /\ p.rest = o.rest /\ p.alone = o.alone
    BY <1>2 DEF At, CacheCall
  <1>6. Shaped(p) /\ FreshCall(p)
    BY <1>2, <1>3, <1>5, Bounds DEF Shaped, FreshCall, InCache, Idle, CacheCall
  <1> HIDE DEF p
  <1>7. KeyOK(k)'
    BY <1>2, <1>3 DEF KeyOK
  <1>8. Knows(p, k, last'[k])
    BY <1>2, <1>3, <1>5 DEF Knows, OfKey, Shaped
  <1> QED BY <1>2, <1>3, <1>4, <1>5, <1>6, <1>7, <1>8, CallStep DEF CacheTyped, MemoryFresh

(* A call that returns or is cancelled.                                       *)
LEMMA EndKeeps ==
  ASSUME CacheInv, NEW t \in Tasks, Becomes(t, Idle), UNCHANGED <<memory, redis, disk, last>>
  PROVE  CacheInv'
  <1>1. op \in [Tasks -> CacheCall] /\ AloneSound /\ \A u \in Tasks : Shaped(op[u])
    BY DEF CacheInv, CacheTyped
  <1>2. /\ op' \in [Tasks -> CacheCall] /\ (\A u \in Tasks : Shaped(op'[u])) /\ AloneSound'
        /\ op'[t] = Idle /\ \A u \in Tasks \ {t} : op'[u] = op[u]
    BY <1>1, IdleCall, GoesOn
  <1>3. CacheTyped' /\ MemoryFresh'
    BY <1>2 DEF CacheInv, CacheTyped, MemoryFresh
  <1>4. \A k \in Keys : KeyOK(k)'
    BY DEF CacheInv, KeyOK
  <1>5. ASSUME NEW u \in Tasks, NEW k \in Keys
        PROVE  CallKnows(u, k)' /\ HalfCleared(u, k)'
    <2>1. CASE u # t
      BY <2>1, <1>2 DEF CacheInv, HalfCleared, CallKnows
    <2>2. CASE u = t
      <3>1. /\ op'[t].at = "out" /\ op'[t].kind = "idle" /\ op'[t].key = None /\ ~op'[t].alone
            /\ None \notin Keys
        BY <1>2, CacheAssumption DEF Idle
      <3> QED BY <2>2, <3>1 DEF HalfCleared, CallKnows, Knows
    <2> QED BY <2>1, <2>2
  <1>6. ASSUME NEW u \in Tasks
        PROVE  FreshCall(op'[u]) /\ HalfWritten(u)'
    <2>1. CASE u # t
      BY <2>1, <1>2 DEF CacheInv, HalfWritten
    <2>2. CASE u = t
      <3>1. op'[t].at = "out"
        BY <1>2 DEF Idle
      <3> QED BY <2>2, <3>1 DEF FreshCall, HalfWritten
    <2> QED BY <2>1, <2>2
  <1> QED BY <1>2, <1>3, <1>4, <1>5, <1>6 DEF CacheInv

LEMMA LoaderGivesKeeps ==
  ASSUME CacheInv, NEW t \in Tasks, LoaderGives(t)
  PROVE  CacheInv'
  <1>1. op[t].at = "loading"
    BY DEF LoaderGives
  <1>2. PICK o \in CacheCall, k \in Keys :
           /\ o = op[t] /\ o.key = k /\ OfKey(o, k)
           /\ Shaped(o) /\ FreshCall(o) /\ HalfWritten(t)
           /\ KeyOK(k) /\ Knows(o, k, last[k])
    BY <1>1, UnderWay DEF InCache
  <1>3. PICK v \in Values, ttl \in TTLs :
           /\ Write(k, v, ttl)
           /\ Becomes(t, [o EXCEPT !.at = "store", !.value = v, !.ttl = ttl])
    BY <1>2 DEF LoaderGives
  <1> DEFINE p == [o EXCEPT !.at = "store", !.value = v, !.ttl = ttl]
  <1>4. /\ o.at = "loading" /\ Becomes(t, p) /\ v # None
        /\ memory' \in MemorySets(memory, k, v, ttl, 0)
        /\ last' = [last EXCEPT ![k] = Unknown] /\ redis' = redis /\ disk' = disk
    <2>1. v # None
      BY CacheAssumption
    <2>2. o.at = "loading"
      BY <1>1, <1>2
    <2> QED BY <2>1, <2>2, <1>3 DEF Write
  <1>5. CacheTyped /\ MemoryFresh /\ MemoryOK(memory)
    BY DEF CacheInv, CacheTyped
  <1>6. /\ p \in CacheCall /\ p.kind = o.kind /\ p.key = k /\ p.at = "store" /\ p.value = v
        /\ p.rest = o.rest /\ p.alone = o.alone /\ p.served = o.served /\ ~o.served
    BY <1>2, <1>4 DEF CacheCall, Shaped
  <1>7. Shaped(p) /\ FreshCall(p)
    BY <1>2, <1>4, <1>6 DEF Shaped, FreshCall, InCache, Idle, CacheCall
  <1> HIDE DEF p
  <1>8. /\ MemoryOK(memory')
        /\ \A e \in Entries(memory') :
             \/ e = [key |-> k, value |-> v, left |-> ttl, rest |-> 0]
             \/ e \in Entries(memory) /\ e.key # k
    <2>1. 0 \in 0..(StaleBound + 1)
      BY Bounds
    <2> QED BY <2>1, <1>4, <1>5, SetMemory
  <1>9. MemoryFresh'
    BY <1>5, <1>8, Bounds DEF MemoryFresh, Within
  <1>10. last' \in [Keys -> CacheKnown] /\ last'[k] = Unknown
         /\ \A j \in Keys \ {k} : last'[j] = last[j]
    <2>1. Unknown \in CacheKnown
      BY Bounds DEF Unknown, CacheKnown
    <2> QED BY <2>1, <1>4, <1>5 DEF CacheTyped
  <1>11. KeyOK(k)'
    BY <1>2, <1>4, <1>10 DEF KeyOK
  <1>12. Knows(p, k, last'[k])
    BY <1>2, <1>6, <1>10 DEF Knows
  <1> QED BY <1>2, <1>4, <1>5, <1>6, <1>7, <1>8, <1>9, <1>10, <1>11, <1>12, CallStep DEF CacheTyped

LEMMA WriteDiskKeeps ==
  ASSUME CacheInv, NEW t \in Tasks, WriteDisk(t)
  PROVE  CacheInv'
  <1>1. op[t].at = "store"
    BY DEF WriteDisk
  <1>2. PICK o \in CacheCall, k \in Keys :
           /\ o = op[t] /\ o.key = k /\ OfKey(o, k)
           /\ Shaped(o) /\ FreshCall(o) /\ HalfWritten(t)
           /\ KeyOK(k) /\ Knows(o, k, last[k])
    BY <1>1, UnderWay DEF InCache
  <1>3. /\ o.at = "store" /\ o.served /\ Becomes(t, Idle)
        /\ disk' = Filed(k, o.value)
        /\ last' = IF o.alone THEN [last EXCEPT ![k] = [value |-> o.value, age |-> 0]]
                   ELSE last
        /\ memory' = memory /\ redis' = redis
    BY <1>2 DEF WriteDisk
  <1>4. CacheTyped /\ MemoryFresh /\ MemoryOK(memory)
    BY DEF CacheInv, CacheTyped
  <1>5. o.value \in Values \cup {None} /\ last[k] = Unknown
    BY <1>2, <1>3 DEF CacheCall, Knows
  <1>6. /\ disk' \in [Keys -> Entry \cup {Missing}]
        /\ \A j \in Keys \ {k} : disk'[j] = disk[j]
        /\ o.value # None => disk'[k] = [value |-> o.value, left |-> DefaultTTL, rest |-> 0]
        /\ o.value = None => disk'[k] = Missing
    <2>1. o.value # None => [value |-> o.value, left |-> DefaultTTL, rest |-> 0] \in Entry
      BY <1>5, Bounds DEF Entry
    <2> QED BY <2>1, <1>3, <1>4 DEF Filed, Stored, CacheTyped
  <1>7. Within(disk[k]', DefaultTTL)
    BY <1>6, Bounds DEF Within, Missing
  <1>8. CASE o.alone
    <2>1. /\ last' \in [Keys -> CacheKnown] /\ last'[k] = [value |-> o.value, age |-> 0]
          /\ \A j \in Keys \ {k} : last'[j] = last[j]
      <3>1. [value |-> o.value, age |-> 0] \in CacheKnown
        BY <1>5, Bounds DEF CacheKnown
      <3> QED BY <3>1, <1>3, <1>4, <1>8 DEF CacheTyped
    <2>2. /\ \A e \in Entries(memory) : e.key = k => e.value = o.value
          /\ redis[k].value \in {o.value, None}
      BY <1>2, <1>3, <1>8 DEF HalfWritten
    <2>3. o.value # None => disk'[k].value = o.value /\ disk'[k].left = DefaultTTL - 0
      BY <1>6, Bounds
    <2>4. disk'[k].value \in {o.value, None}
      BY <1>6 DEF Missing
    <2>5. last'[k].value = o.value /\ last'[k].age = 0
      BY <2>1
    <2>6. KeyOK(k)'
      BY <1>2, <1>3, <1>7, <2>2, <2>3, <2>4, <2>5 DEF KeyOK
    <2>7. ASSUME NEW u \in Tasks \ {t} PROVE Knows(op[u], k, last'[k])
      <3>1. ~Meet(op[t], op[u])
        BY <1>2, <1>3, <1>8 DEF CacheInv, AloneSound, Shaped
      <3>2. op[u] = Idle \/ (op[u].key # k /\ op[u].kind # "clear")
        BY <3>1, <1>2 DEF Meet, OfKey
      <3>3. op[u].key # k /\ op[u].kind # "clear"
        BY <3>2, CacheAssumption DEF Idle
      <3> QED BY <3>3 DEF Knows
    <2>8. Knows(Idle, k, last'[k])
      BY CacheAssumption DEF Knows, Idle
    <2>9. FreshCall(Idle) /\ Idle.at # "store"
      BY DEF FreshCall, Idle
    <2> QED BY <1>2, <1>3, <1>4, <1>6, <2>1, <2>6, <2>7, <2>8, <2>9, IdleCall, CallStep
            DEF CacheTyped, MemoryFresh
  <1>9. CASE ~o.alone
    <2>1. last' = last
      BY <1>3, <1>9
    <2>2. KeyOK(k)'
      BY <1>2, <1>3, <1>5, <1>7, <2>1 DEF KeyOK
    <2>3. Knows(Idle, k, last'[k])
      BY CacheAssumption DEF Knows, Idle
    <2>4. FreshCall(Idle) /\ Idle.at # "store"
      BY DEF FreshCall, Idle
    <2> QED BY <1>2, <1>3, <1>4, <1>6, <2>1, <2>2, <2>3, <2>4, IdleCall, CallStep
            DEF CacheTyped, MemoryFresh
  <1> QED BY <1>8, <1>9

LEMMA WriteDiskFailsKeeps ==
  ASSUME CacheInv, NEW t \in Tasks, WriteDiskFails(t)
  PROVE  CacheInv'
  <1>1. op[t].at = "store"
    BY DEF WriteDiskFails
  <1>2. PICK o \in CacheCall, k \in Keys :
           /\ o = op[t] /\ o.key = k /\ OfKey(o, k)
           /\ Shaped(o) /\ FreshCall(o) /\ HalfWritten(t)
           /\ KeyOK(k) /\ Knows(o, k, last[k])
    BY <1>1, UnderWay DEF InCache
  <1>3. /\ o.at = "store" /\ Becomes(t, Idle)
        /\ disk' = disk \/ disk' = [disk EXCEPT ![k] = Missing]
        /\ memory' = memory /\ redis' = redis /\ last' = last
    BY <1>2 DEF WriteDiskFails
  <1>4. CacheTyped /\ MemoryFresh /\ MemoryOK(memory)
    BY DEF CacheInv, CacheTyped
  <1>5. /\ disk' \in [Keys -> Entry \cup {Missing}]
        /\ \A j \in Keys \ {k} : disk'[j] = disk[j]
        /\ disk'[k] \in {disk[k], Missing}
    BY <1>3, <1>4 DEF CacheTyped
  <1>6. last[k] = Unknown
    BY <1>2, <1>3 DEF Knows
  <1>7. KeyOK(k)'
    BY <1>2, <1>3, <1>5, <1>6 DEF KeyOK, Within, Missing
  <1>8. Knows(Idle, k, last'[k])
    BY CacheAssumption DEF Knows, Idle
  <1>9. FreshCall(Idle) /\ Idle.at # "store"
    BY DEF FreshCall, Idle
  <1> QED BY <1>2, <1>3, <1>4, <1>5, <1>7, <1>8, <1>9, IdleCall, CallStep
          DEF CacheTyped, MemoryFresh

LEMMA ServeLookupKeeps ==
  ASSUME CacheInv, NEW t \in Tasks, ServeLookup(t)
  PROVE  CacheInv'
  <1>1. op[t].at = "lookup"
    BY DEF ServeLookup
  <1>2. PICK o \in CacheCall, k \in Keys :
           /\ o = op[t] /\ o.key = k /\ OfKey(o, k)
           /\ Shaped(o) /\ FreshCall(o) /\ HalfWritten(t)
           /\ KeyOK(k) /\ Knows(o, k, last[k])
    BY <1>1, UnderWay DEF InCache
  <1>3. PICK e : e = redis[k]
    OBVIOUS
  <1> DEFINE p == [o EXCEPT !.served = TRUE, !.value = e.value, !.rest = e.rest]
  <1>4. /\ o.at = "lookup" /\ Becomes(t, p)
        /\ memory' = memory /\ redis' = redis /\ disk' = disk /\ last' = last
    <2>1. Becomes(t, [Answer(t) EXCEPT !.value = e.value, !.rest = e.rest])
      BY <1>2, <1>3 DEF ServeLookup
    <2>2. [Answer(t) EXCEPT !.value = e.value, !.rest = e.rest] = p
      BY <1>2 DEF Answer, CacheCall
    <2> QED BY <1>1, <1>2, <2>1, <2>2 DEF ServeLookup
  <1>5. CacheTyped /\ MemoryFresh /\ MemoryOK(memory)
    BY DEF CacheInv, CacheTyped
  <1>6. /\ e.value \in Values \cup {None} /\ e.rest \in 0..(StaleBound + 1)
        /\ e.rest <= RedisBound /\ (e.value = None => e.rest = 0)
    <2>1. CASE e = Missing
      BY <2>1, Bounds DEF Missing
    <2>2. CASE e # Missing
      <3>1. /\ e \in Entry /\ e.left >= 0
            /\ e.left >= 0 => e.rest + e.left <= RedisBound
        BY <2>2, <1>2, <1>3, <1>5 DEF CacheTyped, KeyOK, Within
      <3>2. /\ e.value \in Values /\ e.rest \in 0..(StaleBound + 1)
            /\ e.left \in -1..LongestTTL
        BY <3>1 DEF Entry
      <3>3. e.value # None
        BY <3>2, CacheAssumption
      <3> QED BY <3>1, <3>2, <3>3, Bounds
    <2> QED BY <2>1, <2>2
  <1>7. /\ p \in CacheCall /\ p.kind = o.kind /\ p.key = k /\ p.at = "lookup" /\ p.value = e.value
        /\ p.rest = e.rest /\ p.alone = o.alone
    BY <1>2, <1>4, <1>6 DEF CacheCall
  <1>8. Shaped(p) /\ FreshCall(p)
    BY <1>2, <1>4, <1>6, <1>7 DEF Shaped, FreshCall, InCache, Idle, CacheCall
  <1> HIDE DEF p
  <1>9. KeyOK(k)'
    BY <1>2, <1>4 DEF KeyOK
  <1>10. Knows(p, k, last'[k])
    BY <1>2, <1>3, <1>4, <1>7 DEF Knows, OfKey, KeyOK
  <1> QED BY <1>2, <1>4, <1>5, <1>7, <1>8, <1>9, <1>10, CallStep DEF CacheTyped, MemoryFresh

LEMMA ServePutKeeps ==
  ASSUME CacheInv, NEW t \in Tasks, ServePut(t)
  PROVE  CacheInv'
  <1>1. op[t].at \in {"promote", "store"}
    BY DEF ServePut
  <1>2. PICK o \in CacheCall, k \in Keys :
           /\ o = op[t] /\ o.key = k /\ OfKey(o, k)
           /\ Shaped(o) /\ FreshCall(o) /\ HalfWritten(t)
           /\ KeyOK(k) /\ Knows(o, k, last[k])
    BY <1>1, UnderWay DEF InCache
  <1>3. PICK ok \in BOOLEAN :
           Becomes(t, [Answer(t) EXCEPT !.alone = @ /\ (ok \/ op[t].at # "store")])
    BY DEF ServePut
  <1> DEFINE b == o.alone /\ (ok \/ o.at # "store")
             p == [o EXCEPT !.served = TRUE, !.alone = b]
  <1>4. Becomes(t, p)
    <2>1. [Answer(t) EXCEPT !.alone = @ /\ (ok \/ op[t].at # "store")] = p
      BY <1>2 DEF Answer, CacheCall
    <2> QED BY <1>3, <2>1
  <1>5. /\ o.at \in {"promote", "store"}
        /\ redis' = [redis EXCEPT ![k] = IF o.value = None THEN Missing
                                         ELSE Stored(o.value, PutTTL(o), o.rest)]
        /\ memory' = memory /\ disk' = disk /\ last' = last
    BY <1>2 DEF ServePut
  <1>6. CacheTyped /\ MemoryFresh /\ MemoryOK(memory)
    BY DEF CacheInv, CacheTyped
  <1>7. b \in BOOLEAN /\ (b => o.alone)
    OBVIOUS
  <1> HIDE DEF b
  <1>8. /\ p \in CacheCall /\ p.kind = o.kind /\ p.key = k /\ p.at = o.at /\ p.value = o.value
        /\ p.rest = o.rest /\ p.alone = b /\ p.served
    BY <1>2, <1>7 DEF CacheCall
  <1>9. Shaped(p) /\ FreshCall(p)
    BY <1>2, <1>5, <1>8 DEF Shaped, FreshCall, InCache, Idle, CacheCall
  <1> HIDE DEF p
  <1>10. /\ PutTTL(o) \in TTLs /\ o.rest + PutTTL(o) <= RedisBound
         /\ o.value \in Values \cup {None} /\ o.rest \in 0..(StaleBound + 1)
    <2>1. o.ttl \in TTLs /\ o.value \in Values \cup {None} /\ o.rest \in 0..(StaleBound + 1)
      BY DEF CacheCall
    <2>2. CASE o.at = "promote"
      <3>1. PutTTL(o) = DefaultTTL /\ o.rest <= DefaultTTL
        BY <2>2, <1>2 DEF PutTTL, FreshCall
      <3> QED BY <3>1, <2>1, Bounds, CacheAssumption
    <2>3. CASE o.at = "store"
      <3>1. PutTTL(o) = o.ttl /\ o.rest = 0
        BY <2>3, <1>2 DEF PutTTL, FreshCall
      <3>2. o.ttl \in Nat /\ o.ttl <= LongestTTL /\ LongestTTL \in Nat
            /\ LongestTTL <= RedisBound /\ RedisBound \in Nat
        BY <2>1, Bounds
      <3>3. o.rest + PutTTL(o) <= RedisBound
        BY <3>1, <3>2
      <3> QED BY <3>1, <3>3, <2>1
    <2> QED BY <2>2, <2>3, <1>5
  <1>11. /\ redis' \in [Keys -> Entry \cup {Missing}]
         /\ \A j \in Keys \ {k} : redis'[j] = redis[j]
         /\ redis'[k].value = o.value
         /\ Within(redis'[k], RedisBound)
         /\ redis'[k] # Missing => redis'[k].left >= 0
    <2>1. CASE o.value = None
      BY <2>1, <1>5, <1>6 DEF CacheTyped, Missing, Within
    <2>2. CASE o.value # None
      <3> DEFINE e == [value |-> o.value, left |-> PutTTL(o), rest |-> o.rest]
      <3>1. redis' = [redis EXCEPT ![k] = e]
        BY <2>2, <1>5 DEF Stored
      <3>2. e \in Entry /\ e.left \in Nat
        <4>1. PutTTL(o) \in Nat /\ PutTTL(o) \in -1..LongestTTL
          <5>1. PutTTL(o) \in Nat /\ PutTTL(o) <= LongestTTL /\ LongestTTL \in Nat
            BY <1>10, Bounds
          <5> QED BY <5>1
        <4>2. o.value \in Values
          BY <2>2, <1>10
        <4> QED BY <4>1, <4>2, <1>10 DEF Entry
      <3>3. e.value = o.value /\ e.rest + e.left <= RedisBound
        BY <1>10
      <3> HIDE DEF e
      <3>4. redis'[k] = e
        BY <3>1, <1>6 DEF CacheTyped
      <3> QED BY <3>1, <3>2, <3>3, <3>4, <1>6 DEF CacheTyped, Within
    <2> QED BY <2>1, <2>2
  <1>12. KeyOK(k)'
    BY <1>2, <1>5, <1>11 DEF KeyOK, Knows
  <1>13. Knows(p, k, last'[k])
    BY <1>2, <1>5, <1>8 DEF Knows, OfKey
  <1>14. p.alone /\ p.at = "store" =>
           /\ \A e \in Entries(memory') : e.key = k => e.value = p.value
           /\ p.served => redis'[k].value \in {p.value, None}
    BY <1>2, <1>5, <1>7, <1>8, <1>11 DEF HalfWritten
  <1> QED BY <1>2, <1>4, <1>5, <1>6, <1>7, <1>8, <1>9, <1>11, <1>12, <1>13, <1>14, CallStep
          DEF CacheTyped, MemoryFresh

LEMMA RedisFailsKeeps ==
  ASSUME CacheInv, NEW t \in Tasks, RedisFails(t)
  PROVE  CacheInv'
  <1>1. op[t].at \in {"lookup", "promote", "store"}
    BY DEF RedisFails
  <1>2. PICK o \in CacheCall, k \in Keys :
           /\ o = op[t] /\ o.key = k /\ OfKey(o, k)
           /\ Shaped(o) /\ FreshCall(o) /\ HalfWritten(t)
           /\ KeyOK(k) /\ Knows(o, k, last[k])
    BY <1>1, UnderWay DEF InCache
  <1> DEFINE b == o.alone /\ o.at # "store"
             p == [o EXCEPT !.served = TRUE, !.alone = b]
  <1>3. Becomes(t, p)
    <2>1. Becomes(t, [Answer(t) EXCEPT !.alone = @ /\ op[t].at # "store"])
      BY DEF RedisFails
    <2>2. [Answer(t) EXCEPT !.alone = @ /\ op[t].at # "store"] = p
      BY <1>2 DEF Answer, CacheCall
    <2> QED BY <2>1, <2>2
  <1>4. /\ o.at \in {"lookup", "promote", "store"}
        /\ redis' = redis /\ memory' = memory /\ disk' = disk /\ last' = last
    BY <1>2 DEF RedisFails
  <1>5. CacheTyped /\ MemoryFresh /\ MemoryOK(memory)
    BY DEF CacheInv, CacheTyped
  <1>6. b \in BOOLEAN /\ (b => o.alone /\ o.at # "store")
    OBVIOUS
  <1> HIDE DEF b
  <1>7. /\ p \in CacheCall /\ p.kind = o.kind /\ p.key = k /\ p.at = o.at /\ p.value = o.value
        /\ p.rest = o.rest /\ p.alone = b
    BY <1>2, <1>6 DEF CacheCall
  <1>8. Shaped(p) /\ FreshCall(p)
    BY <1>2, <1>4, <1>7 DEF Shaped, FreshCall, InCache, Idle, CacheCall
  <1> HIDE DEF p
  <1>9. KeyOK(k)'
    BY <1>2, <1>4 DEF KeyOK
  <1>10. Knows(p, k, last'[k])
    BY <1>2, <1>4, <1>7 DEF Knows, OfKey
  <1> QED BY <1>2, <1>3, <1>4, <1>5, <1>6, <1>7, <1>8, <1>9, <1>10, CallStep
          DEF CacheTyped, MemoryFresh

(* The start of a call on key k.                                              *)
LEMMA StartStep ==
  ASSUME CacheInv, NEW t \in Tasks, NEW k \in Keys, op[t] = Idle,
         NEW o \in CacheCall, Start(t, o), Shaped(o), FreshCall(o),
         o.key = k, o.kind # "clear", o.at # "out", ~o.served,
         MemoryOK(memory'), MemoryFresh', redis' = redis, disk' = disk,
         last' \in [Keys -> CacheKnown],
         \A e \in Entries(memory') : e.key # k => e \in Entries(memory),
         \A j \in Keys \ {k} : last'[j] = last[j],
         KeyOK(k)', last'[k] \in {last[k], Unknown},
         o.at = "store" => last'[k] = Unknown,
         last'[k] # Unknown => o.value \in {last[k].value, None},
         last'[k] # Unknown /\ o.at = "returned" => o.value = last[k].value,
         o.at = "store" => \A e \in Entries(memory') : e.key = k => e.value = o.value
  PROVE  CacheInv'
  <1>1. op \in [Tasks -> CacheCall] /\ AloneSound /\ \A u \in Tasks : Shaped(op[u])
    BY DEF CacheInv, CacheTyped
  <1>2. o.key # None
    BY CacheAssumption
  <1>3. /\ op' \in [Tasks -> CacheCall] /\ (\A u \in Tasks : Shaped(op'[u])) /\ AloneSound'
        /\ \E b \in BOOLEAN : op'[t] = [o EXCEPT !.alone = b]
        /\ \A u \in Tasks \ {t} :
              \E b \in BOOLEAN : op'[u] = [op[u] EXCEPT !.alone = b] /\ (b => op[u].alone)
    BY <1>1, <1>2, SetsOut
  <1>4. PICK p \in CacheCall : p = op'[t]
    BY <1>3
  <1>5. /\ p.kind = o.kind /\ p.key = k /\ p.at = o.at /\ p.served = o.served
        /\ p.value = o.value /\ p.rest = o.rest
    BY <1>3, <1>4 DEF CacheCall
  <1>6. OfKey(op'[t], k)
    BY <1>4, <1>5 DEF OfKey, Idle
  <1>7. ASSUME NEW u \in Tasks \ {t} PROVE Like(op'[u], op[u])
    <2>1. PICK b \in BOOLEAN : op'[u] = [op[u] EXCEPT !.alone = b] /\ (b => op[u].alone)
      BY <1>3
    <2>2. op[u] \in CacheCall
      BY <1>1
    <2>3. /\ op'[u].kind = op[u].kind /\ op'[u].key = op[u].key /\ op'[u].at = op[u].at
          /\ op'[u].served = op[u].served /\ op'[u].value = op[u].value
          /\ op'[u].rest = op[u].rest /\ op'[u].alone = b
      BY <2>1, <2>2 DEF CacheCall
    <2>4. op[u] = Idle => op'[u] = Idle
      BY <1>3, <2>3 DEF Shaped, Idle
    <2> QED BY <2>1, <2>3, <2>4 DEF Like
  <1>8. CacheTyped'
    BY <1>3 DEF CacheInv, CacheTyped
  <1>9. ASSUME NEW u \in Tasks PROVE CallKnows(u, k)'
    <2>1. CASE u = t
      BY <2>1, <1>4, <1>5 DEF CallKnows, Knows
    <2>2. CASE u # t
      <3>1. Knows(op[u], k, last[k]) /\ Like(op'[u], op[u])
        BY <2>2, <1>7 DEF CacheInv, CallKnows
      <3> QED BY <3>1 DEF CallKnows, Knows, Like
    <2> QED BY <2>1, <2>2
  <1>10. HalfWritten(t)'
    BY <1>4, <1>5 DEF HalfWritten
  <1>11. FreshCall(op'[t])
    BY <1>4, <1>5 DEF FreshCall
  <1> QED BY <1>3, <1>6, <1>7, <1>8, <1>9, <1>10, <1>11, KeyStep

LEMMA BeginGetKeeps ==
  ASSUME CacheInv, NEW t \in Tasks, BeginGet(t)
  PROVE  CacheInv'
  <1>1. PICK kind \in {"get", "load"}, k \in Keys :
           MemoryHit(t, kind, k) \/ MemoryMiss(t, kind, k)
    BY DEF BeginGet
  <1>2. op[t] = Idle /\ redis' = redis /\ disk' = disk /\ last' = last
    BY DEF BeginGet
  <1>3. CacheTyped /\ MemoryFresh /\ MemoryOK(memory) /\ KeyOK(k) /\ Idle \in CacheCall
    BY IdleCall DEF CacheInv, CacheTyped
  <1>4. /\ MemoryOK(Drop(memory, k))
        /\ \A e \in Entries(Drop(memory, k)) : e \in Entries(memory) /\ e.key # k
        /\ Holds(memory, k) => Len(Drop(memory, k)) < MaxSize
    BY <1>3, DropMemory
  <1>5. CASE MemoryHit(t, kind, k)
    <2>1. PICK e : e = EntryOf(memory, k)
      OBVIOUS
    <2>2. e \in Entries(memory) /\ e.key = k /\ e \in MemoryEntry
      <3>1. Holds(memory, k)
        BY <1>5 DEF MemoryHit
      <3>2. \E i \in DOMAIN memory : memory[i].key = k /\ e = memory[i]
        BY <2>1, <3>1 DEF Holds, EntryOf
      <3> QED BY <3>2, <1>3 DEF Entries, MemoryOK
    <2> DEFINE o == Gives([Idle EXCEPT !.kind = kind, !.key = k], e.value, e.rest)
    <2>3. /\ Holds(memory, k) /\ e.left >= 0
          /\ memory' = Append(Drop(memory, k), e) /\ Start(t, o)
      BY <1>5, <2>1 DEF MemoryHit, Live
    <2>4. /\ e.value \in Values \cup {None} /\ e.rest \in 0..(StaleBound + 1)
          /\ e.left \in -1..LongestTTL
      BY <2>2 DEF MemoryEntry
    <2>5. PICK i : i = [Idle EXCEPT !.kind = kind, !.key = k]
      OBVIOUS
    <2>6. i \in CacheCall /\ i.kind = kind /\ i.key = k
      BY <2>5, <1>3 DEF CacheCall
    <2>7. /\ o \in CacheCall /\ o.kind = kind /\ o.key = k /\ o.at = "returned" /\ ~o.served
          /\ o.value = e.value /\ o.rest = e.rest
      BY <2>4, <2>5, <2>6 DEF Gives, CacheCall
    <2> HIDE DEF o
    <2>8. e.rest <= StaleBound
      BY <2>2, <2>3, <2>4, <1>3, Bounds DEF MemoryFresh, Within
    <2>9. Shaped(o) /\ FreshCall(o)
      BY <2>7, <2>8 DEF Shaped, FreshCall, InCache, Idle
    <2>10. /\ MemoryOK(memory')
           /\ \A d \in Entries(memory') : d = e \/ (d \in Entries(memory) /\ d.key # k)
      BY <1>4, <2>2, <2>3, AppendMemory
    <2>11. MemoryFresh'
      BY <1>3, <2>2, <2>10 DEF MemoryFresh
    <2>12. KeyOK(k)'
      BY <1>2, <1>3, <2>2, <2>10 DEF KeyOK
    <2>13. last[k] # Unknown => e.value = last[k].value
      BY <1>3, <2>2 DEF KeyOK
    <2> QED BY <1>2, <1>3, <2>2, <2>3, <2>7, <2>9, <2>10, <2>11, <2>12, <2>13, StartStep DEF CacheTyped
  <1>6. CASE MemoryMiss(t, kind, k)
    <2> DEFINE o == [Idle EXCEPT !.kind = kind, !.key = k, !.at = "lookup"]
    <2>1. memory' = Drop(memory, k) /\ Start(t, o)
      BY <1>6 DEF MemoryMiss
    <2>2. /\ o \in CacheCall /\ o.kind = kind /\ o.key = k /\ o.at = "lookup" /\ ~o.served
          /\ o.value = None /\ o.rest = 0
      BY <1>3 DEF CacheCall, Idle
    <2> HIDE DEF o
    <2>3. Shaped(o) /\ FreshCall(o)
      BY <2>2, Bounds DEF Shaped, FreshCall, InCache, Idle
    <2>4. MemoryOK(memory') /\ \A d \in Entries(memory') : d \in Entries(memory) /\ d.key # k
      BY <1>4, <2>1
    <2>5. MemoryFresh'
      BY <1>3, <2>4 DEF MemoryFresh
    <2>6. KeyOK(k)'
      BY <1>2, <1>3, <2>4 DEF KeyOK
    <2> QED BY <1>2, <1>3, <2>1, <2>2, <2>3, <2>4, <2>5, <2>6, StartStep DEF CacheTyped
  <1> QED BY <1>1, <1>5, <1>6

LEMMA BeginSetKeeps ==
  ASSUME CacheInv, NEW t \in Tasks, BeginSet(t)
  PROVE  CacheInv'
  <1>1. PICK k \in Keys, v \in Values, ttl \in TTLs :
           /\ Write(k, v, ttl)
           /\ Start(t, [Idle EXCEPT !.kind = "set", !.key = k, !.at = "store",
                                    !.value = v, !.ttl = ttl])
    BY DEF BeginSet
  <1> DEFINE o == [Idle EXCEPT !.kind = "set", !.key = k, !.at = "store",
                               !.value = v, !.ttl = ttl]
  <1>2. /\ op[t] = Idle /\ Start(t, o)
        /\ memory' \in MemorySets(memory, k, v, ttl, 0)
        /\ last' = [last EXCEPT ![k] = Unknown] /\ redis' = redis /\ disk' = disk
    <2>1. v # None
      BY CacheAssumption
    <2> QED BY <2>1, <1>1 DEF BeginSet, Write
  <1>3. CacheTyped /\ MemoryFresh /\ MemoryOK(memory) /\ KeyOK(k) /\ Idle \in CacheCall
    BY IdleCall DEF CacheInv, CacheTyped
  <1>4. /\ o \in CacheCall /\ o.kind = "set" /\ o.key = k /\ o.at = "store" /\ o.value = v
        /\ o.rest = 0 /\ ~o.served
    BY <1>3 DEF CacheCall, Idle
  <1> HIDE DEF o
  <1>5. Shaped(o) /\ FreshCall(o)
    BY <1>4 DEF Shaped, FreshCall, InCache, Idle
  <1>6. /\ MemoryOK(memory')
        /\ \A e \in Entries(memory') :
             \/ e = [key |-> k, value |-> v, left |-> ttl, rest |-> 0]
             \/ e \in Entries(memory) /\ e.key # k
    <2>1. 0 \in 0..(StaleBound + 1)
      BY Bounds
    <2> QED BY <2>1, <1>2, <1>3, SetMemory
  <1>7. MemoryFresh'
    <2>1. ttl <= StaleBound
      BY Bounds
    <2> QED BY <2>1, <1>3, <1>6, Bounds DEF MemoryFresh, Within
  <1>8. last' \in [Keys -> CacheKnown] /\ last'[k] = Unknown
        /\ \A j \in Keys \ {k} : last'[j] = last[j]
    <2>1. Unknown \in CacheKnown
      BY Bounds DEF Unknown, CacheKnown
    <2> QED BY <2>1, <1>2, <1>3 DEF CacheTyped
  <1>9. KeyOK(k)'
    BY <1>2, <1>3, <1>8 DEF KeyOK
  <1> QED BY <1>2, <1>3, <1>4, <1>5, <1>6, <1>7, <1>8, <1>9, StartStep DEF CacheTyped

LEMMA BeginDeleteKeeps ==
  ASSUME CacheInv, NEW t \in Tasks, BeginDelete(t)
  PROVE  CacheInv'
  <1>1. PICK k \in Keys :
           /\ Write(k, None, DefaultTTL)
           /\ Start(t, [Idle EXCEPT !.kind = "delete", !.key = k, !.at = "store"])
    BY DEF BeginDelete
  <1> DEFINE o == [Idle EXCEPT !.kind = "delete", !.key = k, !.at = "store"]
  <1>2. /\ op[t] = Idle /\ Start(t, o)
        /\ memory' = Drop(memory, k)
        /\ last' = [last EXCEPT ![k] = Unknown] /\ redis' = redis /\ disk' = disk
    BY <1>1 DEF BeginDelete, Write
  <1>3. CacheTyped /\ MemoryFresh /\ MemoryOK(memory) /\ KeyOK(k) /\ Idle \in CacheCall
    BY IdleCall DEF CacheInv, CacheTyped
  <1>4. /\ o \in CacheCall /\ o.kind = "delete" /\ o.key = k /\ o.at = "store" /\ o.value = None
        /\ o.rest = 0 /\ ~o.served
    BY <1>3 DEF CacheCall, Idle
  <1> HIDE DEF o
  <1>5. Shaped(o) /\ FreshCall(o)
    BY <1>4 DEF Shaped, FreshCall, InCache, Idle
  <1>6. MemoryOK(memory') /\ \A e \in Entries(memory') : e \in Entries(memory) /\ e.key # k
    BY <1>2, <1>3, DropMemory
  <1>7. MemoryFresh'
    BY <1>3, <1>6 DEF MemoryFresh
  <1>8. last' \in [Keys -> CacheKnown] /\ last'[k] = Unknown
        /\ \A j \in Keys \ {k} : last'[j] = last[j]
    <2>1. Unknown \in CacheKnown
      BY Bounds DEF Unknown, CacheKnown
    <2> QED BY <2>1, <1>2, <1>3 DEF CacheTyped
  <1>9. KeyOK(k)'
    BY <1>2, <1>3, <1>8 DEF KeyOK
  <1> QED BY <1>2, <1>3, <1>4, <1>5, <1>6, <1>7, <1>8, <1>9, StartStep DEF CacheTyped

LEMMA BeginWarmKeeps ==
  ASSUME CacheInv, NEW t \in Tasks, BeginWarm(t)
  PROVE  CacheInv'
  <1>1. PICK k \in Keys : Start(t, [Idle EXCEPT !.kind = "load", !.key = k, !.at = "loading"])
    BY DEF BeginWarm
  <1> DEFINE o == [Idle EXCEPT !.kind = "load", !.key = k, !.at = "loading"]
  <1>2. /\ op[t] = Idle /\ Start(t, o)
        /\ memory' = memory /\ redis' = redis /\ disk' = disk /\ last' = last
    BY <1>1 DEF BeginWarm
  <1>3. CacheTyped /\ MemoryFresh /\ MemoryOK(memory) /\ KeyOK(k) /\ Idle \in CacheCall
    BY IdleCall DEF CacheInv, CacheTyped
  <1>4. /\ o \in CacheCall /\ o.kind = "load" /\ o.key = k /\ o.at = "loading" /\ o.value = None
        /\ o.rest = 0 /\ ~o.served
    BY <1>3 DEF CacheCall, Idle
  <1> HIDE DEF o
  <1>5. Shaped(o) /\ FreshCall(o)
    BY <1>4 DEF Shaped, FreshCall, InCache, Idle
  <1>6. KeyOK(k)'
    BY <1>2, <1>3 DEF KeyOK
  <1> QED BY <1>2, <1>3, <1>4, <1>5, <1>6, StartStep DEF CacheTyped, MemoryFresh

-----------------------------------------------------------------------------
(* clear.                                                                     *)

\* What the invariant says of a clear that is under way.
LEMMA Clearing ==
  ASSUME CacheInv, NEW t \in Tasks, op[t].at \in {"keys", "wipe", "files"}
  PROVE  /\ op[t] \in CacheCall /\ op[t].kind = "clear" /\ op[t].key = None /\ op[t].value = None
         /\ op[t] # Idle
         /\ \A k \in Keys : last[k] = Unknown /\ KeyOK(k)
         /\ op[t].alone => \A u \in Tasks \ {t} : op[u] = Idle
  <1>1. op[t] \in CacheCall /\ op[t].kind = "clear" /\ op[t].key = None /\ op[t].value = None
        /\ op[t] # Idle
    BY DEF CacheInv, CacheTyped, Shaped, Idle
  <1>2. \A k \in Keys : last[k] = Unknown /\ KeyOK(k)
    BY <1>1 DEF CacheInv, CallKnows, Knows
  <1>3. op[t].alone => \A u \in Tasks \ {t} : op[u] = Idle
    BY <1>1 DEF CacheInv, AloneSound, Meet
  <1> QED BY <1>1, <1>2, <1>3

\* A clear that goes on as o, with memory untouched.
LEMMA ClearStep ==
  ASSUME CacheInv, NEW t \in Tasks, op[t].at \in {"keys", "wipe", "files"},
         NEW o \in CacheCall, Becomes(t, o), Shaped(o), o.kind = "clear",
         o.key = op[t].key, o.alone => op[t].alone,
         memory' = memory, disk' = disk, last' = last,
         redis' \in [Keys -> Entry \cup {Missing}],
         \A k \in Keys : redis'[k] \in {redis[k], Missing},
         o.alone /\ o.at = "wipe" => \A k \in Keys : redis'[k] = Missing \/ k \in o.found,
         o.alone /\ o.at = "files" => \A k \in Keys : redis'[k] = Missing
  PROVE  CacheInv'
  <1>1. /\ op[t].kind = "clear" /\ op[t] # Idle
        /\ \A k \in Keys : last[k] = Unknown /\ KeyOK(k)
        /\ op[t].alone => \A u \in Tasks \ {t} : op[u] = Idle
    BY Clearing
  <1>2. op \in [Tasks -> CacheCall] /\ AloneSound /\ \A u \in Tasks : Shaped(op[u])
    BY DEF CacheInv, CacheTyped
  <1>3. /\ op' \in [Tasks -> CacheCall] /\ (\A u \in Tasks : Shaped(op'[u])) /\ AloneSound'
        /\ op'[t] = o /\ \A u \in Tasks \ {t} : op'[u] = op[u]
    BY <1>1, <1>2, GoesOn
  <1>4. CacheTyped' /\ MemoryFresh'
    BY <1>3 DEF CacheInv, CacheTyped, MemoryFresh
  <1>5. ASSUME NEW k \in Keys PROVE KeyOK(k)'
    <2>1. Within(redis'[k], RedisBound) /\ (redis'[k] # Missing => redis'[k].left >= 0)
      BY <1>1 DEF KeyOK, Within, Missing
    <2> QED BY <1>1, <2>1 DEF KeyOK
  <1>6. ASSUME NEW u \in Tasks PROVE FreshCall(op'[u]) /\ HalfWritten(u)'
    <2>1. CASE u # t
      <3>1. HalfWritten(u) /\ FreshCall(op[u]) /\ Shaped(op[u])
        BY DEF CacheInv
      <3>2. op[u].at = "store" => op[u].key \in Keys
        BY <3>1 DEF Shaped
      <3> QED BY <2>1, <3>1, <3>2, <1>3 DEF HalfWritten, Missing
    <2>2. CASE u = t
      <3>1. o.at \in {"keys", "wipe", "files"}
        BY DEF Shaped, InCache, Idle, CacheCall
      <3> QED BY <2>2, <3>1, <1>3 DEF FreshCall, HalfWritten
    <2> QED BY <2>1, <2>2
  <1>7. ASSUME NEW u \in Tasks, NEW k \in Keys PROVE CallKnows(u, k)' /\ HalfCleared(u, k)'
    <2>1. CallKnows(u, k)'
      BY <1>1 DEF CallKnows, Knows
    <2>2. CASE u = t
      <3>1. HalfCleared(t, k)
        BY DEF CacheInv
      <3> QED BY <2>1, <2>2, <3>1, <1>1, <1>3 DEF HalfCleared
    <2>3. CASE u # t
      <3>1. HalfCleared(u, k)
        BY DEF CacheInv
      <3> QED BY <2>1, <2>3, <3>1, <1>3 DEF HalfCleared
    <2> QED BY <2>2, <2>3
  <1> QED BY <1>3, <1>4, <1>5, <1>6, <1>7 DEF CacheInv

LEMMA ServeKeysKeeps ==
  ASSUME CacheInv, NEW t \in Tasks, ServeKeys(t)
  PROVE  CacheInv'
  <1>1. op[t].at = "keys"
    BY DEF ServeKeys
  <1>2. op[t] \in CacheCall /\ op[t].kind = "clear" /\ op[t].key = None /\ op[t].value = None
    BY <1>1, Clearing
  <1> DEFINE hits == {k \in Keys : redis[k] # Missing}
             next == IF hits = {} THEN "files" ELSE "wipe"
             o == [op[t] EXCEPT !.found = hits, !.at = next]
  <1>3. Becomes(t, o) /\ UNCHANGED <<memory, redis, disk, last>>
    BY DEF ServeKeys
  <1>4. PICK p : p = o
    OBVIOUS
  <1>5. next \in {"files", "wipe"} /\ (next = "files" => hits = {}) /\ hits \in SUBSET Keys
    OBVIOUS
  <1> HIDE DEF next
  <1>6. /\ p \in CacheCall /\ p.kind = "clear" /\ p.key = None /\ p.value = None
        /\ p.found = hits /\ p.at = next /\ p.alone = op[t].alone
    <2> HIDE DEF hits
    <2> QED BY <1>2, <1>4, <1>5 DEF CacheCall
  <1>7. Shaped(p)
    BY <1>5, <1>6 DEF Shaped, InCache, Idle
  <1>8. redis \in [Keys -> Entry \cup {Missing}]
    BY DEF CacheInv, CacheTyped
  <1> QED BY <1>1, <1>2, <1>3, <1>4, <1>5, <1>6, <1>7, <1>8, ClearStep

LEMMA ServeWipeKeeps ==
  ASSUME CacheInv, NEW t \in Tasks, ServeWipe(t)
  PROVE  CacheInv'
  <1>1. op[t].at = "wipe"
    BY DEF ServeWipe
  <1>2. op[t] \in CacheCall /\ op[t].kind = "clear" /\ op[t].key = None /\ op[t].value = None
    BY <1>1, Clearing
  <1>3. PICK ok \in BOOLEAN :
          Becomes(t, [op[t] EXCEPT !.at = "files", !.found = {}, !.alone = @ /\ ok])
    BY DEF ServeWipe
  <1> DEFINE b == op[t].alone /\ ok
  <1>4. b \in BOOLEAN /\ (b => op[t].alone)
    OBVIOUS
  <1>5. PICK p : p = [op[t] EXCEPT !.at = "files", !.found = {}, !.alone = b]
    OBVIOUS
  <1>6. Becomes(t, p)
    BY <1>3, <1>5
  <1> HIDE DEF b
  <1>7. /\ p \in CacheCall /\ p.kind = "clear" /\ p.key = None /\ p.value = None
        /\ p.at = "files" /\ p.alone = b
    BY <1>2, <1>4, <1>5 DEF CacheCall
  <1>8. Shaped(p)
    BY <1>7 DEF Shaped, InCache, Idle
  <1>9. /\ redis' = [k \in Keys |-> IF k \in op[t].found THEN Missing ELSE redis[k]]
        /\ memory' = memory /\ disk' = disk /\ last' = last
        /\ redis \in [Keys -> Entry \cup {Missing}]
    BY DEF ServeWipe, CacheInv, CacheTyped
  <1>10. p.alone => \A k \in Keys : redis'[k] = Missing
    BY <1>1, <1>2, <1>4, <1>7, <1>9 DEF CacheInv, HalfCleared
  <1>11. /\ redis' \in [Keys -> Entry \cup {Missing}]
         /\ \A k \in Keys : redis'[k] \in {redis[k], Missing}
    BY <1>9
  <1> QED BY <1>1, <1>2, <1>4, <1>6, <1>7, <1>8, <1>9, <1>10, <1>11, ClearStep

LEMMA ClearFailsKeeps ==
  ASSUME CacheInv, NEW t \in Tasks, ClearFails(t)
  PROVE  CacheInv'
  <1>1. op[t].at \in {"keys", "wipe", "files"}
    BY DEF ClearFails
  <1>2. op[t] \in CacheCall /\ op[t].kind = "clear" /\ op[t].key = None /\ op[t].value = None
    BY <1>1, Clearing
  <1>3. PICK p : p = [op[t] EXCEPT !.at = "files", !.found = {}, !.alone = FALSE]
    OBVIOUS
  <1>4. Becomes(t, p) /\ UNCHANGED <<memory, redis, disk, last>>
    BY <1>3 DEF ClearFails
  <1>5. /\ p \in CacheCall /\ p.kind = "clear" /\ p.key = None /\ p.value = None
        /\ p.at = "files" /\ ~p.alone
    BY <1>2, <1>3 DEF CacheCall
  <1>6. Shaped(p)
    BY <1>5 DEF Shaped, InCache, Idle
  <1>7. redis \in [Keys -> Entry \cup {Missing}]
    BY DEF CacheInv, CacheTyped
  <1> QED BY <1>1, <1>2, <1>4, <1>5, <1>6, <1>7, ClearStep

LEMMA BeginClearKeeps ==
  ASSUME CacheInv, NEW t \in Tasks, BeginClear(t)
  PROVE  CacheInv'
  <1>1. op \in [Tasks -> CacheCall] /\ AloneSound /\ (\A u \in Tasks : Shaped(op[u])) /\ Idle \in CacheCall
    BY IdleCall DEF CacheInv, CacheTyped
  <1> DEFINE o == [Idle EXCEPT !.kind = "clear", !.at = "keys"]
  <1>2. /\ op[t] = Idle /\ Start(t, o) /\ memory' = <<>>
        /\ last' = [k \in Keys |-> Unknown] /\ redis' = redis /\ disk' = disk
    BY DEF BeginClear
  <1>3. /\ o \in CacheCall /\ o.kind = "clear" /\ o.key = None /\ o.at = "keys" /\ o.value = None
    BY <1>1 DEF CacheCall, Idle
  <1> HIDE DEF o
  <1>4. Shaped(o)
    BY <1>3 DEF Shaped, InCache, Idle
  <1>5. /\ op' \in [Tasks -> CacheCall] /\ (\A u \in Tasks : Shaped(op'[u])) /\ AloneSound'
        /\ \E b \in BOOLEAN : op'[t] = [o EXCEPT !.alone = b]
        /\ \A u \in Tasks \ {t} :
              \E b \in BOOLEAN : op'[u] = [op[u] EXCEPT !.alone = b] /\ (b => op[u].alone)
    BY <1>1, <1>2, <1>3, <1>4, SetsOut
  <1>6. op'[t].kind = "clear" /\ op'[t].at = "keys" /\ op'[t] # Idle
    BY <1>3, <1>5 DEF CacheCall, Idle
  <1>7. ASSUME NEW u \in Tasks \ {t}
        PROVE  /\ op'[u].kind = op[u].kind /\ op'[u].at = op[u].at
               /\ op'[u].value = op[u].value /\ op'[u].rest = op[u].rest
               /\ op'[u].alone => op'[u].at # "store" /\ op'[u].kind # "clear"
    <2>1. PICK b \in BOOLEAN : op'[u] = [op[u] EXCEPT !.alone = b] /\ (b => op[u].alone)
      BY <1>5
    <2>2. /\ op'[u].kind = op[u].kind /\ op'[u].at = op[u].at
          /\ op'[u].value = op[u].value /\ op'[u].rest = op[u].rest
      BY <2>1, <1>1 DEF CacheCall
    <2>3. ASSUME op'[u].alone PROVE op'[u].at # "store" /\ op'[u].kind # "clear"
      <3>1. ~Meet(op'[u], op'[t])
        BY <1>5, <1>6, <2>3 DEF AloneSound
      <3>2. op'[u] = Idle
        BY <1>6, <3>1 DEF Meet
      <3> QED BY <3>2 DEF Idle
    <2> QED BY <2>2, <2>3
  <1>8. /\ MemoryOK(memory') /\ Entries(memory') = {}
        /\ last' \in [Keys -> CacheKnown] /\ \A k \in Keys : last'[k] = Unknown
    <2>1. MemoryOK(<<>>) /\ Entries(<<>>) = {}
      BY CacheAssumption DEF MemoryOK, Entries
    <2>2. Unknown \in CacheKnown
      BY Bounds DEF Unknown, CacheKnown
    <2> QED BY <1>2, <2>1, <2>2
  <1>9. CacheTyped' /\ MemoryFresh'
    BY <1>2, <1>5, <1>8 DEF CacheInv, CacheTyped, MemoryFresh
  <1>10. ASSUME NEW k \in Keys PROVE KeyOK(k)'
    BY <1>2, <1>8 DEF CacheInv, KeyOK
  <1>11. ASSUME NEW u \in Tasks PROVE FreshCall(op'[u]) /\ HalfWritten(u)'
    <2>1. CASE u = t
      BY <2>1, <1>6 DEF FreshCall, HalfWritten
    <2>2. CASE u # t
      BY <2>2, <1>7 DEF CacheInv, FreshCall, HalfWritten
    <2> QED BY <2>1, <2>2
  <1>12. ASSUME NEW u \in Tasks, NEW k \in Keys PROVE CallKnows(u, k)' /\ HalfCleared(u, k)'
    <2>1. CallKnows(u, k)'
      BY <1>8 DEF CallKnows, Knows
    <2>2. HalfCleared(u, k)'
      <3>1. CASE u = t
        BY <3>1, <1>6, <1>8 DEF HalfCleared
      <3>2. CASE u # t
        BY <3>2, <1>7 DEF HalfCleared
      <3> QED BY <3>1, <3>2
    <2> QED BY <2>1, <2>2
  <1> QED BY <1>5, <1>9, <1>10, <1>11, <1>12 DEF CacheInv

LEMMA ClearFilesKeeps ==
  ASSUME CacheInv, NEW t \in Tasks, ClearFiles(t)
  PROVE  CacheInv'
  <1>1. op[t].at \in {"keys", "wipe", "files"} /\ op[t].at = "files"
    BY DEF ClearFiles
  <1>2. /\ op[t].kind = "clear" /\ op[t] # Idle
        /\ \A k \in Keys : last[k] = Unknown /\ KeyOK(k)
        /\ op[t].alone => \A u \in Tasks \ {t} : op[u] = Idle
    BY <1>1, Clearing
  <1>3. op \in [Tasks -> CacheCall] /\ AloneSound /\ (\A u \in Tasks : Shaped(op[u])) /\ CacheTyped
    BY DEF CacheInv, CacheTyped
  <1>4. PICK kept \in SUBSET {k \in Keys : disk[k] # Missing} :
          /\ disk' = [k \in Keys |-> IF k \in kept THEN disk[k] ELSE Missing]
          /\ last' = IF op[t].alone /\ kept = {}
                       THEN [k \in Keys |-> [value |-> None, age |-> 0]] ELSE last
    BY DEF ClearFiles
  <1>5. Becomes(t, Idle) /\ memory' = memory /\ redis' = redis
    BY DEF ClearFiles
  <1>6. /\ op' \in [Tasks -> CacheCall] /\ (\A u \in Tasks : Shaped(op'[u])) /\ AloneSound'
        /\ op'[t] = Idle /\ \A u \in Tasks \ {t} : op'[u] = op[u]
    BY <1>3, <1>5, IdleCall, GoesOn
  <1>7. /\ disk' \in [Keys -> Entry \cup {Missing}]
        /\ \A k \in Keys : disk'[k] = disk[k] \/ disk'[k] = Missing
        /\ kept = {} => \A k \in Keys : disk'[k] = Missing
    BY <1>3, <1>4 DEF CacheTyped
  <1>8. Within(Missing, DefaultTTL) /\ Missing.value = None
    BY DEF Within, Missing
  <1>9. CASE op[t].alone /\ kept = {}
    <2>1. /\ last' \in [Keys -> CacheKnown]
          /\ \A k \in Keys : last'[k].value = None /\ last'[k].age = 0
      <3>1. [value |-> None, age |-> 0] \in CacheKnown
        BY Bounds DEF CacheKnown
      <3> QED BY <1>4, <1>9, <3>1
    <2>2. CacheTyped' /\ MemoryFresh'
      BY <1>5, <1>6, <1>7, <2>1 DEF CacheInv, CacheTyped, MemoryFresh
    <2>3. ASSUME NEW k \in Keys PROVE KeyOK(k)'
      <3>1. redis[k] = Missing /\ \A e \in Entries(memory) : e.key # k
        BY <1>1, <1>2, <1>9 DEF CacheInv, HalfCleared
      <3>2. disk'[k] = Missing /\ redis'[k] = Missing
        BY <1>5, <1>7, <1>9, <3>1
      <3>3. Within(redis'[k], RedisBound)
        BY <1>2, <1>5 DEF KeyOK
      <3> QED BY <1>5, <1>8, <2>1, <3>1, <3>2, <3>3 DEF KeyOK
    <2>4. ASSUME NEW u \in Tasks
          PROVE  /\ FreshCall(op'[u]) /\ HalfWritten(u)'
                 /\ \A k \in Keys : CallKnows(u, k)' /\ HalfCleared(u, k)'
      <3>1. op'[u] = Idle
        BY <1>2, <1>6, <1>9
      <3>2. Idle.at = "out" /\ Idle.kind = "idle" /\ Idle.key = None /\ None \notin Keys
        BY CacheAssumption DEF Idle
      <3> QED BY <3>1, <3>2 DEF FreshCall, HalfWritten, CallKnows, Knows, HalfCleared
    <2> QED BY <1>6, <2>2, <2>3, <2>4 DEF CacheInv
  <1>10. CASE ~(op[t].alone /\ kept = {})
    <2>1. last' = last
      BY <1>4, <1>10
    <2>2. CacheTyped' /\ MemoryFresh'
      BY <1>5, <1>6, <1>7, <2>1 DEF CacheInv, CacheTyped, MemoryFresh
    <2>3. ASSUME NEW k \in Keys PROVE KeyOK(k)'
      BY <1>2, <1>5, <1>7, <1>8, <2>1 DEF KeyOK
    <2>4. ASSUME NEW u \in Tasks
          PROVE  /\ FreshCall(op'[u]) /\ HalfWritten(u)'
                 /\ \A k \in Keys : CallKnows(u, k)' /\ HalfCleared(u, k)'
      <3>1. CASE u # t
        BY <3>1, <1>5, <1>6, <2>1 DEF CacheInv, HalfWritten, CallKnows, HalfCleared
      <3>2. CASE u = t
        <4>1. Idle.at = "out" /\ Idle.kind = "idle" /\ Idle.key = None /\ None \notin Keys
          BY CacheAssumption DEF Idle
        <4> QED BY <3>2, <4>1, <1>6 DEF FreshCall, HalfWritten, CallKnows, Knows, HalfCleared
      <3> QED BY <3>1, <3>2
    <2> QED BY <1>6, <2>2, <2>3, <2>4 DEF CacheInv
  <1> QED BY <1>9, <1>10

-----------------------------------------------------------------------------
(* Other keys, and time.                                                      *)

LEMMA SetOtherKeeps ==
  ASSUME CacheInv, SetOther
  PROVE  CacheInv'
  <1>1. PICK k \in Others : memory' \in MemorySets(memory, k, None, DefaultTTL, 0)
    BY DEF SetOther
  <1>2. redis' = redis /\ disk' = disk /\ op' = op /\ last' = last
    BY DEF SetOther
  <1>3. CacheTyped /\ MemoryFresh /\ MemoryOK(memory)
    BY DEF CacheInv, CacheTyped
  <1>4. /\ MemoryOK(memory')
        /\ \A e \in Entries(memory') :
             \/ e = [key |-> k, value |-> None, left |-> DefaultTTL, rest |-> 0]
             \/ e \in Entries(memory) /\ e.key # k
    <2>1. 0 \in 0..(StaleBound + 1) /\ DefaultTTL \in TTLs
      BY Bounds, CacheAssumption
    <2> QED BY <2>1, <1>1, <1>3, SetMemory
  <1>5. MemoryFresh'
    BY <1>3, <1>4, Bounds DEF MemoryFresh, Within
  <1>6. \A e \in Entries(memory') : e.key \in Keys => e \in Entries(memory)
    BY <1>4, CacheAssumption
  <1>7. CacheTyped' /\ AloneSound'
    BY <1>2, <1>3, <1>4 DEF CacheInv, CacheTyped, AloneSound
  <1>8. \A j \in Keys : KeyOK(j)'
    BY <1>2, <1>6 DEF CacheInv, KeyOK
  <1>9. ASSUME NEW u \in Tasks
        PROVE  /\ Shaped(op'[u]) /\ FreshCall(op'[u]) /\ HalfWritten(u)'
               /\ \A j \in Keys : CallKnows(u, j)' /\ HalfCleared(u, j)'
    <2>1. Shaped(op'[u]) /\ FreshCall(op'[u])
      BY <1>2 DEF CacheInv
    <2>2. HalfWritten(u)'
      <3>1. op[u].at = "store" => op[u].key \in Keys
        BY DEF CacheInv, Shaped
      <3> QED BY <3>1, <1>2, <1>6 DEF CacheInv, HalfWritten
    <2>3. \A j \in Keys : CallKnows(u, j)' /\ HalfCleared(u, j)'
      BY <1>2, <1>6 DEF CacheInv, CallKnows, HalfCleared
    <2> QED BY <2>1, <2>2, <2>3
  <1> QED BY <1>5, <1>7, <1>8, <1>9 DEF CacheInv

LEMMA TickKeeps ==
  ASSUME CacheInv, Tick
  PROVE  CacheInv'
  <1>1. /\ memory' = [i \in DOMAIN memory |-> Older(memory[i])]
        /\ redis' = [k \in Keys |-> IF redis[k].left <= 1 THEN Missing ELSE Older(redis[k])]
        /\ disk' = [k \in Keys |-> IF disk[k] = Missing THEN Missing ELSE Older(disk[k])]
        /\ last' = [k \in Keys |-> IF last[k].value # None /\ last[k].age <= LongestTTL
                                   THEN [last[k] EXCEPT !.age = @ + 1] ELSE last[k]]
        /\ op' = op
    BY DEF Tick
  <1>2. /\ MemoryOK(memory) /\ MemoryFresh /\ op \in [Tasks -> CacheCall]
        /\ redis \in [Keys -> Entry \cup {Missing}]
        /\ disk \in [Keys -> Entry \cup {Missing}]
        /\ last \in [Keys -> CacheKnown]
    BY DEF CacheInv, CacheTyped
  <1>3. /\ MemoryOK(memory')
        /\ \A e \in Entries(memory') : \E d \in Entries(memory) :
             e = Older(d) /\ e.key = d.key /\ e.value = d.value
             /\ (Within(d, StaleBound) => Within(e, StaleBound))
    <2>1. MemoryOK(memory') /\ \A e \in Entries(memory') : \E d \in Entries(memory) : e = Older(d)
      BY <1>1, <1>2, OlderMemory
    <2>2. \A d \in Entries(memory) : d \in MemoryEntry
      BY <1>2 DEF Entries, MemoryOK
    <2> QED BY <2>1, <2>2, OlderEntry
  <1>4. MemoryFresh'
    BY <1>2, <1>3 DEF MemoryFresh
  <1>5. ASSUME NEW k \in Keys
        PROVE  /\ redis'[k] \in Entry \cup {Missing}
               /\ redis'[k].value \in {redis[k].value, None}
               /\ redis[k] = Missing => redis'[k] = Missing
               /\ Within(redis'[k], RedisBound) /\ (redis'[k] # Missing => redis'[k].left >= 0)
    <2>1. KeyOK(k)
      BY DEF CacheInv
    <2>2. CASE redis[k].left <= 1
      <3>1. redis'[k] = Missing
        BY <1>1, <2>2
      <3> QED BY <3>1 DEF Missing, Within
    <2>3. CASE ~(redis[k].left <= 1)
      <3>1. redis'[k] = Older(redis[k])
        BY <1>1, <2>3
      <3>2. redis[k] # Missing /\ redis[k] \in Entry
        BY <1>2, <2>3 DEF Missing
      <3>3. redis[k].left \in Int
        BY <3>2, Bounds DEF Entry
      <3>4. RedisBound \in Nat /\ RedisBound <= StaleBound
        BY Bounds
      <3>5. /\ Older(redis[k]) \in Entry /\ Older(redis[k]).value = redis[k].value
            /\ Older(redis[k]).left >= 0
            /\ Within(Older(redis[k]), RedisBound)
        BY <2>1, <2>3, <3>2, <3>3, <3>4, OlderEntry DEF KeyOK
      <3> QED BY <3>1, <3>2, <3>5
    <2> QED BY <2>2, <2>3
  <1>6. ASSUME NEW k \in Keys
        PROVE  /\ disk'[k] \in Entry \cup {Missing} /\ disk'[k].value = disk[k].value
               /\ disk[k].left > -1 => disk'[k].left = disk[k].left - 1
               /\ Within(disk'[k], DefaultTTL)
    <2>1. KeyOK(k)
      BY DEF CacheInv
    <2>2. CASE disk[k] = Missing
      <3>1. disk'[k] = Missing
        BY <1>1, <2>2
      <3> QED BY <2>2, <3>1 DEF Missing, Within
    <2>3. CASE disk[k] # Missing
      <3>1. disk'[k] = Older(disk[k]) /\ disk[k] \in Entry
        BY <1>1, <1>2, <2>3
      <3>2. DefaultTTL \in Nat /\ DefaultTTL <= StaleBound
        BY Bounds
      <3> QED BY <2>1, <3>1, <3>2, OlderEntry DEF KeyOK
    <2> QED BY <2>2, <2>3
  <1>7. ASSUME NEW k \in Keys
        PROVE  /\ last'[k] \in CacheKnown /\ last'[k].value = last[k].value
               /\ last'[k] = Unknown <=> last[k] = Unknown
               /\ last'[k].age \in Int /\ last[k].age \in Int /\ last[k].age <= last'[k].age
               /\ last[k].value # None /\ last'[k].age <= LongestTTL
                    => last'[k].age = last[k].age + 1
    <2>1. last[k] \in CacheKnown /\ last[k].value \in Values \cup {None}
          /\ last[k].age \in -1..(LongestTTL + 1) /\ LongestTTL \in Nat
      BY <1>2, Bounds DEF CacheKnown
    <2>2. CASE last[k].value # None /\ last[k].age <= LongestTTL
      <3>1. last'[k] = [value |-> last[k].value, age |-> last[k].age + 1]
        BY <1>1, <2>1, <2>2 DEF CacheKnown
      <3> QED BY <2>1, <2>2, <3>1 DEF CacheKnown, Unknown
    <2>3. CASE ~(last[k].value # None /\ last[k].age <= LongestTTL)
      <3>1. last'[k] = last[k]
        BY <1>1, <2>3
      <3> QED BY <2>1, <2>3, <3>1
    <2> QED BY <2>2, <2>3
  <1>8. CacheTyped'
    <2>1. redis' \in [Keys -> Entry \cup {Missing}]
      BY <1>1, <1>5
    <2>2. disk' \in [Keys -> Entry \cup {Missing}]
      BY <1>1, <1>6
    <2>3. last' \in [Keys -> CacheKnown]
      BY <1>1, <1>7
    <2> QED BY <1>1, <1>2, <1>3, <2>1, <2>2, <2>3 DEF CacheTyped
  <1>9. ASSUME NEW k \in Keys PROVE KeyOK(k)'
    <2>1. KeyOK(k) /\ DefaultTTL \in Nat /\ DefaultTTL <= LongestTTL /\ LongestTTL \in Nat
      BY Bounds DEF CacheInv
    <2>2. ASSUME last'[k] # Unknown
          PROVE  /\ \A e \in Entries(memory') : e.key = k => e.value = last'[k].value
                 /\ redis'[k].value \in {last'[k].value, None}
                 /\ disk'[k].value \in {last'[k].value, None}
      BY <2>1, <2>2, <1>3, <1>5, <1>6, <1>7 DEF KeyOK
    <2>3. ASSUME last'[k] # Unknown, last'[k].value # None, last'[k].age <= DefaultTTL
          PROVE  /\ disk'[k].value = last'[k].value
                 /\ disk'[k].left = DefaultTTL - last'[k].age
      <3>1. last[k].value # None /\ last[k] # Unknown /\ last'[k].age = last[k].age + 1
        BY <2>1, <2>3, <1>7
      <3>2. last[k].age <= DefaultTTL
        BY <2>1, <2>3, <1>7
      <3>3. disk[k].value = last[k].value /\ disk[k].left = DefaultTTL - last[k].age
        BY <2>1, <3>1, <3>2 DEF KeyOK
      <3>4. disk[k].left > -1
        BY <2>1, <3>2, <3>3, <1>7
      <3>5. disk'[k].left = disk[k].left - 1 /\ disk'[k].value = disk[k].value
        BY <3>4, <1>6
      <3> QED BY <2>1, <3>1, <3>3, <3>5, <1>7
    <2> QED BY <2>2, <2>3, <1>5, <1>6 DEF KeyOK
  <1>10. ASSUME NEW u \in Tasks
         PROVE  /\ Shaped(op'[u]) /\ FreshCall(op'[u]) /\ HalfWritten(u)'
                /\ \A j \in Keys : CallKnows(u, j)' /\ HalfCleared(u, j)'
    <2>1. Shaped(op'[u]) /\ FreshCall(op'[u])
      BY <1>1 DEF CacheInv
    <2>2. HalfWritten(u)'
      <3>1. (op[u].at = "store" => op[u].key \in Keys) /\ HalfWritten(u)
        BY DEF CacheInv, Shaped
      <3> QED BY <3>1, <1>1, <1>3, <1>5 DEF HalfWritten
    <2>3. ASSUME NEW j \in Keys PROVE CallKnows(u, j)'
      <3>1. Knows(op[u], j, last[j]) /\ DefaultTTL \in Nat
        BY Bounds DEF CacheInv, CallKnows
      <3> QED BY <3>1, <1>1, <1>7 DEF CallKnows, Knows
    <2>4. ASSUME NEW j \in Keys PROVE HalfCleared(u, j)'
      <3>1. HalfCleared(u, j)
        BY DEF CacheInv
      <3> QED BY <3>1, <1>1, <1>3, <1>5 DEF HalfCleared
    <2> QED BY <2>1, <2>2, <2>3, <2>4
  <1>11. AloneSound'
    BY <1>1 DEF CacheInv, AloneSound
  <1> QED BY <1>4, <1>8, <1>9, <1>10, <1>11 DEF CacheInv

-----------------------------------------------------------------------------
LEMMA CacheStarts == Init => CacheInv
  <1> SUFFICES ASSUME Init PROVE CacheInv
    OBVIOUS
  <1>1. /\ memory = <<>> /\ redis = [k \in Keys |-> Missing] /\ disk = [k \in Keys |-> Missing]
        /\ op = [t \in Tasks |-> Idle]
        /\ last = [k \in Keys |-> [value |-> None, age |-> 0]]
    BY DEF Init
  <1>2. MemoryOK(memory) /\ Entries(memory) = {}
    BY <1>1, CacheAssumption DEF MemoryOK, Entries
  <1>3. [value |-> None, age |-> 0] \in CacheKnown
    BY Bounds DEF CacheKnown
  <1>4. CacheTyped /\ MemoryFresh
    BY <1>1, <1>2, <1>3, IdleCall DEF CacheTyped, MemoryFresh
  <1>5. ASSUME NEW k \in Keys PROVE KeyOK(k)
    <2>1. redis[k] = Missing /\ disk[k] = Missing /\ last[k].value = None
      BY <1>1
    <2> QED BY <1>2, <2>1 DEF KeyOK, Missing, Within
  <1>6. Idle.at = "out" /\ Idle.kind = "idle" /\ Idle.key = None /\ Idle.alone = FALSE
    BY DEF Idle
  <1>7. ASSUME NEW t \in Tasks
        PROVE  /\ Shaped(op[t]) /\ FreshCall(op[t]) /\ HalfWritten(t)
               /\ \A k \in Keys : CallKnows(t, k) /\ HalfCleared(t, k)
    <2>1. op[t] = Idle /\ None \notin Keys
      BY <1>1, CacheAssumption
    <2> QED BY <2>1, <1>6, IdleCall DEF FreshCall, HalfWritten, CallKnows, Knows, HalfCleared
  <1>8. AloneSound
    BY <1>1 DEF AloneSound, Meet
  <1> QED BY <1>4, <1>5, <1>7, <1>8 DEF CacheInv

LEMMA CacheSteps == CacheInv /\ [Next]_cacheVars => CacheInv'
  <1> SUFFICES ASSUME CacheInv, [Next]_cacheVars PROVE CacheInv'
    OBVIOUS
  <1>1. ASSUME NEW t \in Tasks, Begin(t) PROVE CacheInv'
    BY <1>1, BeginGetKeeps, BeginSetKeeps, BeginDeleteKeeps, BeginWarmKeeps, BeginClearKeeps
       DEF Begin
  <1>2. ASSUME NEW t \in Tasks, Serve(t) PROVE CacheInv'
    BY <1>2, ServeLookupKeeps, ServePutKeeps, RedisFailsKeeps DEF Serve
  <1>3. ASSUME NEW t \in Tasks, Resume(t) PROVE CacheInv'
    BY <1>3, RedisHitKeeps, DiskHitKeeps, MissEverywhereKeeps, PromotedKeeps,
       WriteDiskKeeps, WriteDiskFailsKeeps DEF Resume
  <1>4. ASSUME NEW t \in Tasks, Load(t) PROVE CacheInv'
    <2>1. CASE LoaderGives(t)
      BY <2>1, LoaderGivesKeeps
    <2>2. CASE LoaderGivesNone(t)
      BY <2>2, EndKeeps DEF LoaderGivesNone
    <2> QED BY <1>4, <2>1, <2>2 DEF Load
  <1>5. ASSUME NEW t \in Tasks, Clear(t) PROVE CacheInv'
    BY <1>5, ServeKeysKeeps, ServeWipeKeeps, ClearFailsKeeps, ClearFilesKeeps DEF Clear
  <1>6. ASSUME NEW t \in Tasks, Return(t) \/ Cancelled(t) PROVE CacheInv'
    BY <1>6, EndKeeps DEF Return, Cancelled
  <1>7. CASE SetOther
    BY <1>7, SetOtherKeeps
  <1>8. CASE Tick
    BY <1>8, TickKeeps
  <1>9. CASE UNCHANGED cacheVars
    <2>1. memory' = memory /\ redis' = redis /\ disk' = disk /\ op' = op /\ last' = last
      BY <1>9 DEF cacheVars
    <2> QED BY <2>1 DEF CacheInv, CacheTyped, AloneSound, MemoryFresh, HalfWritten, HalfCleared, KeyOK,
                        CallKnows
  <1> QED BY <1>1, <1>2, <1>3, <1>4, <1>5, <1>6, <1>7, <1>8, <1>9 DEF Next

LEMMA CacheInvHolds == CacheInv => Consistent /\ StaleForABoundedTime
  <1> SUFFICES ASSUME CacheInv PROVE Consistent /\ StaleForABoundedTime
    OBVIOUS
  <1>1. TypeOK
    BY DEF CacheInv, CacheTyped, MemoryOK, MemoryEntry, CacheCall, CacheKnown, TypeOK
  <1>2. WriteThrough
    <2> SUFFICES ASSUME NEW k \in Keys, last[k] # Unknown
                 PROVE  /\ InMemory(k) \subseteq {last[k].value}
                        /\ {redis[k].value, disk[k].value} \subseteq {last[k].value, None}
                        /\ \A t \in OnKey(k) : op[t].value \in {last[k].value, None}
      BY DEF WriteThrough
    <2>1. KeyOK(k)
      BY DEF CacheInv
    <2>2. \A i \in DOMAIN memory : memory[i].key = k => memory[i].value = last[k].value
      BY <2>1 DEF KeyOK, Entries
    <2>3. InMemory(k) \subseteq {last[k].value}
      BY <2>2 DEF InMemory
    <2>4. ASSUME NEW t \in OnKey(k) PROVE op[t].value \in {last[k].value, None}
      <3>1. t \in Tasks /\ Knows(op[t], k, last[k]) /\ (op[t].key = k \/ op[t].kind = "clear")
        BY DEF CacheInv, CallKnows, OnKey
      <3> QED BY <3>1 DEF Knows
    <2> QED BY <2>1, <2>3, <2>4 DEF KeyOK
  <1>3. ReadsLastWrite
    <2> SUFFICES ASSUME NEW t \in Tasks, op[t].kind = "get", op[t].at = "returned",
                        op[t].alone, last[op[t].key] # Unknown
                 PROVE  \/ op[t].value = last[op[t].key].value
                        \/ op[t].value = None /\ last[op[t].key].age > DefaultTTL
      BY DEF ReadsLastWrite
    <2>1. op[t].key \in Keys
      BY DEF CacheInv, Shaped, InCache
    <2>2. Knows(op[t], op[t].key, last[op[t].key])
      BY <2>1 DEF CacheInv, CallKnows
    <2> QED BY <2>2 DEF Knows
  <1>4. StaleForABoundedTime
    BY DEF CacheInv, FreshCall, StaleForABoundedTime
  <1> QED BY <1>1, <1>2, <1>3, <1>4 DEF Consistent

(* CompositeCache keeps its tiers consistent: the memory tier its size and    *)
(* its types, every tier what an undisturbed set, delete or clear wrote, and  *)
(* every undisturbed get reads that.                                          *)
THEOREM CacheConsistent == Spec => []Consistent
  <1>1. CacheInv => Consistent
    BY CacheInvHolds
  <1> QED BY CacheStarts, CacheSteps, <1>1, PTL DEF Spec

(* Promotion between tiers that each renew the ttl of a value cannot keep it  *)
(* alive: no get gives a value that rested longer than StaleBound.            *)
THEOREM CacheForgets == Spec => []StaleForABoundedTime
  <1>1. CacheInv => StaleForABoundedTime
    BY CacheInvHolds
  <1> QED BY CacheStarts, CacheSteps, <1>1, PTL DEF Spec
=============================================================================

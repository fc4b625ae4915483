--------------------- MODULE TranslationRegistry_proofs ---------------------
(* For any requests, texts, backends and bulkhead: the safety properties of   *)
(* TranslationRegistry that the run `registry` checks on one instance.  The   *)
(* invariant has two halves that do not need each other: who leads (slots and *)
(* the in-flight map), and who was told what (futures and return values).     *)
EXTENDS TranslationRegistry, FiniteSetTheorems, WellFoundedInduction, TLAPS

PCs == {"new", "lookup", "follow", "call", "store", "done"}
Futures == Outcome \cup {"none", "pending"}
Results == Outcome \cup {"none"}

\* What a backend gave, as against a cancellation.
Final == {"good", "empty", "error"}

\* The map files a future under the key its request asks for.
KeysAgree == \A k \in Keys : in_flight[k] # None => Key(in_flight[k]) = k

\* A request has its outcome when it is done, and the one its future tells.
ToldOnce ==
    \A r \in Requests :
      /\ pc[r] # "done" => out[r] = "none"
      /\ fut[r] \in Final => out[r] = fut[r]

\* Only a request that awaits another's future, or did, follows anyone.
Following ==
    \A r \in Requests : /\ pc[r] \in {"new", "lookup", "call", "store"} => follows[r] = None
                        /\ pc[r] = "follow" => follows[r] # None

Leadership == SlotsConserved /\ OneLeaderPerKey /\ KeysAgree
Outcomes == ToldOnce /\ Following /\ FollowersGetLeadersOutcome
IInv == TypeOK /\ Leadership /\ Outcomes

-----------------------------------------------------------------------------
\* The next backend, if there is one, is a backend.
LEMMA NextBackendType ==
    ASSUME enabled \subseteq 1..Backends, NEW b \in Nat
    PROVE  NextBackend(b) \in 0..Backends
  <1> DEFINE later == {x \in enabled : x > b}
  <1>1. later \subseteq Nat /\ later \subseteq 1..Backends /\ Backends \in Nat
    <2>1. Backends \in Nat
      BY RegistryAssumption
    <2>2. \A x \in later : x \in 1..Backends
      OBVIOUS
    <2>3. \A x \in 1..Backends : x \in Nat
      BY <2>1
    <2> QED BY <2>1, <2>2, <2>3
  <1>2. ASSUME later # {} PROVE Min(later) \in later
    <2>1. PICK m \in later : \A x \in later : <<x, m>> \notin OpToRel(<, Nat)
      <3> HIDE DEF later
      <3> QED BY <1>1, <1>2, NatLessThanWellFounded, WFMin, Zenon
    <2>2. \A x \in later : ~(x < m)
      <3> HIDE DEF later
      <3> QED BY <1>1, <2>1, Zenon DEF OpToRel
    <2>3. \A x \in later : m <= x
      BY <1>1, <2>2
    <2> HIDE DEF later
    <2> QED BY <2>3 DEF Min
  <1>3. NextBackend(b) = IF later = {} THEN 0 ELSE Min(later)
    BY DEF NextBackend
  <1> HIDE DEF later
  <1>4. \A x \in 1..Backends : x \in 0..Backends
    BY <1>1
  <1>5. 0 \in 0..Backends
    BY <1>1
  <1>6. CASE later = {}
    BY <1>3, <1>5, <1>6
  <1>7. CASE later # {}
    <2>1. Min(later) \in 1..Backends
      BY <1>1, <1>2, <1>7
    <2>2. NextBackend(b) = Min(later)
      BY <1>3, <1>7
    <2> QED BY <1>4, <2>1, <2>2
  <1> QED BY <1>6, <1>7

\* One leader more or less is one more or less in the count.
LEMMA Counting ==
    /\ Cardinality(Leading) \in Nat
    /\ \A r \in Requests :
         /\ r \notin Leading => Cardinality(Leading \cup {r}) = Cardinality(Leading) + 1
         /\ r \in Leading => Cardinality(Leading \ {r}) = Cardinality(Leading) - 1
  <1>1. IsFiniteSet(Leading)
    BY FS_Subset, RegistryAssumption DEF Leading
  <1> QED BY <1>1, FS_CardinalityType, FS_AddElement, FS_RemoveElement

LEMMA InitEstablishes == Init => IInv
  <1> SUFFICES ASSUME Init PROVE IInv
    OBVIOUS
  <1> USE RegistryAssumption DEF Init
  <1>1. TypeOK
    BY DEF TypeOK
  <1>2. Leading = {}
    BY DEF Leading
  <1>3. Leadership
    BY <1>2, FS_EmptySet DEF Leadership, SlotsConserved, OneLeaderPerKey, KeysAgree
  <1>4. Outcomes
    BY DEF Outcomes, ToldOnce, Following, FollowersGetLeadersOutcome, Final
  <1> QED BY <1>1, <1>3, <1>4 DEF IInv

-----------------------------------------------------------------------------
(* Who leads                                                                  *)

\* The map keeps its leaders when a request that none of them shares the key of
\* is registered.
LEMMA RegisterKeeps ==
    ASSUME TypeOK, Leadership, NEW r \in Requests, Register(r)
    PROVE  /\ in_flight' \in [Keys -> Requests \cup {None}]
           /\ KeysAgree' /\ r \notin Leading
           /\ in_flight'[Key(r)] = r /\ \A q \in Leading : in_flight'[Key(q)] = q
  <1>1. \A q \in Requests : Key(q) \in Keys /\ q # None
    BY RegistryAssumption DEF Key
  <1>2. in_flight \in [Keys -> Requests \cup {None}]
    BY DEF TypeOK
  <1>3. /\ in_flight' \in [Keys -> Requests \cup {None}] /\ in_flight'[Key(r)] = r
        /\ \A k \in Keys : k # Key(r) => in_flight'[k] = in_flight[k]
    BY <1>1, <1>2 DEF Register
  <1>4. KeysAgree'
    BY <1>1, <1>3 DEF Leadership, KeysAgree, Key
  <1>5. \A q \in Leading : in_flight[Key(q)] = q /\ q \in Requests
    BY DEF Leadership, OneLeaderPerKey, Leading
  <1>6. \A q \in Leading : Key(q) # Key(r)
    BY <1>1, <1>5 DEF Register, Unclaimed
  <1>7. r \notin Leading
    BY DEF Register, Missed, Leading
  <1> QED BY <1>1, <1>3, <1>4, <1>5, <1>6, <1>7

\* The finally block gives back the slot and the map entry of its own request.
LEMMA CleanUpKeeps ==
    ASSUME TypeOK, Leadership, NEW r \in Leading, CleanUp(r), Leading' = Leading \ {r}
    PROVE  /\ Leadership' /\ slots' \in 0..MaxConcurrent
           /\ in_flight' \in [Keys -> Requests \cup {None}]
  <1>1. r \in Requests /\ Cardinality(Leading) \in Nat /\ Cardinality(Leading') \in Nat
        /\ Cardinality(Leading') = Cardinality(Leading) - 1
    <2>1. r \in Requests
      BY DEF Leading
    <2>2. Cardinality(Leading) \in Nat /\ Cardinality(Leading \ {r}) = Cardinality(Leading) - 1
      BY <2>1, Counting
    <2>3. IsFiniteSet(Leading \ {r})
      BY FS_Subset, RegistryAssumption DEF Leading
    <2>4. Cardinality(Leading \ {r}) \in Nat
      BY <2>3, FS_CardinalityType
    <2> QED BY <2>1, <2>2, <2>4
  <1>2. slots \in 0..MaxConcurrent /\ slots' = slots + 1 /\ MaxConcurrent \in Nat
        /\ slots + Cardinality(Leading) = MaxConcurrent
    BY RegistryAssumption DEF TypeOK, Leadership, SlotsConserved, CleanUp
  <1>3. slots' + Cardinality(Leading') = MaxConcurrent /\ slots' \in 0..MaxConcurrent
    BY <1>1, <1>2
  <1>4. \A q \in Requests : Key(q) \in Keys /\ q # None
    BY RegistryAssumption DEF Key
  <1>5. /\ in_flight \in [Keys -> Requests \cup {None}]
        /\ \A q \in Leading : in_flight[Key(q)] = q /\ q \in Requests
    BY DEF TypeOK, Leadership, OneLeaderPerKey, Leading
  <1>6. /\ in_flight' \in [Keys -> Requests \cup {None}] /\ in_flight'[Key(r)] = None
        /\ \A k \in Keys : k # Key(r) => in_flight'[k] = in_flight[k]
    BY <1>1, <1>4, <1>5 DEF CleanUp
  <1>7. \A q \in Leading' : in_flight'[Key(q)] = q
    <2>1. \A q \in Leading' : q \in Leading /\ q # r
      OBVIOUS
    <2>2. \A q \in Leading' : Key(q) # Key(r)
      BY <1>5, <2>1
    <2> QED BY <1>4, <1>5, <1>6, <2>1, <2>2
  <1>8. KeysAgree'
    BY <1>6 DEF Leadership, KeysAgree, Key
  <1> QED BY <1>3, <1>6, <1>7, <1>8 DEF Leadership, SlotsConserved, OneLeaderPerKey, Key

\* Whoever leads goes on leading, and nobody else does.
LEMMA SameLeaders ==
    ASSUME Leadership, Leading' = Leading, UNCHANGED <<in_flight, slots>>
    PROVE  Leadership'
  BY DEF Leadership, SlotsConserved, OneLeaderPerKey, KeysAgree, Key

-----------------------------------------------------------------------------
(* Who was told what                                                          *)

\* A step of request r: it may end, with the outcome of the future it follows if
\* it follows one; a future that has a result keeps it, and gets one only from r
\* where r ends with the same.
LEMMA OutcomesKeep ==
    ASSUME TypeOK, Outcomes, NEW r \in Requests, pc[r] # "done",
           \A q \in Requests : q # r => /\ pc'[q] = pc[q] /\ out'[q] = out[q]
                                        /\ follows'[q] = follows[q],
           \A q \in Requests :
             \/ fut'[q] = fut[q]
             \/ fut[q] \notin Final /\ (fut'[q] \in Final => q = r /\ out'[r] = fut'[r]),
           pc'[r] # "done" => out'[r] = "none",
           pc'[r] \in {"new", "lookup", "call", "store"} => follows'[r] = None,
           pc'[r] = "follow" => follows'[r] # None,
           follows'[r] \in Requests \cup {None},
           follows'[r] # None => Key(follows'[r]) = Key(r),
           follows'[r] # None /\ out'[r] \in Final => fut[follows'[r]] = out'[r]
    PROVE  Outcomes'
  <1>1. out[r] = "none" /\ "none" \notin Final
    BY DEF Outcomes, ToldOnce, Final
  <1>2. fut[r] \notin Final
    BY <1>1 DEF Outcomes, ToldOnce
  <1>3. ToldOnce'
    BY <1>1, <1>2 DEF Outcomes, ToldOnce
  <1>4. Following'
    BY DEF Outcomes, Following
  <1>5. ASSUME NEW q \in Requests, follows'[q] # None
        PROVE  /\ Key(follows'[q]) = Key(q)
               /\ out'[q] \in Final => /\ fut'[follows'[q]] = out'[q]
                                       /\ out'[follows'[q]] = out'[q]
    <2> DEFINE l == follows'[q]
    <2>1. l \in Requests /\ Key(l) = Key(q)
      BY <1>5 DEF TypeOK, Outcomes, FollowersGetLeadersOutcome
    <2>2. ASSUME out'[q] \in Final PROVE fut[l] = out'[q] /\ out[l] = out'[q]
      <3>1. CASE q = r
        BY <1>5, <2>1, <2>2, <3>1 DEF Outcomes, ToldOnce
      <3>2. CASE q # r
        BY <1>5, <2>2, <3>2 DEF Outcomes, FollowersGetLeadersOutcome, Final
      <3> QED BY <3>1, <3>2
    <2>3. ASSUME out'[q] \in Final PROVE l # r /\ fut'[l] = fut[l] /\ out'[l] = out[l]
      <3>1. l # r
        BY <1>1, <2>2, <2>3
      <3> QED BY <2>1, <2>2, <2>3, <3>1
    <2> QED BY <2>1, <2>2, <2>3
  <1>6. FollowersGetLeadersOutcome'
    BY <1>5 DEF FollowersGetLeadersOutcome, Final, Key
  <1> QED BY <1>3, <1>4, <1>6 DEF Outcomes
-----------------------------------------------------------------------------
(* Every action keeps the invariant                                           *)

\* r moves on from one await to another, with its future and return value as
\* they are, and nobody begins or ceases to lead.
LEMMA WalkKeeps ==
    ASSUME IInv, NEW r \in Requests, NEW label \in PCs \ {"done"},
           pc[r] # "done", pc' = [pc EXCEPT ![r] = label],
           r \in Leading <=> label \in {"call", "store"},
           label \in {"new", "lookup", "call", "store"} => follows[r] = None,
           label # "follow",
           backend' \in [Requests -> 0..Backends],
           UNCHANGED <<cache, in_flight, fut, follows, out, slots, enabled>>
    PROVE  IInv'
  <1>1. /\ pc \in [Requests -> PCs] /\ pc' \in [Requests -> PCs] /\ pc'[r] = label
        /\ \A q \in Requests : q # r => pc'[q] = pc[q]
    BY DEF IInv, TypeOK, PCs
  <1>2. Leading' = Leading
    BY <1>1 DEF Leading
  <1>3. TypeOK'
    BY <1>1 DEF IInv, TypeOK, Outcome, PCs
  <1>4. Leadership'
    BY <1>2, SameLeaders DEF IInv
  <1>5. follows[r] \in Requests \cup {None} /\ out[r] = "none" /\ "none" \notin Final
    BY DEF IInv, TypeOK, Outcomes, ToldOnce, Final
  <1>6. Outcomes'
    <2>1. follows[r] # None => Key(follows[r]) = Key(r)
      BY DEF IInv, Outcomes, FollowersGetLeadersOutcome
    <2> QED BY <1>1, <1>5, <2>1, OutcomesKeep DEF IInv
  <1> QED BY <1>3, <1>4, <1>6 DEF IInv

\* r ends without having led; the only future it may give a result is its own.
LEMMA EndsKeep ==
    ASSUME IInv, NEW r \in Requests, pc[r] \in {"lookup", "follow"},
           NEW o \in Results, Ends(r, o),
           fut' \in [Requests -> Futures],
           \A q \in Requests :
             \/ fut'[q] = fut[q]
             \/ fut[q] \notin Final /\ (fut'[q] \in Final => q = r /\ fut'[r] = o),
           pc[r] = "follow" /\ o \in Final => fut[follows[r]] = o,
           \/ UNCHANGED in_flight
           \/ Register(r),
           UNCHANGED <<cache, follows, backend, slots, enabled>>
    PROVE  IInv'
  <1>1. /\ pc \in [Requests -> PCs] /\ pc' \in [Requests -> PCs] /\ pc'[r] = "done"
        /\ \A q \in Requests : q # r => pc'[q] = pc[q]
    BY DEF IInv, TypeOK, PCs, Ends
  <1>2. /\ out' \in [Requests -> Results] /\ out'[r] = o
        /\ \A q \in Requests : q # r => out'[q] = out[q]
    BY DEF IInv, TypeOK, Results, Ends
  <1>3. Leading' = Leading
    BY <1>1 DEF Leading
  <1>4. in_flight' \in [Keys -> Requests \cup {None}] /\ Leadership'
    <2>1. CASE UNCHANGED in_flight
      BY <1>3, <2>1, SameLeaders DEF IInv, TypeOK
    <2>2. CASE Register(r)
      <3>1. /\ in_flight' \in [Keys -> Requests \cup {None}] /\ KeysAgree'
            /\ \A q \in Leading : in_flight'[Key(q)] = q
        BY <2>2, RegisterKeeps DEF IInv
      <3>2. OneLeaderPerKey'
        BY <1>3, <3>1 DEF OneLeaderPerKey, Key
      <3>3. SlotsConserved'
        BY <1>3 DEF IInv, Leadership, SlotsConserved
      <3> QED BY <3>1, <3>2, <3>3 DEF Leadership
    <2> QED BY <2>1, <2>2
  <1>5. TypeOK'
    BY <1>1, <1>2, <1>4 DEF IInv, TypeOK, PCs, Results, Futures
  <1>6. Outcomes'
    <2>1. /\ follows[r] \in Requests \cup {None}
          /\ follows[r] # None => Key(follows[r]) = Key(r)
          /\ pc[r] = "lookup" => follows[r] = None
      BY DEF IInv, TypeOK, Outcomes, Following, FollowersGetLeadersOutcome
    <2>2. follows[r] # None /\ o \in Final => fut[follows[r]] = o
      BY <2>1
    <2> QED BY <1>1, <1>2, <2>1, <2>2, OutcomesKeep DEF IInv
  <1> QED BY <1>4, <1>5, <1>6 DEF IInv

\* A leader ends: its slot and its entry are given back, and its future, if it
\* is pending, gets a result only if that is what the leader returns.
LEMMA LeaderEndsKeeps ==
    ASSUME IInv, NEW r \in Leading, NEW o \in Outcome, CleanUp(r), Ends(r, o),
           Resolve(r, o) \/ (o \notin Final /\ UNCHANGED fut),
           cache' \subseteq Keys, UNCHANGED <<follows, backend, enabled>>
    PROVE  IInv'
  <1>1. r \in Requests /\ pc[r] \in {"call", "store"}
    BY DEF Leading
  <1>2. /\ pc \in [Requests -> PCs] /\ pc' \in [Requests -> PCs] /\ pc'[r] = "done"
        /\ \A q \in Requests : q # r => pc'[q] = pc[q]
    BY <1>1 DEF IInv, TypeOK, PCs, Ends
  <1>3. /\ out' \in [Requests -> Results] /\ out'[r] = o
        /\ \A q \in Requests : q # r => out'[q] = out[q]
    BY <1>1 DEF IInv, TypeOK, Results, Ends
  <1>4. Leading' = Leading \ {r}
    BY <1>2 DEF Leading
  <1>5. /\ Leadership' /\ slots' \in 0..MaxConcurrent
        /\ in_flight' \in [Keys -> Requests \cup {None}]
    BY <1>4, CleanUpKeeps DEF IInv
  <1>6. /\ fut' \in [Requests -> Futures]
        /\ \A q \in Requests :
             \/ fut'[q] = fut[q]
             \/ fut[q] \notin Final /\ q = r /\ fut'[r] = o
    <2>1. fut \in [Requests -> Futures]
      BY DEF IInv, TypeOK, Futures
    <2>2. CASE Resolve(r, o)
      <3>1. /\ \A q \in Requests : q # r => fut'[q] = fut[q]
            /\ fut'[r] = IF fut[r] = "pending" THEN o ELSE fut[r]
            /\ fut' \in [Requests -> Futures]
        BY <1>1, <2>1, <2>2 DEF Resolve, Futures
      <3> QED BY <3>1 DEF Final
    <2>3. CASE UNCHANGED fut
      BY <2>1, <2>3
    <2> QED BY <2>2, <2>3
  <1>7. TypeOK'
    BY <1>2, <1>3, <1>5, <1>6 DEF IInv, TypeOK, PCs, Results, Futures
  <1>8. Outcomes'
    <2>1. follows[r] = None
      BY <1>1 DEF IInv, Outcomes, Following
    <2> QED BY <1>1, <1>2, <1>3, <1>6, <2>1, OutcomesKeep DEF IInv
  <1> QED BY <1>5, <1>7, <1>8 DEF IInv

LEMMA LeadKeeps ==
    ASSUME IInv, NEW r \in Requests, Lead(r)
    PROVE  IInv'
  <1>1. /\ pc[r] = "lookup" /\ Register(r) /\ UNCHANGED <<cache, follows, out, enabled>>
        /\ slots > 0 /\ slots' = slots - 1
    BY DEF Lead, Register, Missed
  <1>2. /\ in_flight' \in [Keys -> Requests \cup {None}] /\ KeysAgree' /\ r \notin Leading
        /\ in_flight'[Key(r)] = r /\ \A q \in Leading : in_flight'[Key(q)] = q
    BY <1>1, RegisterKeeps DEF IInv
  <1>3. /\ pc \in [Requests -> PCs] /\ pc' \in [Requests -> PCs] /\ pc'[r] = "call"
        /\ \A q \in Requests : q # r => pc'[q] = pc[q]
    BY DEF IInv, TypeOK, PCs, Lead
  <1>4. /\ fut' \in [Requests -> Futures] /\ fut'[r] = "pending"
        /\ \A q \in Requests : q # r => fut'[q] = fut[q]
    BY DEF IInv, TypeOK, Futures, Lead
  <1>5. backend' \in [Requests -> 0..Backends]
    <2>1. NextBackend(0) \in 0..Backends
      BY NextBackendType DEF IInv, TypeOK
    <2> QED BY <2>1 DEF IInv, TypeOK, Lead
  <1>6. slots \in 0..MaxConcurrent /\ slots' \in 0..MaxConcurrent /\ MaxConcurrent \in Nat
    BY <1>1, RegistryAssumption DEF IInv, TypeOK
  <1>7. Leading' = Leading \cup {r}
    BY <1>3 DEF Leading
  <1>8. Leadership'
    <2>1. Cardinality(Leading') = Cardinality(Leading) + 1 /\ Cardinality(Leading) \in Nat
      BY <1>2, <1>7, Counting
    <2>2. SlotsConserved'
      BY <1>1, <1>6, <2>1 DEF IInv, Leadership, SlotsConserved
    <2>3. OneLeaderPerKey'
      BY <1>2, <1>7 DEF OneLeaderPerKey, Key
    <2> QED BY <1>2, <2>2, <2>3 DEF Leadership
  <1>9. TypeOK'
    BY <1>1, <1>2, <1>3, <1>4, <1>5, <1>6 DEF IInv, TypeOK, PCs, Futures
  <1>10. Outcomes'
    <2>1. follows[r] = None /\ out[r] = "none" /\ fut[r] \notin Final /\ "none" \notin Final
          /\ "pending" \notin Final
      BY <1>1 DEF IInv, Outcomes, Following, ToldOnce, Final
    <2> QED BY <1>1, <1>3, <1>4, <2>1, OutcomesKeep DEF IInv
  <1> QED BY <1>8, <1>9, <1>10 DEF IInv

LEMMA FollowKeeps ==
    ASSUME IInv, NEW r \in Requests, Follow(r)
    PROVE  IInv'
  <1>1. /\ pc[r] = "lookup"
        /\ UNCHANGED <<cache, in_flight, fut, backend, out, slots, enabled>>
    BY DEF Follow, Missed
  <1>2. /\ Key(r) \in Keys /\ in_flight[Key(r)] \in Requests
        /\ Key(in_flight[Key(r)]) = Key(r) /\ in_flight[Key(r)] # None
    BY RegistryAssumption DEF Follow, IInv, TypeOK, Leadership, KeysAgree, Key
  <1>3. /\ pc \in [Requests -> PCs] /\ pc' \in [Requests -> PCs] /\ pc'[r] = "follow"
        /\ \A q \in Requests : q # r => pc'[q] = pc[q]
    BY DEF IInv, TypeOK, PCs, Follow
  <1>4. /\ follows' \in [Requests -> Requests \cup {None}]
        /\ follows'[r] = in_flight[Key(r)]
        /\ \A q \in Requests : q # r => follows'[q] = follows[q]
    BY <1>2 DEF IInv, TypeOK, Follow
  <1>5. Leading' = Leading
    BY <1>1, <1>3 DEF Leading
  <1>6. Leadership'
    BY <1>1, <1>5, SameLeaders DEF IInv
  <1>7. TypeOK'
    BY <1>1, <1>3, <1>4 DEF IInv, TypeOK, PCs
  <1>8. Outcomes'
    <2>1. out[r] = "none" /\ "none" \notin Final
      BY <1>1 DEF IInv, Outcomes, ToldOnce, Final
    <2> QED BY <1>1, <1>2, <1>3, <1>4, <2>1, OutcomesKeep DEF IInv
  <1> QED BY <1>6, <1>7, <1>8 DEF IInv

\* A backend raises, or the cache does: on to the next backend, or the end.
LEMMA RaisedKeeps ==
    ASSUME IInv, NEW r \in Leading, Raised(r), UNCHANGED <<cache, follows, enabled>>
    PROVE  IInv'
  <1> DEFINE b == NextBackend(backend[r])
  <1>1. r \in Requests /\ pc[r] \in {"call", "store"}
    BY DEF Leading
  <1>2. b \in 0..Backends
    <2>1. backend[r] \in Nat
      BY <1>1, RegistryAssumption DEF IInv, TypeOK
    <2> QED BY <2>1, NextBackendType DEF IInv, TypeOK
  <1>3. CASE b # 0
    <2>1. /\ backend' = [backend EXCEPT ![r] = b] /\ pc' = [pc EXCEPT ![r] = "call"]
          /\ UNCHANGED <<in_flight, fut, out, slots>>
      BY <1>3 DEF Raised
    <2> HIDE DEF b
    <2>2. backend' \in [Requests -> 0..Backends]
      BY <1>2, <2>1 DEF IInv, TypeOK
    <2>3. follows[r] = None
      BY <1>1 DEF IInv, Outcomes, Following
    <2> QED BY <1>1, <2>1, <2>2, <2>3, WalkKeeps DEF PCs
  <1>4. CASE b = 0
    <2>1. Settle(r, "error") /\ UNCHANGED backend
      BY <1>4 DEF Raised
    <2> QED BY <2>1, LeaderEndsKeeps DEF Settle, Outcome, IInv, TypeOK
  <1> QED BY <1>3, <1>4

LEMMA NextKeeps == IInv /\ [Next]_vars => IInv'
  <1> SUFFICES ASSUME IInv, [Next]_vars PROVE IInv'
    OBVIOUS
  <1>1. /\ fut \in [Requests -> Futures] /\ cache \subseteq Keys
        /\ backend \in [Requests -> 0..Backends]
        /\ follows \in [Requests -> Requests \cup {None}]
        /\ \A r \in Requests : Key(r) \in Keys
        /\ \A r \in Requests : r \in Leading <=> pc[r] \in {"call", "store"}
    BY RegistryAssumption DEF IInv, TypeOK, Futures, Leading, Key
  <1>2. /\ \A r \in Requests : pc[r] \in {"new", "lookup", "call", "store"} => follows[r] = None
        /\ \A r \in Requests : pc[r] = "follow" => follows[r] \in Requests
        /\ \A r \in Requests : pc[r] # "done" => out[r] = "none"
        /\ \A r \in Requests : pc[r] # "done" => fut[r] \notin Final
    BY <1>1 DEF IInv, Outcomes, Following, ToldOnce, Final
  <1>3. ASSUME NEW r \in Requests, LookUp(r) PROVE IInv'
    BY <1>1, <1>2, <1>3, WalkKeeps DEF LookUp, PCs
  <1>4. ASSUME NEW r \in Requests, CacheHit(r) PROVE IInv'
    BY <1>1, <1>4, EndsKeep DEF CacheHit, Results, Outcome
  <1>5. ASSUME NEW r \in Requests, Follow(r) PROVE IInv'
    BY <1>5, FollowKeeps
  <1>6. ASSUME NEW r \in Requests, RejectedFull(r) PROVE IInv'
    <2>1. /\ fut' \in [Requests -> Futures] /\ fut'[r] = "pending"
          /\ \A q \in Requests : q # r => fut'[q] = fut[q]
      BY <1>1, <1>6 DEF RejectedFull, Futures
    <2>2. pc[r] = "lookup" /\ fut[r] \notin Final /\ "pending" \notin Final
          /\ Register(r) /\ Ends(r, "error")
          /\ UNCHANGED <<cache, follows, backend, slots, enabled>>
      BY <1>2, <1>6 DEF RejectedFull, Register, Missed, Final
    <2> QED BY <2>1, <2>2, EndsKeep DEF Results, Outcome
  <1>7. ASSUME NEW r \in Requests, Lead(r) PROVE IInv'
    BY <1>7, LeadKeeps
  <1>8. ASSUME NEW r \in Requests, NoBackend(r) PROVE IInv'
    <2>1. /\ fut' \in [Requests -> Futures] /\ fut'[r] = "error"
          /\ \A q \in Requests : q # r => fut'[q] = fut[q]
      BY <1>1, <1>8 DEF NoBackend, Futures, Outcome
    <2>2. pc[r] = "lookup" /\ fut[r] \notin Final /\ Ends(r, "error")
          /\ UNCHANGED <<cache, in_flight, follows, backend, slots, enabled>>
      BY <1>2, <1>8 DEF NoBackend, Missed
    <2> QED BY <2>1, <2>2, EndsKeep DEF Results, Outcome
  <1>9. ASSUME NEW r \in Requests, BackendAnswers(r) PROVE IInv'
    BY <1>1, <1>2, <1>9, WalkKeeps DEF BackendAnswers, PCs
  <1>10. ASSUME NEW r \in Requests, BackendRaises(r) \/ StoreRaises(r) PROVE IInv'
    BY <1>1, <1>10, RaisedKeeps DEF BackendRaises, StoreRaises
  <1>11. ASSUME NEW r \in Requests, BackendSwallows(r) PROVE IInv'
    BY <1>1, <1>11, LeaderEndsKeeps DEF BackendSwallows, Settle, Outcome
  <1>12. ASSUME NEW r \in Requests, Stored(r) PROVE IInv'
    <2>1. cache' \subseteq Keys
      BY <1>1, <1>12 DEF Stored
    <2> QED BY <1>1, <1>12, <2>1, LeaderEndsKeeps DEF Stored, Settle, Outcome
  <1>13. ASSUME NEW r \in Requests, LeaderCancelled(r) PROVE IInv'
    BY <1>1, <1>13, LeaderEndsKeeps DEF LeaderCancelled, Outcome, Final
  <1>14. ASSUME NEW r \in Requests, FollowerWakes(r) PROVE IInv'
    <2>1. /\ pc[r] = "follow" /\ follows[r] \in Requests /\ Ends(r, fut[follows[r]])
          /\ fut[follows[r]] \in Results
          /\ UNCHANGED <<cache, in_flight, fut, follows, backend, slots, enabled>>
      BY <1>1, <1>2, <1>14 DEF FollowerWakes, Futures, Results
    <2> QED BY <1>1, <2>1, EndsKeep
  <1>15. ASSUME NEW r \in Requests, FollowerCancelled(r) PROVE IInv'
    <2>1. /\ pc[r] = "follow" /\ follows[r] \in Requests /\ Ends(r, "cancelled")
          /\ fut[follows[r]] = "pending" /\ "pending" \notin Final /\ "cancelled" \notin Final
          /\ UNCHANGED <<cache, in_flight, follows, backend, slots, enabled>>
      BY <1>2, <1>15 DEF FollowerCancelled, Final
    <2>2. /\ fut' \in [Requests -> Futures] /\ fut'[follows[r]] = "cancelled"
          /\ \A q \in Requests : q # follows[r] => fut'[q] = fut[q]
      BY <1>1, <1>15, <2>1 DEF FollowerCancelled, Futures, Outcome
    <2> QED BY <2>1, <2>2, EndsKeep DEF Results, Outcome
  <1>16. ASSUME \/ \E k \in Keys : Expire(k)
                \/ \E b \in 1..Backends, on \in BOOLEAN : EnableBackend(b, on)
                \/ UNCHANGED vars
         PROVE  IInv'
    <2>1. /\ cache' \subseteq Keys /\ enabled' \subseteq 1..Backends
          /\ UNCHANGED <<in_flight, fut, pc, follows, backend, out, slots>>
      BY <1>16 DEF Expire, EnableBackend, vars, IInv, TypeOK
    <2>2. TypeOK'
      BY <2>1 DEF IInv, TypeOK
    <2>3. Leading' = Leading
      BY <2>1 DEF Leading
    <2>4. Leadership'
      BY <2>1, <2>3, SameLeaders DEF IInv
    <2>5. Outcomes'
      BY <2>1 DEF IInv, Outcomes, ToldOnce, Following, FollowersGetLeadersOutcome, Key
    <2> QED BY <2>2, <2>4, <2>5 DEF IInv
  <1> QED BY <1>3, <1>4, <1>5, <1>6, <1>7, <1>8, <1>9, <1>10, <1>11, <1>12, <1>13, <1>14,
             <1>15, <1>16
          DEF Next, Serve, Begin, Answer, Store, Cancelled

THEOREM Inductive == Spec => []IInv
  BY InitEstablishes, NextKeeps, PTL DEF Spec

-----------------------------------------------------------------------------
(* The theorems                                                               *)

\* The variables keep their types; in particular no slot is taken that is not
\* there, or given back that was not taken.
THEOREM TypeCorrect == Spec => []TypeOK
  <1>1. IInv => TypeOK
    BY DEF IInv
  <1> QED BY <1>1, Inductive, PTL

\* On every way out of translate the leader's slot is given back, once.
THEOREM SlotsAreConserved == Spec => []SlotsConserved
  <1>1. IInv => SlotsConserved
    BY DEF IInv, Leadership
  <1> QED BY <1>1, Inductive, PTL

\* The request that translates a text is the one the map names for it, so there
\* is one at most.
THEOREM OneLeader == Spec => []OneLeaderPerKey
  <1>1. IInv => OneLeaderPerKey
    BY DEF IInv, Leadership
  <1> QED BY <1>1, Inductive, PTL

\* Whoever shared a call was given what that call gave, for the same text.
THEOREM FollowersAgree == Spec => []FollowersGetLeadersOutcome
  <1>1. IInv => FollowersGetLeadersOutcome
    BY DEF IInv, Outcomes
  <1> QED BY <1>1, Inductive, PTL

\* All of it at once: slots, leaders and the map agree, whoever is rejected,
\* cancelled or fails.
THEOREM StaysConsistent == Spec => []Consistent
  BY TypeCorrect, SlotsAreConserved, OneLeader, PTL DEF Consistent
=============================================================================

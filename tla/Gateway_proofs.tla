---------------------------- MODULE Gateway_proofs ----------------------------
(* Proofs about the gateway's services and its reporting desk, for every      *)
(* value of their constants: signatures and rate limits, the users' keys, the *)
(* secret backends, batches, the chat anomalies, the webhooks, the event    *)
(* stream, the alerts, the evidence, quarantine and scam assessments.         *)
EXTENDS GatewayServices, SecurityDesk, FiniteSetTheorems, WellFoundedInduction, TLAPS

NonceTimes == Nat \cup {Absent}

(* A nonce is stored while its message is in tolerance, so the time it was    *)
(* stored at and the timestamp are never further apart than the tolerance.    *)
NonceInTolerance ==
  \A m \in Messages : nonces[m] # Absent =>
    /\ nonces[m] <= now
    /\ m.ts - nonces[m] <= Tolerance

(* A verified message is remembered, or out of date for good.                 *)
Remembered ==
  \A m \in Messages : verified[m] >= 1 =>
    nonces[m] # Absent \/ now > m.ts + Tolerance

GateInv ==
  /\ now \in Nat
  /\ nonces \in [Messages -> NonceTimes]
  /\ verified \in [Messages -> Nat]
  /\ NonceInTolerance
  /\ Remembered
  /\ VerifiedOnce

LEMMA Timestamps == \A m \in Messages : m.ts \in Nat
  BY MessagesAssumption

LEMMA GateStarts == Init => GateInv
  BY DEF Init, GateInv, NonceTimes, Absent, NonceInTolerance, Remembered, VerifiedOnce

(* _cleanup_old_nonces: what it leaves of the store.                          *)
LEMMA RememberKeeps ==
  ASSUME GateInv, NEW m \in Messages
  PROVE  /\ Remember(m) \in [Messages -> NonceTimes]
         /\ Remember(m)[m] = now
         /\ \A x \in Messages :
              x # m => \/ Remember(m)[x] = nonces[x]
                       \/ /\ Remember(m)[x] = Absent
                          /\ nonces[x] # Absent /\ nonces[x] < now - NonceTTL
  BY DEF Remember, GateInv, NonceTimes, Absent

(* A message whose nonce was cleaned up has a timestamp out of tolerance: the *)
(* nonce was stored at most a tolerance before the timestamp, and is more     *)
(* than two tolerances old.                                                   *)
LEMMA ForgottenIsStale ==
  ASSUME GateInv, NEW x \in Messages, nonces[x] # Absent, nonces[x] < now - NonceTTL
  PROVE  now > x.ts + Tolerance
  <1>1. /\ now \in Nat /\ x.ts \in Nat /\ nonces[x] \in Nat
        /\ x.ts - nonces[x] <= Tolerance
    BY Timestamps DEF GateInv, NonceInTolerance, NonceTimes
  <1> QED BY <1>1, LimitsAssumption, TTLAssumption

(* A request with a signature, whatever becomes of it.                        *)
LEMMA VerifyKeeps ==
  ASSUME GateInv, NEW m \in Messages, NEW intact \in BOOLEAN,
         VerifyRequest(m, intact), UNCHANGED now
  PROVE  GateInv'
  <1> USE LimitsAssumption, Timestamps
  <1>1. CASE ~(Fresh(m) /\ nonces[m] = Absent)
    <2>1. UNCHANGED <<now, nonces, verified>>
      BY <1>1 DEF VerifyRequest, Verifies
    <2> QED BY <2>1 DEF GateInv, NonceInTolerance, Remembered, VerifiedOnce
  <1>2. CASE Fresh(m) /\ nonces[m] = Absent
    <2> DEFINE n == Remember(m)
    <2>1. /\ nonces' = n /\ n \in [Messages -> NonceTimes] /\ n[m] = now
          /\ \A x \in Messages :
               x # m => \/ n[x] = nonces[x]
                        \/ /\ n[x] = Absent
                           /\ nonces[x] # Absent /\ nonces[x] < now - NonceTTL
      BY <1>2, RememberKeeps DEF VerifyRequest
    <2> HIDE DEF n
    <2>2. /\ now \in Nat /\ now' = now /\ m.ts - now <= Tolerance
          /\ now <= m.ts + Tolerance
      BY <1>2 DEF Fresh, GateInv
    \* The nonce was absent and the timestamp is in tolerance, so the message
    \* was never verified.
    <2>3. verified \in [Messages -> Nat] /\ verified[m] = 0
      BY <1>2, <2>2 DEF GateInv, Remembered
    <2>4. verified' = verified \/ verified' = [verified EXCEPT ![m] = @ + 1]
      BY DEF VerifyRequest
    <2>5. /\ verified' \in [Messages -> Nat]
          /\ verified'[m] <= 1
          /\ \A x \in Messages : x # m => verified'[x] = verified[x]
      BY <2>3, <2>4
    <2>6. NonceInTolerance'
      <3> SUFFICES ASSUME NEW x \in Messages, n[x] # Absent
                   PROVE  n[x] <= now /\ x.ts - n[x] <= Tolerance
        BY <2>1, <2>2 DEF NonceInTolerance
      <3>1. CASE x = m
        BY <3>1, <2>1, <2>2
      <3>2. CASE x # m
        BY <3>2, <2>1 DEF GateInv, NonceInTolerance
      <3> QED BY <3>1, <3>2
    <2>7. Remembered'
      <3> SUFFICES ASSUME NEW x \in Messages, verified'[x] >= 1
                   PROVE  n[x] # Absent \/ now > x.ts + Tolerance
        BY <2>1, <2>2 DEF Remembered
      <3>1. CASE x = m
        BY <3>1, <2>1, <2>2 DEF Absent
      <3>2. CASE x # m /\ n[x] = nonces[x]
        BY <3>2, <2>5 DEF GateInv, Remembered
      <3>3. CASE x # m /\ n[x] # nonces[x]
        BY <3>3, <2>1, ForgottenIsStale
      <3> QED BY <3>1, <3>2, <3>3
    <2>8. VerifiedOnce'
      BY <2>5 DEF GateInv, VerifiedOnce
    <2> QED BY <2>1, <2>2, <2>5, <2>6, <2>7, <2>8 DEF GateInv
  <1> QED BY <1>1, <1>2

(* Time only makes what is out of date more so.                               *)
LEMMA GateTickKeeps == GateInv /\ Tick => GateInv'
  <1> SUFFICES ASSUME GateInv, Tick
               PROVE  GateInv'
    OBVIOUS
  <1>1. now \in Nat /\ now' = now + 1 /\ UNCHANGED <<nonces, verified>>
    BY DEF GateInv, Tick
  <1>2. NonceInTolerance'
    BY <1>1, Timestamps DEF GateInv, NonceInTolerance, NonceTimes
  <1>3. Remembered'
    BY <1>1, Timestamps, LimitsAssumption DEF GateInv, Remembered
  <1> QED BY <1>1, <1>2, <1>3 DEF GateInv, VerifiedOnce

LEMMA GateSteps == GateInv /\ [Next]_gateVars => GateInv'
  <1> SUFFICES ASSUME GateInv, [Next]_gateVars
               PROVE  GateInv'
    OBVIOUS
  <1>1. CASE ExemptPath \/ UnsignedRequest \/ UNCHANGED gateVars
    <2>1. UNCHANGED <<now, nonces, verified>>
      BY <1>1 DEF ExemptPath, UnsignedRequest, gateVars
    <2> QED BY <2>1 DEF GateInv, NonceInTolerance, Remembered, VerifiedOnce
  <1>2. CASE SignedRequest
    BY <1>2, VerifyKeeps DEF SignedRequest
  <1>3. CASE Tick
    BY <1>3, GateTickKeeps
  <1> QED BY <1>1, <1>2, <1>3 DEF Next

THEOREM GateHolds == Spec => []GateInv
  BY GateStarts, GateSteps, PTL DEF Spec

(* No signed message is verified a second time, however late or often it is   *)
(* sent again, whatever else passes RequestSignatureMiddleware meanwhile, and *)
(* also when the signer's clock runs ahead of the gateway's.                  *)
THEOREM VerifiesOnce == Spec => []VerifiedOnce
  <1>1. GateInv => VerifiedOnce
    BY DEF GateInv
  <1> QED BY <1>1, GateHolds, PTL

-----------------------------------------------------------------------------
(* A set of positions that has all those behind each of its own is a tail.    *)
LEMMA TailPositions ==
  ASSUME NEW n \in Nat, NEW I, I \subseteq 1..n,
         \A i \in I : \A j \in i..n : j \in I
  PROVE  \E a \in 1..(n + 1) : I = a..n
<1>1. CASE I = {}
  BY <1>1
<1>2. CASE I # {}
  <2>1. I \subseteq Nat
    OBVIOUS
  <2>2. PICK a \in I : \A i \in I : <<i, a>> \notin OpToRel(<, Nat)
    BY <1>2, <2>1, NatLessThanWellFounded, WFMin, Zenon
  <2>3. \A i \in I : ~(i < a)
    BY <2>1, <2>2, Zenon DEF OpToRel
  <2>4. \A i \in 1..n : i \in I <=> i \in a..n
    BY <2>1, <2>3
  <2>5. I = a..n
    BY <2>1, <2>4
  <2> QED
    BY <2>5
<1> QED
  BY <1>1, <1>2

(* What is kept of the positions of a tail is the tail.                       *)
KeptIsTail(s, n, a) ==
  Kept(s, a..n) = [k \in 1..(n - a + 1) |-> s[a + k - 1]]

LEMMA KeptTail ==
  ASSUME NEW n \in Nat, NEW s, NEW a \in 1..(n + 1)
  PROVE  KeptIsTail(s, n, a)
<1> SUFFICES Kept(s, a..n) = [k \in 1..(n - a + 1) |-> s[a + k - 1]]
  BY DEF KeptIsTail
<1>1. Cardinality(a..n) = n - a + 1
  <2>1. a \in Int /\ n \in Int /\ (a > n => n - a + 1 = 0)
    OBVIOUS
  <2>2. Cardinality(a..n) = IF a > n THEN 0 ELSE n - a + 1
    BY <2>1, FS_Interval
  <2> QED
    BY <2>1, <2>2
<1>2. ASSUME NEW k \in 1..(n - a + 1)
      PROVE  (CHOOSE i \in a..n : Cardinality({j \in a..n : j <= i}) = k) = a + k - 1
  <2>1. ASSUME NEW i \in a..n
        PROVE  Cardinality({j \in a..n : j <= i}) = i - a + 1
    <3>1. {j \in a..n : j <= i} = a..i /\ a \in Int /\ i \in Int /\ ~(a > i)
      OBVIOUS
    <3>2. Cardinality(a..i) = i - a + 1
      BY <3>1, FS_Interval
    <3> QED
      BY <3>1, <3>2
  <2>2. a + k - 1 \in a..n
    OBVIOUS
  <2>3. \A i \in a..n : Cardinality({j \in a..n : j <= i}) = k <=> i = a + k - 1
    BY <2>1
  <2> QED
    BY <2>2, <2>3
<1>3. \A k \in 1..(n - a + 1) :
        s[CHOOSE i \in a..n : Cardinality({j \in a..n : j <= i}) = k] = s[a + k - 1]
  BY <1>2
<1>4. Kept(s, a..n) = [k \in 1..(n - a + 1) |->
        s[CHOOSE i \in a..n : Cardinality({j \in a..n : j <= i}) = k]]
  BY <1>1 DEF Kept
<1> QED
  BY <1>3, <1>4

-----------------------------------------------------------------------------
(* The rate limit.                                                            *)
(* b has the last of the requests adm that were let in, and those it has no   *)
(* more left the window.                                                      *)
Remembers(b, adm) ==
  /\ Len(b) <= Len(adm)
  /\ \A i \in 1..Len(b) : b[i] = adm[Len(adm) - Len(b) + i]
  /\ \A i \in 1..(Len(adm) - Len(b)) : adm[i] <= now - Window

Spaced(adm) ==
  \A i, j \in 1..Len(adm) : j = i + Requests => adm[j] >= adm[i] + Window

LimitInv ==
  /\ now \in Nat
  /\ bucket \in [Clients -> Seq(Nat)] /\ admitted \in [Clients -> Seq(Nat)]
  /\ \A c \in Clients :
       /\ \A i, j \in 1..Len(admitted[c]) : i <= j => admitted[c][i] <= admitted[c][j]
       /\ \A i \in 1..Len(admitted[c]) : admitted[c][i] <= now
       /\ Remembers(bucket[c], admitted[c])
       /\ Spaced(admitted[c])

LEMMA RecentRemembers ==
  ASSUME LimitInv, NEW c \in Clients
  PROVE  Recent(c) \in Seq(Nat) /\ Remembers(Recent(c), admitted[c])
<1> DEFINE b == bucket[c]
           adm == admitted[c]
           n == Len(b)
           I == {i \in DOMAIN b : b[i] > now - Window}
<1>1. /\ b \in Seq(Nat) /\ adm \in Seq(Nat) /\ n \in Nat /\ Len(adm) \in Nat
      /\ DOMAIN b = 1..n /\ \A i \in 1..n : b[i] \in Nat
      /\ \A i \in 1..Len(adm) : adm[i] \in Nat
      /\ \A i, j \in 1..Len(adm) : i <= j => adm[i] <= adm[j]
      /\ Remembers(b, adm) /\ now \in Nat
  BY DEF LimitInv
<1>2. Recent(c) = Kept(b, I)
  BY DEF Recent
<1> HIDE DEF b, adm, n
<1>3. /\ n <= Len(adm)
      /\ \A i \in 1..n : b[i] = adm[Len(adm) - n + i]
      /\ \A i \in 1..(Len(adm) - n) : adm[i] <= now - Window
  BY <1>1 DEF Remembers, n
<1>4. \A i \in I : \A j \in i..n : j \in I
  <2> SUFFICES ASSUME NEW i \in I, NEW j \in i..n PROVE b[j] > now - Window
    BY <1>1
  <2>0. i \in 1..n /\ j \in 1..n /\ i <= j
    BY <1>1
  <2>1. /\ i \in 1..n /\ j \in 1..n
        /\ Len(adm) - n + i \in 1..Len(adm) /\ Len(adm) - n + j \in 1..Len(adm)
        /\ Len(adm) - n + i <= Len(adm) - n + j
    BY ONLY <2>0, <1>1, <1>3
  <2>2. b[i] <= b[j] /\ b[i] \in Nat /\ b[j] \in Nat /\ b[i] > now - Window
    BY <1>1, <1>3, <2>1
  <2> QED
    BY <1>1, <2>2, LimitsAssumption
<1>5. I \subseteq 1..n
  BY <1>1
<1> HIDE DEF I
<1>6. PICK a \in 1..(n + 1) : I = a..n
  BY <1>1, <1>4, <1>5, TailPositions
<1> DEFINE r == Recent(c)
<1>7. r = [k \in 1..(n - a + 1) |-> b[a + k - 1]]
  <2>1. Kept(b, a..n) = [k \in 1..(n - a + 1) |-> b[a + k - 1]]
    <3>1. n \in Nat /\ a \in 1..(n + 1)
      BY <1>1
    <3>2. KeptIsTail(b, n, a)
      BY <3>1, KeptTail
    <3> QED
      BY <3>2 DEF KeptIsTail
  <2> QED
    BY <1>2, <1>6, <2>1
<1> HIDE DEF r
<1>8. r \in Seq(Nat) /\ Len(r) = n - a + 1 /\ DOMAIN r = 1..(n - a + 1)
  <2>1. \A k \in 1..(n - a + 1) : a + k - 1 \in 1..n /\ b[a + k - 1] \in Nat
    BY <1>1
  <2>2. n - a + 1 \in Nat
    BY <1>1
  <2> QED
    BY <1>7, <2>1, <2>2
<1>9. ASSUME NEW i \in 1..(Len(adm) - Len(r)) PROVE adm[i] <= now - Window
  <2>1. CASE i <= Len(adm) - n
    BY <1>1, <1>3, <1>8, <2>1
  <2>2. CASE ~(i <= Len(adm) - n)
    <3> DEFINE p == i - (Len(adm) - n)
    <3>1. p \in 1..n /\ p \notin a..n /\ i = Len(adm) - n + p
      BY <1>1, <1>3, <1>8, <2>2
    <3>2. ~(b[p] > now - Window) /\ b[p] \in Nat /\ b[p] = adm[i]
      BY <1>1, <1>3, <1>6, <3>1 DEF I
    <3> QED
      BY <1>1, <3>2, LimitsAssumption
  <2> QED
    BY <2>1, <2>2
<1>10. \A k \in 1..Len(r) : r[k] = adm[Len(adm) - Len(r) + k]
  <2> SUFFICES ASSUME NEW k \in 1..Len(r) PROVE r[k] = adm[Len(adm) - Len(r) + k]
    OBVIOUS
  <2>1. a + k - 1 \in 1..n /\ Len(adm) - n + (a + k - 1) = Len(adm) - Len(r) + k
    BY <1>1, <1>8
  <2> QED
    BY <1>3, <1>7, <1>8, <2>1
<1>11. Remembers(r, adm)
  <2>1. Len(r) <= Len(adm)
    BY <1>1, <1>3, <1>8
  <2> QED
    BY <1>9, <1>10, <2>1 DEF Remembers
<1> QED
  BY <1>8, <1>11 DEF r, adm

(* A request let in comes a window after the one the limit before it.         *)
LEMMA AdmittedInTime ==
  ASSUME NEW b \in Seq(Nat), NEW adm \in Seq(Nat), now \in Nat,
         Remembers(b, adm), Spaced(adm), Len(b) < Requests,
         \A i \in 1..Len(adm) : adm[i] <= now
  PROVE  Remembers(Append(b, now), Append(adm, now)) /\ Spaced(Append(adm, now))
<1> DEFINE n == Len(adm)
           more == Append(adm, now)
           b2 == Append(b, now)
<1>1. /\ n \in Nat /\ Len(b) \in Nat /\ Len(more) = n + 1 /\ Len(b2) = Len(b) + 1
      /\ more[n + 1] = now /\ \A i \in 1..n : more[i] = adm[i] /\ adm[i] \in Nat
      /\ b2[Len(b) + 1] = now /\ \A i \in 1..Len(b) : b2[i] = b[i]
  OBVIOUS
<1>2. /\ Len(b) <= n /\ \A i \in 1..Len(b) : b[i] = adm[n - Len(b) + i]
      /\ \A i \in 1..(n - Len(b)) : adm[i] <= now - Window
  BY DEF Remembers
<1>3. \A i, j \in 1..n : j = i + Requests => adm[j] >= adm[i] + Window
  BY DEF Spaced
<1> HIDE DEF n, more, b2
<1>4. ASSUME NEW i \in 1..Len(b2) PROVE b2[i] = more[Len(more) - Len(b2) + i]
  <2>1. CASE i = Len(b) + 1
    BY <1>1, <1>2, <2>1
  <2>2. CASE i # Len(b) + 1
    <3>1. i \in 1..Len(b) /\ n - Len(b) + i \in 1..n
          /\ Len(more) - Len(b2) + i = n - Len(b) + i
      BY <1>1, <1>2, <2>2
    <3> QED
      BY <1>1, <1>2, <3>1
  <2> QED
    BY <2>1, <2>2
<1>5. ASSUME NEW i \in 1..(Len(more) - Len(b2)) PROVE more[i] <= now - Window
  <2>1. i \in 1..(n - Len(b)) /\ i \in 1..n
    BY <1>1, <1>2
  <2> QED
    BY <1>1, <1>2, <2>1
<1>6. Remembers(b2, more)
  BY <1>1, <1>2, <1>4, <1>5 DEF Remembers
<1>7. ASSUME NEW i \in 1..Len(more), NEW j \in 1..Len(more), j = i + Requests
      PROVE  more[j] >= more[i] + Window
  <2>1. CASE j <= n
    <3>1. i \in 1..n /\ j \in 1..n
      BY <1>1, <1>7, <2>1, LimitsAssumption
    <3> QED
      BY <1>1, <1>3, <1>7, <3>1
  <2>2. CASE ~(j <= n)
    <3>1. j = n + 1 /\ i \in 1..(n - Len(b)) /\ i \in 1..n
      BY <1>1, <1>2, <1>7, <2>2, LimitsAssumption
    <3>2. more[i] <= now - Window /\ more[i] \in Nat /\ more[j] = now
      BY <1>1, <1>2, <3>1
    <3> QED
      BY <3>2, LimitsAssumption
  <2> QED
    BY <2>1, <2>2
<1> QED
  BY <1>6, <1>7 DEF Spaced, more, b2

LEMMA LimitSteps ==
  ASSUME LimitInv, Next \/ UNCHANGED gateVars
  PROVE  LimitInv'
<1>1. CASE UNCHANGED <<now, bucket, admitted>>
  BY <1>1 DEF LimitInv, Remembers, Spaced
<1>2. ASSUME NEW c \in Clients, PassLimit(c), UNCHANGED now PROVE LimitInv'
  <2> DEFINE r == Recent(c)
             adm == admitted[c]
  <2>1. r \in Seq(Nat) /\ Remembers(r, adm)
    BY RecentRemembers
  <2>2. /\ adm \in Seq(Nat) /\ now \in Nat
        /\ \A i, j \in 1..Len(adm) : i <= j => adm[i] <= adm[j]
        /\ \A i \in 1..Len(adm) : adm[i] <= now
        /\ Spaced(adm)
    BY DEF LimitInv
  <2>3. Check(c)
    BY <1>2 DEF PassLimit
  <2>4. \A x \in Clients : x # c =>
          bucket'[x] = bucket[x] /\ admitted'[x] = admitted[x]
    BY <2>3 DEF Check, LimitInv
  <2>5. CASE Len(r) >= Requests
    <3>1. bucket' = [bucket EXCEPT ![c] = r] /\ admitted' = admitted
      BY <2>3, <2>5 DEF Check
    <3> HIDE DEF r
    <3>2. bucket' \in [Clients -> Seq(Nat)] /\ bucket'[c] = r
      BY <2>1, <3>1 DEF LimitInv
    <3>3. \A x \in Clients : Remembers(bucket'[x], admitted[x])
      BY <2>1, <2>4, <3>1, <3>2 DEF LimitInv
    <3> QED
      BY <1>2, <3>1, <3>2, <3>3 DEF LimitInv, Remembers, Spaced
  <2>6. CASE ~(Len(r) >= Requests)
    <3>1. bucket' = [bucket EXCEPT ![c] = Append(r, now)]
          /\ admitted' = [admitted EXCEPT ![c] = Append(adm, now)]
      BY <2>3, <2>6 DEF Check
    <3> HIDE DEF r
    <3>2. Len(r) < Requests
      BY <2>1, <2>6, LimitsAssumption
    <3> DEFINE more == Append(adm, now)
    <3>3. Remembers(Append(r, now), more) /\ Spaced(more)
      <4>0. adm \in Seq(Nat) /\ \A i \in 1..Len(adm) : adm[i] <= now
        BY <2>2
      <4> HIDE DEF adm
      <4> QED
        BY <2>1, <2>2, <4>0, <3>2, AdmittedInTime
    <3>4. more \in Seq(Nat) /\ Append(r, now) \in Seq(Nat)
      BY <2>1, <2>2
    <3>5. /\ \A i, j \in 1..Len(more) : i <= j => more[i] <= more[j]
          /\ \A i \in 1..Len(more) : more[i] <= now
      <4> HIDE DEF adm
      <4>1. /\ Len(adm) \in Nat /\ Len(more) = Len(adm) + 1 /\ more[Len(adm) + 1] = now
            /\ \A i \in 1..Len(adm) : more[i] = adm[i] /\ adm[i] \in Nat
        BY <2>2
      <4> HIDE DEF more
      <4>2. \A i \in 1..Len(more) : more[i] <= now
        BY <2>2, <4>1
      <4>3. ASSUME NEW i \in 1..Len(more), NEW j \in 1..Len(more), i <= j
            PROVE  more[i] <= more[j]
        <5>1. CASE j = Len(adm) + 1
          BY <4>1, <4>2, <5>1
        <5>2. CASE j # Len(adm) + 1
          <6>1. i \in 1..Len(adm) /\ j \in 1..Len(adm)
            BY <4>1, <4>3, <5>2
          <6> QED
            BY <2>2, <4>1, <4>3, <6>1
        <5> QED
          BY <5>1, <5>2
      <4> QED
        BY <4>2, <4>3
    <3> HIDE DEF more
    <3>6. /\ bucket' \in [Clients -> Seq(Nat)] /\ admitted' \in [Clients -> Seq(Nat)]
          /\ bucket'[c] = Append(r, now) /\ admitted'[c] = more
      BY <3>1, <3>4 DEF LimitInv, more
    <3>7. ASSUME NEW x \in Clients
          PROVE  /\ \A i, j \in 1..Len(admitted'[x]) : i <= j => admitted'[x][i] <= admitted'[x][j]
                 /\ \A i \in 1..Len(admitted'[x]) : admitted'[x][i] <= now
                 /\ Remembers(bucket'[x], admitted'[x]) /\ Spaced(admitted'[x])
      <4>1. CASE x = c
        BY <3>3, <3>5, <3>6, <4>1
      <4>2. CASE x # c
        BY <2>4, <4>2 DEF LimitInv
      <4> QED
        BY <4>1, <4>2
    <3>8. now' = now /\ now \in Nat
      BY <1>2, <2>2
    <3> QED
      BY <3>6, <3>7, <3>8 DEF LimitInv, Remembers, Spaced
  <2> QED
    BY <2>5, <2>6
<1>3. CASE ExemptPath \/ UNCHANGED gateVars
  BY <1>1, <1>3 DEF ExemptPath, gateVars
<1>4. CASE UnsignedRequest
  BY <1>1, <1>2, <1>4 DEF UnsignedRequest
<1>5. CASE SignedRequest
  BY <1>1, <1>2, <1>5 DEF SignedRequest
<1>6. CASE Tick
  <2>1. /\ now \in Nat /\ now' = now + 1 /\ UNCHANGED <<bucket, admitted>>
        /\ \A c \in Clients : admitted[c] \in Seq(Nat)
    BY <1>6 DEF Tick, LimitInv
  <2>2. ASSUME NEW c \in Clients
        PROVE  /\ \A i \in 1..Len(admitted[c]) : admitted[c][i] <= now + 1
               /\ \A i \in 1..(Len(admitted[c]) - Len(bucket[c])) :
                    admitted[c][i] <= (now + 1) - Window
    <3> DEFINE adm == admitted[c]
               n == Len(adm)
               l == Len(bucket[c])
    <3>1. /\ adm \in Seq(Nat) /\ n \in Nat /\ l \in Nat /\ l <= n
          /\ \A i \in 1..n : adm[i] \in Nat /\ adm[i] <= now
          /\ \A i \in 1..(n - l) : adm[i] <= now - Window
      BY DEF LimitInv, Remembers
    <3> HIDE DEF adm, n, l
    <3>2. \A i \in 1..n : adm[i] <= now + 1
      BY <2>1, <3>1
    <3>3. \A i \in 1..(n - l) : i \in 1..n /\ adm[i] <= (now + 1) - Window
      BY <2>1, <3>1, LimitsAssumption
    <3> QED
      BY <3>2, <3>3 DEF adm, n, l
  <2> QED
    BY <2>1, <2>2 DEF LimitInv, Remembers, Spaced
<1> QED
  BY <1>3, <1>4, <1>5, <1>6 DEF Next

(* No window of time holds more requests of a client than the limit, however  *)
(* rejected calls, pruning and the clock alternate (core_engine/security/     *)
(* advanced.py).                                                              *)
THEOREM LimitHolds == Spec => []NoWindowOverLimit
<1>1. Init => LimitInv
  BY DEF Init, LimitInv, Remembers, Spaced
<1>2. LimitInv /\ [Next]_gateVars => LimitInv'
  BY LimitSteps
<1>3. LimitInv => NoWindowOverLimit
  BY DEF LimitInv, Spaced, NoWindowOverLimit
<1> QED
  BY <1>1, <1>2, <1>3, PTL DEF Spec

-----------------------------------------------------------------------------
(* Every step of the gateway is a step of a service or leaves it alone.       *)
LEMMA OneServiceSteps ==
  ASSUME [ServicesNext]_vars
  PROVE  /\ Next \/ UNCHANGED gateVars
         /\ Keys!Next \/ UNCHANGED keys
         /\ Hook!Next \/ UNCHANGED webhooks
         /\ Stream!Next \/ UNCHANGED stream
         /\ Chat!Next \/ UNCHANGED chat
         /\ Batch!Next \/ UNCHANGED batch
         /\ Vault!Next \/ UNCHANGED vaults
  BY DEF ServicesNext, vars

-----------------------------------------------------------------------------
(* The secret backends.                                                       *)
LoggedInOnly ==
  backend \in {"token", "aws"} =>
    /\ clients \in {"none", "ready"}
    /\ \A c \in Calls : call[c] \notin {"asking tokenless", "nothing without a login"}

VaultInv ==
  /\ backend \in {"envfile", "token", "approle", "aws"}
  /\ call \in [Calls -> {"new", "login", "asking", "asking tokenless", "answered",
                         "nothing", "nothing without a login", "raised"}]
  /\ LoggedInOnly

LEMMA VaultSteps ==
  ASSUME VaultInv, Vault!Next \/ UNCHANGED vaults
  PROVE  VaultInv'
<1> USE DEF VaultInv, LoggedInOnly
<1>1. ASSUME NEW c \in Calls, Vault!CallEnvironment(c), UNCHANGED backend PROVE VaultInv'
  BY <1>1 DEF Vault!CallEnvironment
<1>2. ASSUME NEW c \in Calls, Vault!CallVault(c), UNCHANGED backend PROVE VaultInv'
  BY <1>2 DEF Vault!CallVault
<1>3. ASSUME NEW c \in Calls, Vault!LoggedIn(c), UNCHANGED backend PROVE VaultInv'
  BY <1>3 DEF Vault!LoggedIn
<1>4. ASSUME NEW c \in Calls, Vault!LoginFails(c), UNCHANGED backend PROVE VaultInv'
  BY <1>4 DEF Vault!LoginFails
<1>5. ASSUME NEW c \in Calls, Vault!Answered(c), UNCHANGED backend PROVE VaultInv'
  BY <1>5 DEF Vault!Answered
<1>6. CASE Vault!FeedStep \/ UNCHANGED vaults
  BY <1>6 DEF Vault!FeedStep, vaults
<1> QED
  BY <1>1, <1>2, <1>3, <1>4, <1>5, <1>6 DEF Vault!Next, Vault!VaultStep

(* With a token or with AWS no call goes out through a client that is not     *)
(* logged in, however many calls overlap and whichever login fails            *)
(* (security/advanced.py).                                                    *)
THEOREM AsksOnlyLoggedIn == ServicesSpec => []NeverAsksWithoutLogin
<1>1. ServicesInit => VaultInv
  BY DEF ServicesInit, Vault!Init, VaultInv, LoggedInOnly
<1>2. VaultInv /\ [ServicesNext]_vars => VaultInv'
  BY OneServiceSteps, VaultSteps
<1>3. VaultInv => NeverAsksWithoutLogin
  BY DEF VaultInv, LoggedInOnly, NeverAsksWithoutLogin, Vault!NeverAsksWithoutLogin
<1> QED
  BY <1>1, <1>2, <1>3, PTL DEF ServicesSpec

-----------------------------------------------------------------------------
(* The users' keys.                                                           *)
FileRecord == [state : {"none", "whole", "torn"}, keys : SUBSET Providers, secret : Nat]

(* The file and the session of a user whose writes went well tell what she    *)
(* was told.                                                                  *)
OneStory(u) ==
  \/ /\ file[u].state = "whole" /\ file[u].secret = secret /\ file[u].keys = promised[u]
     /\ session[u] \in {Keys!Nothing, promised[u]}
  \/ file[u].state = "none" /\ promised[u] = Keys!Nothing /\ session[u] = Keys!Nothing

KeysInv ==
  /\ secret \in Nat
  /\ file \in [Users -> FileRecord]
  /\ session \in [Users -> SUBSET (Providers \cup Keys!Garbage)]
  /\ promised \in [Users -> SUBSET Providers] /\ disturbed \in [Users -> BOOLEAN]
  /\ \A u \in Users : ~disturbed[u] => OneStory(u)

LEMMA KeysStart == Keys!Init => KeysInv
BY DEF Keys!Init, KeysInv, OneStory, FileRecord, Keys!NoFile, Keys!Nothing

LEMMA KeysSteps ==
  ASSUME KeysInv, Keys!Next \/ UNCHANGED keys
  PROVE  KeysInv'
<1>1. CASE Keys!CreateAPIKey \/ Keys!RevokeKey \/ UNCHANGED keys
  <2>1. UNCHANGED <<session, file, secret, promised, disturbed>>
    BY <1>1 DEF Keys!CreateAPIKey, Keys!RevokeKey, Keys!userVars, keys
  <2> QED
    BY <2>1 DEF KeysInv, OneStory
<1>2. CASE Keys!SetUserKeys
  <2>1. PICK u \in Users, ks \in SUBSET Providers, written \in {"all", "part", "nothing"} :
          /\ session' = [session EXCEPT ![u] = ks]
          /\ file' = CASE written = "all" -> [file EXCEPT ![u] = Keys!Written(ks)]
                       [] written = "part" -> [file EXCEPT ![u].state = "torn"]
                       [] written = "nothing" -> file
          /\ promised' = [promised EXCEPT ![u] = ks]
          /\ disturbed' = [disturbed EXCEPT ![u] = written # "all"]
          /\ UNCHANGED secret
    BY <1>2 DEF Keys!SetUserKeys, Keys!SetKeys
  <2>2. Keys!Written(ks) \in FileRecord
    BY DEF Keys!Written, FileRecord, KeysInv
  <2>3. [file[u] EXCEPT !.state = "torn"] \in FileRecord
    BY DEF FileRecord, KeysInv
  <2>4. file' \in [Users -> FileRecord]
    BY <2>1, <2>2, <2>3 DEF KeysInv
  <2>5. ASSUME NEW w \in Users, ~disturbed'[w] PROVE OneStory(w)'
    <3>1. CASE w = u
      <4>1. written = "all" /\ file'[u] = Keys!Written(ks)
        BY <2>1, <2>5, <3>1 DEF KeysInv
      <4>2. session'[u] = ks /\ promised'[u] = ks
        BY <2>1 DEF KeysInv
      <4> QED
        BY <2>1, <3>1, <4>1, <4>2 DEF OneStory, Keys!Written
    <3>2. CASE w # u
      <4>1. file'[w] = file[w] /\ session'[w] = session[w] /\ promised'[w] = promised[w]
            /\ disturbed'[w] = disturbed[w]
        BY <2>1, <3>2 DEF KeysInv
      <4> QED
        BY <2>1, <2>5, <4>1 DEF KeysInv, OneStory
    <3> QED
      BY <3>1, <3>2
  <2> QED
    BY <2>1, <2>4, <2>5 DEF KeysInv
<1>3. CASE Keys!CheckKeys
  <2>1. PICK u \in Users : \E ks \in Keys!LoadKeys(u) :
          /\ session' = [session EXCEPT ![u] = ks]
          /\ UNCHANGED <<file, secret, promised, disturbed>>
    BY <1>3 DEF Keys!CheckKeys
  <2>2. PICK ks \in Keys!LoadKeys(u) : session' = [session EXCEPT ![u] = ks]
    BY <2>1
  <2>3. ks \in SUBSET (Providers \cup Keys!Garbage)
    BY <2>2 DEF Keys!LoadKeys, Keys!Decrypted, KeysInv, FileRecord, Keys!Nothing
  <2>4. ~disturbed[u] => ks = promised[u]
    BY <2>2 DEF Keys!LoadKeys, Keys!Decrypted, KeysInv, OneStory
  <2>5. ~disturbed[u] => OneStory(u)'
    BY <2>1, <2>2, <2>4 DEF KeysInv, OneStory
  <2>6. \A w \in Users : w # u => session'[w] = session[w]
    BY <2>2 DEF KeysInv
  <2> QED
    BY <2>1, <2>2, <2>3, <2>5, <2>6 DEF KeysInv, OneStory
<1>4. CASE Keys!ClearUserKeys
  BY <1>4 DEF Keys!ClearUserKeys, Keys!ClearKeys, KeysInv, OneStory, FileRecord, Keys!NoFile,
              Keys!Nothing
<1>5. CASE Keys!Restart
  BY <1>5 DEF Keys!Restart, KeysInv, OneStory, Keys!Nothing
<1> QED
  BY <1>1, <1>2, <1>3, <1>4, <1>5 DEF Keys!Next

(* What a user is told about her keys is what her last request left, before   *)
(* and after any number of restarts and changes of the secret that did not    *)
(* touch her file (core_engine/api_keys.py, gateway/routes/keys.py).          *)
THEOREM KeysTellOneStory == ServicesSpec => []KeysSurviveRestart
<1>1. ServicesInit => KeysInv
  BY KeysStart DEF ServicesInit
<1>2. KeysInv /\ [ServicesNext]_vars => KeysInv'
  BY OneServiceSteps, KeysSteps
<1>3. KeysInv => KeysSurviveRestart
  BY DEF KeysInv, OneStory, KeysSurviveRestart, Keys!KeysSurviveRestart, Keys!LoadKeys,
         Keys!Decrypted
<1> QED
  BY <1>1, <1>2, <1>3, PTL DEF ServicesSpec

-----------------------------------------------------------------------------
(* A batch.                                                                   *)
LEMMA BatchCardinality == \A S : Batch!Cardinality(S) = Cardinality(S)
BY DEF Batch!Cardinality, Cardinality

OpState == {"waiting", "thinking", "done", "failed"}
BatchRecord == [kind : {"none", "chat", "translate"}, size : Nat, continue : BOOLEAN,
                op : Seq(OpState), results : Seq([item : Nat, ok : BOOLEAN]),
                success : Nat, error : Nat,
                answer : {"none", "open", "refused", "failed", "whole"}]

(* The items of b in a state of S, and the results of b that are fine.        *)
InState(b, S) == {i \in DOMAIN b.op : b.op[i] \in S}
Fine(b) == {k \in DOMAIN b.results : b.results[k].ok}

(* So far b has one result of each item that ended, and counts them.          *)
Accounted(b) ==
  /\ Len(b.results) = Cardinality(InState(b, {"done", "failed"}))
  /\ b.success = Cardinality(InState(b, {"done"})) /\ b.success = Cardinality(Fine(b))
  /\ b.error = Cardinality(InState(b, {"failed"}))
  /\ \A i \in InState(b, {"done", "failed"}) :
       \E k \in DOMAIN b.results : b.results[k] = [item |-> i, ok |-> b.op[i] = "done"]

BatchSound(b) ==
  /\ b \in BatchRecord /\ Len(b.op) = b.size
  /\ b.kind # "translate" => InState(b, {"waiting", "thinking"}) = {}
  /\ Cardinality(InState(b, {"thinking"})) <= Concurrency
  /\ b.answer \in {"open", "whole"} => Accounted(b)
  /\ b.answer = "whole" => InState(b, {"done", "failed"}) = 1..b.size

LEMMA InStateFinite ==
  ASSUME NEW b \in BatchRecord, NEW S
  PROVE  /\ IsFiniteSet(InState(b, S)) /\ Cardinality(InState(b, S)) \in Nat
         /\ InState(b, S) \subseteq 1..Len(b.op) /\ Len(b.op) \in Nat
<1> DEFINE n == Len(b.op)
<1>1. b.op \in Seq(OpState)
  BY DEF BatchRecord
<1>2. n \in Nat /\ DOMAIN b.op = 1..n
  BY <1>1
<1>3. InState(b, S) \subseteq 1..n
  BY <1>2 DEF InState
<1> HIDE DEF n
<1>4. IsFiniteSet(1..n)
  BY <1>2, FS_Interval
<1>5. IsFiniteSet(InState(b, S))
  BY <1>3, <1>4, FS_Subset
<1> QED
  BY <1>2, <1>3, <1>5, FS_CardinalityType DEF n

LEMMA FineFinite ==
  ASSUME NEW b \in BatchRecord
  PROVE  IsFiniteSet(Fine(b)) /\ Cardinality(Fine(b)) \in Nat
         /\ Fine(b) \subseteq 1..Len(b.results) /\ Len(b.results) \in Nat
<1> DEFINE n == Len(b.results)
<1>1. n \in Nat /\ DOMAIN b.results = 1..n
  BY DEF BatchRecord
<1>2. Fine(b) \subseteq 1..n
  BY <1>1 DEF Fine
<1> HIDE DEF n
<1>3. IsFiniteSet(1..n)
  BY <1>1, FS_Interval
<1>4. IsFiniteSet(Fine(b))
  BY <1>2, <1>3, FS_Subset
<1> QED
  BY <1>1, <1>2, <1>4, FS_CardinalityType DEF n

(* What is asked of an answered batch.                                        *)
LEMMA SoundAccounts == BatchSound(batch) => BatchAccounts
<1> SUFFICES ASSUME BatchSound(batch) PROVE BatchAccounts
  OBVIOUS
<1>1. batch \in BatchRecord
  BY DEF BatchSound
<1>2. Batch!Thinking = InState(batch, {"thinking"})
  BY DEF Batch!Thinking, InState
<1>3. batch.kind = "translate" => Batch!Cardinality(Batch!Thinking) <= Concurrency
  BY <1>2, BatchCardinality DEF BatchSound
<1>4. ASSUME batch.answer = "whole"
      PROVE  /\ Len(batch.results) = batch.size
             /\ batch.success + batch.error = batch.size
             /\ \A i \in 1..batch.size :
                  \E k \in DOMAIN batch.results :
                    batch.results[k] = [item |-> i, ok |-> batch.op[i] = "done"]
             /\ batch.success = Cardinality(Fine(batch))
  <2>1. /\ Accounted(batch) /\ InState(batch, {"done", "failed"}) = 1..batch.size
        /\ batch.size \in Nat
    BY <1>4 DEF BatchSound, BatchRecord
  <2>2. Cardinality(1..batch.size) = batch.size
    <3> DEFINE n == batch.size
    <3>1. n \in Nat
      BY <2>1
    <3> HIDE DEF n
    <3>2. Cardinality(1..n) = n
      BY <3>1, FS_Interval
    <3> QED
      BY <3>2 DEF n
  <2>3. /\ InState(batch, {"done", "failed"})
             = InState(batch, {"done"}) \cup InState(batch, {"failed"})
        /\ InState(batch, {"done"}) \cap InState(batch, {"failed"}) = {}
    BY DEF InState
  <2>4. Cardinality(InState(batch, {"done"}) \cup InState(batch, {"failed"}))
          = Cardinality(InState(batch, {"done"})) + Cardinality(InState(batch, {"failed"}))
    <3> DEFINE D == InState(batch, {"done"})
               F == InState(batch, {"failed"})
    <3>1. IsFiniteSet(D) /\ IsFiniteSet(F) /\ D \cap F = {}
          /\ Cardinality(D) \in Nat /\ Cardinality(F) \in Nat
      BY <1>1, <2>3, InStateFinite
    <3> HIDE DEF D, F
    <3>2. Cardinality(D \cup F) = Cardinality(D) + Cardinality(F) - Cardinality({})
      BY <3>1, FS_Union
    <3>3. Cardinality({}) = 0
      BY FS_EmptySet
    <3>4. Cardinality(D \cup F) = Cardinality(D) + Cardinality(F)
      BY <3>1, <3>2, <3>3
    <3> QED
      BY <3>4 DEF D, F
  <2> QED
    BY <2>1, <2>2, <2>3, <2>4 DEF Accounted
<1> QED
  BY <1>3, <1>4, BatchCardinality DEF BatchAccounts, Batch!BatchAccounts, Fine

(* In b2 an item of b has gone to another state.                              *)
Moved(b2, b, i, st) ==
  /\ b2.op \in Seq(OpState) /\ Len(b2.op) = Len(b.op) /\ b2.op[i] = st
  /\ DOMAIN b2.op = DOMAIN b.op
  /\ \A j \in DOMAIN b.op : j # i => b2.op[j] = b.op[j]
  /\ \A S : InState(b2, S) = IF st \in S THEN InState(b, S) \cup {i} ELSE InState(b, S) \ {i}

LEMMA ItemMoves ==
  ASSUME NEW b \in BatchRecord, NEW i \in DOMAIN b.op, NEW st \in OpState,
         NEW b2, b2.op = [b.op EXCEPT ![i] = st]
  PROVE  Moved(b2, b, i, st)
<1>1. b.op \in Seq(OpState)
  BY DEF BatchRecord
<1>2. /\ b2.op \in Seq(OpState) /\ Len(b2.op) = Len(b.op) /\ b2.op[i] = st
      /\ DOMAIN b2.op = DOMAIN b.op
      /\ \A j \in DOMAIN b.op : j # i => b2.op[j] = b.op[j]
  BY <1>1
<1> QED
  BY <1>2 DEF InState, Moved

(* What a set of the items of b has with one more, and one less.              *)
LEMMA OneItem ==
  ASSUME NEW b \in BatchRecord, NEW S, NEW i
  PROVE  /\ i \notin InState(b, S) =>
              Cardinality(InState(b, S) \cup {i}) = Cardinality(InState(b, S)) + 1
         /\ Cardinality(InState(b, S) \ {i}) <= Cardinality(InState(b, S))
         /\ i \notin InState(b, S) => InState(b, S) \ {i} = InState(b, S)
<1>1. IsFiniteSet(InState(b, S))
  BY InStateFinite
<1>2. InState(b, S) \ {i} \subseteq InState(b, S)
  OBVIOUS
<1> QED
  BY <1>1, <1>2, FS_AddElement, FS_Subset

(* An item that was thinking ends as it should, with a result.                *)
LEMMA ItemEnds ==
  ASSUME NEW b, BatchSound(b), NEW i \in InState(b, {"thinking"}), NEW ok \in BOOLEAN, NEW b2,
         b2 = [b EXCEPT !.op[i] = IF ok THEN "done" ELSE "failed",
                        !.results = Append(@, [item |-> i, ok |-> ok]),
                        !.success = IF ok THEN @ + 1 ELSE @,
                        !.error = IF ok THEN @ ELSE @ + 1]
  PROVE  BatchSound(b2)
<1> DEFINE st == IF ok THEN "done" ELSE "failed"
           r == [item |-> i, ok |-> ok]
<1>1. b \in BatchRecord /\ b.op \in Seq(OpState) /\ b.results \in Seq([item : Nat, ok : BOOLEAN])
      /\ b.success \in Nat /\ b.error \in Nat
  BY DEF BatchSound, BatchRecord
<1>2. i \in DOMAIN b.op /\ b.op[i] = "thinking" /\ i \in Nat
  BY <1>1 DEF InState
<1>3. st \in OpState /\ r \in [item : Nat, ok : BOOLEAN]
  BY <1>2 DEF OpState
<1>4. /\ b2.op = [b.op EXCEPT ![i] = st] /\ b2.results = Append(b.results, r)
      /\ b2.success = IF ok THEN b.success + 1 ELSE b.success
      /\ b2.error = IF ok THEN b.error ELSE b.error + 1
      /\ b2.kind = b.kind /\ b2.size = b.size /\ b2.answer = b.answer
      /\ b2.continue = b.continue
  BY DEF BatchSound, BatchRecord
<1>0. b2 = [kind |-> b.kind, size |-> b.size, continue |-> b.continue, op |-> b2.op,
            results |-> b2.results, success |-> b2.success, error |-> b2.error,
            answer |-> b.answer]
  BY DEF BatchSound, BatchRecord
<1> HIDE DEF st, r
<1>5. /\ b2.op \in Seq(OpState) /\ Len(b2.op) = Len(b.op) /\ b2.op[i] = st
      /\ DOMAIN b2.op = DOMAIN b.op
      /\ \A j \in DOMAIN b.op : j # i => b2.op[j] = b.op[j]
      /\ \A S : InState(b2, S) = IF st \in S THEN InState(b, S) \cup {i}
                                 ELSE InState(b, S) \ {i}
  <2>1. /\ b \in BatchRecord /\ i \in DOMAIN b.op /\ st \in OpState
        /\ b2.op = [b.op EXCEPT ![i] = st]
    BY <1>1, <1>2, <1>3, <1>4
  <2>2. Moved(b2, b, i, st)
    BY <2>1, ItemMoves
  <2> QED
    BY <2>2 DEF Moved
<1>6. b2.results \in Seq([item : Nat, ok : BOOLEAN]) /\ Len(b2.results) = Len(b.results) + 1
      /\ DOMAIN b2.results = 1..(Len(b.results) + 1) /\ Len(b.results) \in Nat
      /\ b2.results[Len(b.results) + 1] = r
      /\ \A k \in DOMAIN b.results : b2.results[k] = b.results[k]
  BY <1>1, <1>3, <1>4
<1>7. b2 \in BatchRecord
  <2>1. b2.success \in Nat /\ b2.error \in Nat
    BY <1>1, <1>4
  <2>2. /\ b.kind \in {"none", "chat", "translate"} /\ b.size \in Nat
        /\ b.continue \in BOOLEAN
        /\ b.answer \in {"none", "open", "refused", "failed", "whole"}
    BY <1>1 DEF BatchRecord
  <2> QED
    BY ONLY <1>0, <1>5, <1>6, <2>1, <2>2 DEF BatchRecord
<1>8. /\ Cardinality(InState(b2, {"thinking"})) <= Cardinality(InState(b, {"thinking"}))
      /\ Cardinality(InState(b2, {"thinking"})) \in Nat
      /\ Cardinality(InState(b, {"thinking"})) \in Nat
  <2>1. st \notin {"thinking"}
    BY DEF st
  <2>2. InState(b2, {"thinking"}) = InState(b, {"thinking"}) \ {i}
    BY <1>5, <2>1
  <2>3. /\ Cardinality(InState(b2, {"thinking"})) \in Nat
        /\ Cardinality(InState(b, {"thinking"})) \in Nat
    BY <1>1, <1>7, InStateFinite
  <2> QED
    BY <1>1, <2>2, <2>3, OneItem
<1>9. ASSUME Accounted(b) PROVE Accounted(b2)
  <2>1. i \notin InState(b, {"done", "failed"}) /\ i \notin InState(b, {"done"})
        /\ i \notin InState(b, {"failed"})
    BY <1>2 DEF InState
  <2>2. InState(b2, {"done", "failed"}) = InState(b, {"done", "failed"}) \cup {i}
    <3>1. st \in {"done", "failed"}
      BY DEF st
    <3> QED
      BY <1>5, <3>1
  <2>7. /\ Cardinality(InState(b, {"done", "failed"}) \cup {i})
             = Cardinality(InState(b, {"done", "failed"})) + 1
        /\ Cardinality(InState(b, {"done"}) \cup {i}) = Cardinality(InState(b, {"done"})) + 1
        /\ Cardinality(InState(b, {"failed"}) \cup {i})
             = Cardinality(InState(b, {"failed"})) + 1
        /\ InState(b, {"done"}) \ {i} = InState(b, {"done"})
        /\ InState(b, {"failed"}) \ {i} = InState(b, {"failed"})
    BY <1>1, <2>1, OneItem
  <2>8. /\ Len(b.results) = Cardinality(InState(b, {"done", "failed"}))
        /\ b.success = Cardinality(InState(b, {"done"}))
        /\ b.error = Cardinality(InState(b, {"failed"}))
        /\ b.success = Cardinality(Fine(b))
    BY <1>9 DEF Accounted
  <2>3. Len(b2.results) = Cardinality(InState(b2, {"done", "failed"}))
    BY <1>6, <2>2, <2>7, <2>8
  <2>4. /\ b2.success = Cardinality(InState(b2, {"done"}))
        /\ b2.error = Cardinality(InState(b2, {"failed"}))
    <3>1. CASE ok
      <4>1. InState(b2, {"done"}) = InState(b, {"done"}) \cup {i}
            /\ InState(b2, {"failed"}) = InState(b, {"failed"}) \ {i}
        BY <1>5, <3>1 DEF st
      <4> QED
        BY <1>4, <2>7, <2>8, <3>1, <4>1
    <3>2. CASE ~ok
      <4>1. InState(b2, {"failed"}) = InState(b, {"failed"}) \cup {i}
            /\ InState(b2, {"done"}) = InState(b, {"done"}) \ {i}
        BY <1>5, <3>2 DEF st
      <4> QED
        BY <1>4, <2>7, <2>8, <3>2, <4>1
    <3> QED
      BY <3>1, <3>2
  <2>5. b2.success = Cardinality(Fine(b2))
    <3>1. IsFiniteSet(Fine(b)) /\ Len(b.results) + 1 \notin Fine(b)
      BY <1>1, FineFinite
    <3>2. Fine(b2) = IF ok THEN Fine(b) \cup {Len(b.results) + 1} ELSE Fine(b)
      <4>1. DOMAIN b.results = 1..Len(b.results)
        BY <1>1
      <4>2. \A k \in 1..(Len(b.results) + 1) :
              b2.results[k].ok <=> IF k = Len(b.results) + 1 THEN ok ELSE b.results[k].ok
        BY <1>6, <4>1 DEF r
      <4> QED
        BY <1>6, <4>1, <4>2 DEF Fine
    <3>3. Cardinality(Fine(b) \cup {Len(b.results) + 1}) = Cardinality(Fine(b)) + 1
      BY <3>1, FS_AddElement
    <3> QED
      BY <1>4, <2>8, <3>2, <3>3
  <2>6. ASSUME NEW j \in InState(b2, {"done", "failed"})
        PROVE  \E k \in DOMAIN b2.results :
                 b2.results[k] = [item |-> j, ok |-> b2.op[j] = "done"]
    <3>1. CASE j = i
      <4>1. (b2.op[i] = "done") = ok
        BY <1>5 DEF st
      <4>2. Len(b.results) + 1 \in DOMAIN b2.results
        BY <1>6
      <4> QED
        BY <1>6, <3>1, <4>1, <4>2 DEF r
    <3>2. CASE j # i
      <4>1. j \in InState(b, {"done", "failed"}) /\ b2.op[j] = b.op[j]
        BY <1>5, <2>2, <2>6, <3>2 DEF InState
      <4>2. PICK k \in DOMAIN b.results :
              b.results[k] = [item |-> j, ok |-> b.op[j] = "done"]
        BY <1>9, <4>1 DEF Accounted
      <4>3. k \in DOMAIN b2.results /\ b2.results[k] = b.results[k]
        BY <1>1, <1>6
      <4> QED
        BY <4>1, <4>2, <4>3
    <3> QED
      BY <3>1, <3>2
  <2> QED
    BY <2>3, <2>4, <2>5, <2>6 DEF Accounted
<1>10. b.answer # "whole"
  <2>1. i \notin InState(b, {"done", "failed"}) /\ i \in 1..b.size
    BY <1>1, <1>2 DEF InState, BatchSound
  <2> QED
    BY <2>1 DEF BatchSound
<1>11. b.kind = "translate"
  <2>1. i \in InState(b, {"waiting", "thinking"})
    BY <1>2 DEF InState
  <2> QED
    BY <2>1 DEF BatchSound
<1>12. Concurrency \in Nat
  BY BatchAssumption
<1> QED
  BY <1>4, <1>5, <1>7, <1>8, <1>9, <1>10, <1>11, <1>12 DEF BatchSound

LEMMA NobodyThinks ==
  ASSUME NEW b, InState(b, {"thinking"}) = {}
  PROVE  Cardinality(InState(b, {"thinking"})) <= Concurrency
<1>1. Cardinality(InState(b, {"thinking"})) = 0
  BY FS_EmptySet
<1>2. Concurrency \in Nat
  BY BatchAssumption
<1> QED
  BY <1>1, <1>2

(* A batch of chats is answered in its step.                                  *)
LEMMA ChatsAccounted ==
  ASSUME NEW n \in Nat, NEW fine \in [1..n -> BOOLEAN], NEW continue \in BOOLEAN, NEW b,
         b = [kind |-> "chat", size |-> n, continue |-> continue,
              op |-> [i \in 1..n |-> IF fine[i] THEN "done" ELSE "failed"],
              results |-> IF Batch!Refused("chat", n) THEN <<>>
                          ELSE [i \in 1..n |-> [item |-> i, ok |-> fine[i]]],
              success |-> Batch!Cardinality({i \in 1..n : fine[i]}),
              error |-> Batch!Cardinality({i \in 1..n : ~fine[i]}),
              answer |-> CASE Batch!Refused("chat", n) -> "refused"
                           [] /\ ~Batch!Refused("chat", n) /\ ~continue
                            /\ \E i \in 1..n : ~fine[i] -> "failed"
                           [] OTHER -> "whole"]
  PROVE  BatchSound(b)
<1> DEFINE D == {i \in 1..n : fine[i]}
           F == {i \in 1..n : ~fine[i]}
<1>1. IsFiniteSet(1..n) /\ Cardinality(1..n) = n
  BY FS_Interval
<1>2. /\ IsFiniteSet(D) /\ IsFiniteSet(F)
      /\ Cardinality(D) \in Nat /\ Cardinality(F) \in Nat
  BY <1>1, FS_Subset, FS_CardinalityType
<1>3. /\ b.op = [i \in 1..n |-> IF fine[i] THEN "done" ELSE "failed"]
      /\ b.success = Cardinality(D) /\ b.error = Cardinality(F)
      /\ b.kind = "chat" /\ b.size = n /\ b.continue = continue
  BY BatchCardinality
<1>4. /\ b.op \in Seq(OpState) /\ Len(b.op) = n /\ DOMAIN b.op = 1..n
      /\ \A i \in 1..n : b.op[i] \in {"done", "failed"} /\ (fine[i] <=> b.op[i] = "done")
  BY <1>3 DEF OpState
<1>5. /\ InState(b, {"waiting", "thinking"}) = {} /\ InState(b, {"thinking"}) = {}
      /\ InState(b, {"done"}) = D
      /\ InState(b, {"failed"}) = F /\ InState(b, {"done", "failed"}) = 1..n
  BY <1>4 DEF InState
<1>6. /\ b.answer \in {"refused", "failed", "whole"}
      /\ b.answer = "whole" => ~Batch!Refused("chat", n)
  OBVIOUS
<1>7. CASE Batch!Refused("chat", n)
  <2>1. b.results = <<>>
    BY <1>7
  <2>2. b \in BatchRecord
    BY <1>2, <1>3, <1>4, <1>6, <2>1 DEF BatchRecord
  <2> QED
    BY <1>3, <1>4, <1>5, <1>6, <1>7, <2>2, NobodyThinks DEF BatchSound
<1>8. CASE ~Batch!Refused("chat", n)
  <2>1. b.results = [i \in 1..n |-> [item |-> i, ok |-> fine[i]]]
    BY <1>8
  <2>2. /\ b.results \in Seq([item : Nat, ok : BOOLEAN]) /\ Len(b.results) = n
        /\ DOMAIN b.results = 1..n
        /\ \A i \in 1..n : b.results[i] = [item |-> i, ok |-> fine[i]]
    <3>1. \A i \in 1..n : [item |-> i, ok |-> fine[i]] \in [item : Nat, ok : BOOLEAN]
      OBVIOUS
    <3>2. b.results \in [1..n -> [item : Nat, ok : BOOLEAN]]
      BY <2>1, <3>1
    <3>3. /\ b.results \in Seq([item : Nat, ok : BOOLEAN]) /\ Len(b.results) = n
          /\ DOMAIN b.results = 1..n
      <4> DEFINE R == [item : Nat, ok : BOOLEAN]
      <4>1. \A s \in [1..n -> R] : s \in Seq(R) /\ Len(s) = n /\ DOMAIN s = 1..n
        <5> HIDE DEF R
        <5> QED
          OBVIOUS
      <4> QED
        BY <3>2, <4>1
    <3> QED
      BY <2>1, <3>3
  <2>3. b \in BatchRecord
    BY <1>2, <1>3, <1>4, <1>6, <2>2 DEF BatchRecord
  <2>4. Fine(b) = D
    BY <2>2 DEF Fine
  <2>5. ASSUME NEW i \in 1..n
        PROVE  \E k \in DOMAIN b.results : b.results[k] = [item |-> i, ok |-> b.op[i] = "done"]
    <3>1. fine[i] = (b.op[i] = "done")
      BY <1>4
    <3>2. b.results[i] = [item |-> i, ok |-> b.op[i] = "done"]
      BY <2>2, <3>1
    <3> QED
      BY <2>2, <3>2
  <2>6. Accounted(b)
    BY <1>1, <1>3, <1>5, <2>2, <2>4, <2>5 DEF Accounted
  <2> QED
    BY <1>3, <1>4, <1>5, <1>6, <2>3, <2>6, NobodyThinks DEF BatchSound
<1> QED
  BY <1>7, <1>8

LEMMA BatchSteps ==
  ASSUME BatchSound(batch), Batch!Next \/ UNCHANGED batch
  PROVE  BatchSound(batch)'
<1> USE BatchAssumption
<1>0. batch \in BatchRecord /\ batch.op \in Seq(OpState)
  BY DEF BatchSound, BatchRecord
<1>1. CASE Batch!BatchChat
  <2>1. PICK n \in 0..Items, continue \in BOOLEAN : \E fine \in [1..n -> BOOLEAN] :
          batch' =
           [kind |-> "chat", size |-> n, continue |-> continue,
            op |-> [i \in 1..n |-> IF fine[i] THEN "done" ELSE "failed"],
            results |-> IF Batch!Refused("chat", n) THEN <<>>
                        ELSE [i \in 1..n |-> [item |-> i, ok |-> fine[i]]],
            success |-> Batch!Cardinality({i \in 1..n : fine[i]}),
            error |-> Batch!Cardinality({i \in 1..n : ~fine[i]}),
            answer |-> CASE Batch!Refused("chat", n) -> "refused"
                         [] /\ ~Batch!Refused("chat", n) /\ ~continue
                            /\ \E i \in 1..n : ~fine[i] -> "failed"
                         [] OTHER -> "whole"]
    BY <1>1 DEF Batch!BatchChat
  <2>3. PICK fine \in [1..n -> BOOLEAN] :
          batch' =
           [kind |-> "chat", size |-> n, continue |-> continue,
            op |-> [i \in 1..n |-> IF fine[i] THEN "done" ELSE "failed"],
            results |-> IF Batch!Refused("chat", n) THEN <<>>
                        ELSE [i \in 1..n |-> [item |-> i, ok |-> fine[i]]],
            success |-> Batch!Cardinality({i \in 1..n : fine[i]}),
            error |-> Batch!Cardinality({i \in 1..n : ~fine[i]}),
            answer |-> CASE Batch!Refused("chat", n) -> "refused"
                         [] /\ ~Batch!Refused("chat", n) /\ ~continue
                            /\ \E i \in 1..n : ~fine[i] -> "failed"
                         [] OTHER -> "whole"]
    BY <2>1
  <2>2. n \in Nat
    OBVIOUS
  <2> QED
    BY <2>2, <2>3, ChatsAccounted
<1>2. CASE Batch!StartBatch
  <2>1. PICK n \in 0..Items, continue \in BOOLEAN :
          batch' = [Batch!NoBatch EXCEPT !.kind = "translate", !.size = n,
                     !.continue = continue, !.op = [i \in 1..n |-> "waiting"],
                     !.answer = IF Batch!Refused("translate", n) THEN "refused" ELSE "open"]
    BY <1>2 DEF Batch!StartBatch
  <2>2. /\ batch'.op = [i \in 1..n |-> "waiting"] /\ batch'.results = <<>> /\ batch'.size = n
        /\ batch'.success = 0 /\ batch'.error = 0 /\ batch'.kind = "translate"
        /\ batch'.answer \in {"refused", "open"} /\ n \in Nat
    BY <2>1 DEF Batch!NoBatch
  <2>3. batch'.op \in Seq(OpState) /\ Len(batch'.op) = n
    BY <2>2 DEF OpState
  <2>4. batch' \in BatchRecord
    <3>1. batch' = [kind |-> "translate", size |-> n, continue |-> continue, op |-> batch'.op,
                    results |-> <<>>, success |-> 0, error |-> 0, answer |-> batch'.answer]
      BY <2>1 DEF Batch!NoBatch
    <3>2. PICK none : none = <<>>
      OBVIOUS
    <3>3. none \in Seq([item : Nat, ok : BOOLEAN])
      BY <3>2
    <3>4. batch' = [kind |-> "translate", size |-> n, continue |-> continue, op |-> batch'.op,
                    results |-> none, success |-> 0, error |-> 0, answer |-> batch'.answer]
      BY <3>1, <3>2
    <3> QED
      BY <2>2, <2>3, <3>3, <3>4 DEF BatchRecord
  <2>5. /\ InState(batch', {"thinking"}) = {} /\ InState(batch', {"done"}) = {}
        /\ InState(batch', {"failed"}) = {} /\ InState(batch', {"done", "failed"}) = {}
        /\ Fine(batch') = {}
    BY <2>2 DEF InState, Fine
  <2>6. Accounted(batch')
    BY <2>2, <2>5, FS_EmptySet DEF Accounted
  <2> QED
    BY <2>2, <2>3, <2>4, <2>5, <2>6, NobodyThinks DEF BatchSound
<1>3. CASE Batch!TakeSlot
  <2>1. PICK i \in DOMAIN batch.op :
          /\ batch.op[i] = "waiting"
          /\ Cardinality(InState(batch, {"thinking"})) < Concurrency
          /\ batch' = [batch EXCEPT !.op[i] = "thinking"]
    BY <1>3, BatchCardinality DEF Batch!TakeSlot, Batch!Thinking, InState
  <2>2. /\ batch'.op = [batch.op EXCEPT ![i] = "thinking"]
        /\ batch'.results = batch.results /\ batch'.success = batch.success
        /\ batch'.error = batch.error /\ batch'.size = batch.size
        /\ batch'.answer = batch.answer /\ batch'.kind = batch.kind
    BY <1>0, <2>1 DEF BatchRecord
  <2>3. Moved(batch', batch, i, "thinking")
    BY <1>0, <2>1, <2>2, ItemMoves DEF OpState
  <2>4. batch' \in BatchRecord
    BY <1>0, <2>1, <2>3 DEF BatchRecord, Moved
  <2>5. /\ InState(batch', {"thinking"}) = InState(batch, {"thinking"}) \cup {i}
        /\ InState(batch', {"done"}) = InState(batch, {"done"}) \ {i}
        /\ InState(batch', {"failed"}) = InState(batch, {"failed"}) \ {i}
        /\ InState(batch', {"done", "failed"}) = InState(batch, {"done", "failed"}) \ {i}
    BY <2>3 DEF Moved
  <2>6. /\ i \notin InState(batch, {"thinking"}) /\ i \notin InState(batch, {"done"})
        /\ i \notin InState(batch, {"failed"}) /\ i \notin InState(batch, {"done", "failed"})
    BY <2>1 DEF InState
  <2>7. /\ Cardinality(InState(batch', {"thinking"})) <= Concurrency
        /\ InState(batch', {"done"}) = InState(batch, {"done"})
        /\ InState(batch', {"failed"}) = InState(batch, {"failed"})
        /\ InState(batch', {"done", "failed"}) = InState(batch, {"done", "failed"})
    <3>1. /\ Cardinality(InState(batch, {"thinking"})) \in Nat
          /\ Cardinality(InState(batch, {"thinking"}) \cup {i})
               = Cardinality(InState(batch, {"thinking"})) + 1
      BY <1>0, <2>6, OneItem, InStateFinite
    <3>2. Cardinality(InState(batch', {"thinking"})) <= Concurrency
      <4>1. Concurrency \in Nat
        OBVIOUS
      <4> QED
        BY <2>1, <2>5, <3>1, <4>1
    <3> QED
      BY <2>5, <2>6, <3>2
  <2>8. Accounted(batch) => Accounted(batch')
    <3>1. \A j \in InState(batch, {"done", "failed"}) : batch'.op[j] = batch.op[j]
      BY <2>3, <2>6 DEF Moved, InState
    <3> QED
      BY <2>2, <2>7, <3>1 DEF Accounted, Fine
  <2>9. batch.kind = "translate" /\ batch.answer # "whole"
    <3>1. i \in InState(batch, {"waiting", "thinking"}) /\ i \in 1..Len(batch.op)
      BY <1>0, <2>1 DEF InState
    <3> QED
      BY <2>6, <3>1 DEF BatchSound
  <2> QED
    BY <2>2, <2>3, <2>4, <2>7, <2>8, <2>9 DEF BatchSound, Moved
<1>4. CASE Batch!ThoughtFine
  <2>1. PICK i \in InState(batch, {"thinking"}) :
          batch' = [batch EXCEPT !.op[i] = "done",
                      !.results = Append(@, [item |-> i, ok |-> TRUE]),
                      !.success = @ + 1]
    BY <1>4 DEF Batch!ThoughtFine, Batch!Thinking, InState
  <2>2. batch' = [batch EXCEPT !.op[i] = IF TRUE THEN "done" ELSE "failed",
                    !.results = Append(@, [item |-> i, ok |-> TRUE]),
                    !.success = IF TRUE THEN @ + 1 ELSE @,
                    !.error = IF TRUE THEN @ ELSE @ + 1]
    BY <1>0, <2>1 DEF BatchRecord
  <2> QED
    BY <2>2, ItemEnds
<1>5. CASE Batch!ThoughtFailed
  <2>1. PICK i \in InState(batch, {"thinking"}) :
          batch' = IF batch.continue
                  THEN [batch EXCEPT !.op[i] = "failed",
                          !.results = Append(@, [item |-> i, ok |-> FALSE]),
                          !.error = @ + 1]
                  ELSE [batch EXCEPT !.op[i] = "failed", !.answer = "failed"]
    BY <1>5 DEF Batch!ThoughtFailed, Batch!Thinking, InState
  <2>2. CASE batch.continue
    <3>1. batch' = [batch EXCEPT !.op[i] = IF FALSE THEN "done" ELSE "failed",
                      !.results = Append(@, [item |-> i, ok |-> FALSE]),
                      !.success = IF FALSE THEN @ + 1 ELSE @,
                      !.error = IF FALSE THEN @ ELSE @ + 1]
      BY <1>0, <2>1, <2>2 DEF BatchRecord
    <3> QED
      BY <3>1, ItemEnds
  <2>3. CASE ~batch.continue
    <3>1. i \in DOMAIN batch.op /\ batch.op[i] = "thinking"
      BY DEF InState
    <3>2. /\ batch'.op = [batch.op EXCEPT ![i] = "failed"] /\ batch'.answer = "failed"
          /\ batch'.kind = batch.kind /\ batch'.size = batch.size
      BY <1>0, <2>1, <2>3 DEF BatchRecord
    <3>3. Moved(batch', batch, i, "failed")
      BY <1>0, <3>1, <3>2, ItemMoves DEF OpState
    <3>4. batch' \in BatchRecord
      BY <1>0, <2>1, <2>3, <3>3 DEF BatchRecord, Moved
    <3>5. /\ InState(batch', {"thinking"}) = InState(batch, {"thinking"}) \ {i}
          /\ InState(batch', {"waiting", "thinking"})
               = InState(batch, {"waiting", "thinking"}) \ {i}
      BY <3>3 DEF Moved
    <3>6. Cardinality(InState(batch', {"thinking"})) <= Concurrency
      <4>1. /\ Cardinality(InState(batch', {"thinking"}))
                  <= Cardinality(InState(batch, {"thinking"}))
            /\ Cardinality(InState(batch', {"thinking"})) \in Nat
            /\ Cardinality(InState(batch, {"thinking"})) \in Nat
        BY <1>0, <3>4, <3>5, OneItem, InStateFinite
      <4> QED
        BY <4>1 DEF BatchSound
    <3> QED
      BY <3>2, <3>3, <3>4, <3>5, <3>6 DEF BatchSound, Moved
  <2> QED
    BY <2>2, <2>3
<1>6. CASE Batch!AnswerBatch
  <2>1. /\ batch.answer = "open" /\ batch' = [batch EXCEPT !.answer = "whole"]
        /\ \A i \in DOMAIN batch.op : batch.op[i] \in {"done", "failed"}
    BY <1>6 DEF Batch!AnswerBatch
  <2>2. /\ batch' \in BatchRecord /\ batch'.op = batch.op /\ batch'.results = batch.results
        /\ batch'.success = batch.success /\ batch'.error = batch.error
        /\ batch'.kind = batch.kind /\ batch'.size = batch.size
    BY <1>0, <2>1 DEF BatchRecord
  <2>3. \A S : InState(batch', S) = InState(batch, S)
    BY <2>2 DEF InState
  <2>4. Fine(batch') = Fine(batch)
    BY <2>2 DEF Fine
  <2>5. InState(batch, {"done", "failed"}) = 1..batch.size
    BY <1>0, <2>1 DEF InState, BatchSound
  <2>6. Accounted(batch')
    BY <2>1, <2>2, <2>3, <2>4 DEF BatchSound, Accounted
  <2> QED
    BY <2>2, <2>3, <2>5, <2>6 DEF BatchSound
<1> QED
  BY <1>1, <1>2, <1>3, <1>4, <1>5, <1>6 DEF Batch!Next

(* A batch that is answered tells of each item once and as it ended, with the *)
(* right counts, and never more items are translated at a time than the       *)
(* semaphore lets in, whatever the size of the batch (gateway/routes/batch.py).*)
THEOREM BatchesAccount == ServicesSpec => []BatchAccounts
<1>1. ServicesInit => BatchSound(batch)
  <2> SUFFICES ASSUME ServicesInit PROVE BatchSound(batch)
    OBVIOUS
  <2>1. batch = Batch!NoBatch
    BY DEF ServicesInit, Batch!Init
  <2>2. batch \in BatchRecord /\ batch.op = <<>> /\ batch.size = 0 /\ batch.answer = "none"
    BY <2>1 DEF Batch!NoBatch, BatchRecord
  <2>3. \A S : InState(batch, S) = {}
    BY <2>2 DEF InState
  <2> QED
    BY <2>2, <2>3, NobodyThinks DEF BatchSound
<1>2. BatchSound(batch) /\ [ServicesNext]_vars => BatchSound(batch)'
  BY OneServiceSteps, BatchSteps
<1>3. BatchSound(batch) => BatchAccounts
  BY SoundAccounts
<1> QED
  BY <1>1, <1>2, <1>3, PTL DEF ServicesSpec

-----------------------------------------------------------------------------
(* The requests the chat routes observe.                                      *)
Observed == [t : Nat, size : Sizes]

InOrder(s) == \A i, j \in 1..Len(s) : i <= j => s[i].t <= s[j].t

(* The requests of the minute before request i - 1, as they are in s.         *)
LastMinute(s, i) == {j \in 1..(i - 1) : s[j].t >= s[i - 1].t - 1}
MinuteOf(s, i) == Kept(s, LastMinute(s, i))

(* The requests of s that deviate from such a minute.                         *)
Anomalous(s) ==
  {i \in 2..Len(s) : Chat!Deviates(s[i].size, Chat!SizesOf(MinuteOf(s, i)))}

ChatInv ==
  /\ minute \in Nat /\ flagged \in Nat /\ headers \in Nat /\ headers <= flagged
  /\ asked \in Seq(Observed) /\ InOrder(asked)
  /\ \A i \in 1..Len(asked) : asked[i].t <= minute
  /\ window = MinuteOf(asked, Len(asked) + 1)
  /\ flagged = Cardinality(Anomalous(asked))

LEMMA ChatCardinality == \A S : Chat!Cardinality(S) = Cardinality(S)
BY DEF Chat!Cardinality, Cardinality

LEMMA ChatKept == \A s, I : Chat!Kept(s, I) = Kept(s, I)
BY DEF Chat!Kept, Kept, Chat!Cardinality, Cardinality

(* The minute before i starts with request a of s.                            *)
MinuteFrom(s, i, a) ==
  /\ a \in 1..i /\ LastMinute(s, i) = a..(i - 1)
  /\ MinuteOf(s, i) = [k \in 1..(i - a) |-> s[a + k - 1]]

LEMMA MinuteIsTail ==
  ASSUME NEW s \in Seq(Observed), InOrder(s), NEW i \in 1..(Len(s) + 1)
  PROVE  \E a : MinuteFrom(s, i, a)
<1> DEFINE n == i - 1
           I == LastMinute(s, i)
<1>0. \A j \in 1..Len(s) : s[j].t \in Nat
  <2>1. \A j \in 1..Len(s) : s[j] \in Observed
    OBVIOUS
  <2> QED
    BY <2>1 DEF Observed
<1>1. n \in Nat /\ I \subseteq 1..n /\ n + 1 = i /\ n <= Len(s) /\ Len(s) \in Nat
      /\ \A j \in 1..Len(s) : s[j].t \in Nat
  BY <1>0 DEF LastMinute
<1>2. \A j \in I : \A k \in j..n : k \in I
  <2> SUFFICES ASSUME NEW j \in I, NEW k \in j..n PROVE s[k].t >= s[n].t - 1
    BY <1>1 DEF LastMinute
  <2>1. j \in 1..n /\ k \in 1..n /\ n \in 1..n /\ j <= k /\ s[j].t >= s[n].t - 1
    BY <1>1 DEF LastMinute
  <2>2. s[j].t <= s[k].t /\ s[j].t \in Nat /\ s[k].t \in Nat /\ s[n].t \in Nat
    BY <1>1, <2>1 DEF InOrder
  <2> QED
    BY <2>1, <2>2
<1> HIDE DEF n, I
<1>3. PICK a \in 1..(n + 1) : I = a..n
  BY <1>1, <1>2, TailPositions
<1>4. Kept(s, a..n) = [k \in 1..(n - a + 1) |-> s[a + k - 1]]
  <2>1. n \in Nat /\ a \in 1..(n + 1)
    BY <1>1
  <2>2. KeptIsTail(s, n, a)
    BY <2>1, KeptTail
  <2> QED
    BY <2>2 DEF KeptIsTail
<1>5. n - a + 1 = i - a /\ a \in 1..i
  BY <1>1, <1>3
<1>6. MinuteFrom(s, i, a)
  BY <1>3, <1>4, <1>5 DEF MinuteFrom, MinuteOf, I, n
<1> QED
  BY <1>6

(* Of a minute only what came before counts.                                  *)
LEMMA MinuteStays ==
  ASSUME NEW s \in Seq(Observed), InOrder(s), NEW r \in Observed,
         NEW i \in 1..(Len(s) + 1)
  PROVE  MinuteOf(Append(s, r), i) = MinuteOf(s, i)
<1> DEFINE s2 == Append(s, r)
<1>1. /\ s2 \in Seq(Observed) /\ Len(s2) = Len(s) + 1 /\ Len(s) \in Nat
      /\ \A j \in 1..Len(s) : s2[j] = s[j]
  OBVIOUS
<1> HIDE DEF s2
<1>2. LastMinute(s2, i) = LastMinute(s, i)
  BY <1>1 DEF LastMinute
<1>0. PICK a : MinuteFrom(s, i, a)
  BY MinuteIsTail
<1>3. /\ a \in 1..i /\ LastMinute(s, i) = a..(i - 1)
      /\ MinuteOf(s, i) = [k \in 1..(i - a) |-> s[a + k - 1]]
  BY <1>0 DEF MinuteFrom
<1>4. i - 1 \in Nat /\ a \in 1..((i - 1) + 1) /\ (i - 1) - a + 1 = i - a
  BY <1>1, <1>3
<1>5. Kept(s2, a..(i - 1)) = [k \in 1..(i - a) |-> s2[a + k - 1]]
  <2> DEFINE n == i - 1
  <2>1. n \in Nat /\ a \in 1..(n + 1) /\ n - a + 1 = i - a
    BY <1>4
  <2> HIDE DEF n
  <2>2. Kept(s2, a..n) = [k \in 1..(n - a + 1) |-> s2[a + k - 1]]
    <3>1. KeptIsTail(s2, n, a)
      BY <2>1, KeptTail
    <3> QED
      BY <3>1 DEF KeptIsTail
  <2> QED
    BY <2>1, <2>2 DEF n
<1>6. \A k \in 1..(i - a) : s2[a + k - 1] = s[a + k - 1]
  <2>1. \A k \in 1..(i - a) : a + k - 1 \in 1..Len(s)
    BY <1>1, <1>3
  <2> QED
    BY <1>1, <2>1
<1>7. [k \in 1..(i - a) |-> s2[a + k - 1]] = [k \in 1..(i - a) |-> s[a + k - 1]]
  BY <1>6
<1> QED
  BY <1>2, <1>3, <1>5, <1>7 DEF MinuteOf, s2

(* record_request leaves the last minute of requests.                         *)
LEMMA TrimmedIsAMinute ==
  ASSUME ChatInv, NEW r \in Observed, r.t = minute
  PROVE  /\ InOrder(Append(asked, r))
         /\ Chat!Trimmed(Append(window, r))
              = MinuteOf(Append(asked, r), Len(Append(asked, r)) + 1)
<1> DEFINE n == Len(asked)
           s == Append(asked, r)
           w == Append(window, r)
<1>1. /\ asked \in Seq(Observed) /\ InOrder(asked) /\ n \in Nat /\ minute \in Nat
      /\ \A i \in 1..n : asked[i].t <= minute
      /\ \A i \in 1..n : asked[i] \in Observed
      /\ window = MinuteOf(asked, n + 1)
  BY DEF ChatInv
<1>2. /\ s \in Seq(Observed) /\ Len(s) = n + 1 /\ s[n + 1] = r
      /\ \A i \in 1..n : s[i] = asked[i]
  BY <1>1
<1>3. \A i \in 1..(n + 1) : s[i].t \in Nat /\ s[i].t <= minute
  <2>1. \A i \in 1..(n + 1) : s[i] \in Observed
    BY <1>2
  <2>2. \A i \in 1..(n + 1) : s[i].t \in Nat
    BY <2>1 DEF Observed
  <2> HIDE DEF s
  <2> QED
    BY <1>1, <1>2, <2>2
<1> HIDE DEF n, s, w
<1>4. InOrder(s)
  <2> SUFFICES ASSUME NEW i \in 1..(n + 1), NEW j \in 1..(n + 1), i <= j
               PROVE  s[i].t <= s[j].t
    BY <1>2 DEF InOrder
  <2>1. CASE j = n + 1
    BY <1>2, <1>3, <2>1
  <2>2. CASE j # n + 1
    <3>1. i \in 1..n /\ j \in 1..n
      BY <1>1, <2>2
    <3> QED
      BY <1>1, <1>2, <3>1 DEF InOrder, n
  <2> QED
    BY <2>1, <2>2
<1>5a. PICK a : MinuteFrom(asked, n + 1, a)
  <2>1. asked \in Seq(Observed) /\ n + 1 \in 1..(Len(asked) + 1)
    BY <1>1 DEF n
  <2> QED
    BY <1>1, <2>1, MinuteIsTail
<1>5. /\ a \in 1..(n + 1) /\ LastMinute(asked, n + 1) = a..n
      /\ window = [k \in 1..(n + 1 - a) |-> asked[a + k - 1]]
  <2>1. (n + 1) - 1 = n
    BY <1>1
  <2> QED
    BY <1>1, <1>5a, <2>1, SMTT(30) DEF MinuteFrom
<1>6a. PICK b : MinuteFrom(s, n + 2, b)
  <2>1. s \in Seq(Observed) /\ n + 2 \in 1..(Len(s) + 1)
    BY <1>1, <1>2
  <2> QED
    BY <1>4, <2>1, MinuteIsTail
<1>6. /\ b \in 1..(n + 2) /\ LastMinute(s, n + 2) = b..(n + 1)
      /\ MinuteOf(s, n + 2) = [k \in 1..(n + 2 - b) |-> s[b + k - 1]]
  <2>1. (n + 2) - 1 = n + 1
    BY <1>1
  <2> QED
    BY ONLY <1>1, <1>6a, <2>1 DEF MinuteFrom
\* The minute before the last request starts no earlier than the one before it.
<1>7. /\ \A i \in 1..(n + 1) : i \in b..(n + 1) <=> s[i].t >= minute - 1
      /\ a <= b /\ b <= n + 1
  <2>1. LastMinute(s, n + 2) = {j \in 1..(n + 1) : s[j].t >= s[n + 1].t - 1}
    <3>1. (n + 2) - 1 = n + 1
      BY <1>1, <1>5, <1>6
    <3> QED
      BY <3>1 DEF LastMinute
  <2>2. \A i \in 1..(n + 1) : i \in b..(n + 1) <=> s[i].t >= minute - 1
    BY <1>2, <1>6, <2>1
  <2>3. n + 1 \in b..(n + 1)
    BY <1>1, <1>5, <1>6, <1>2, <1>3, <2>2
  <2>4. a <= b
    <3> SUFFICES ASSUME b < a PROVE FALSE
      BY <1>1, <1>5, <1>6
    <3>1. b \in 1..n /\ n \in 1..n /\ b \in b..(n + 1)
      BY <1>1, <1>5, <1>6, <2>3
    <3>2. s[b].t >= minute - 1 /\ s[b] = asked[b] /\ s[n] = asked[n]
      BY <1>1, <1>5, <1>6, <1>2, <2>2, <3>1
    <3>3. asked[n].t <= minute /\ asked[n].t \in Nat /\ asked[b].t \in Nat
      BY <1>1, <1>3, <1>5, <3>1, <3>2
    <3>4. b \in LastMinute(asked, n + 1)
      <4>1. (n + 1) - 1 = n
        BY <1>1, <1>5, <1>6
      <4>2. asked[b].t >= asked[n].t - 1
        BY <1>1, <1>5, <1>6, <3>2, <3>3, SMTT(30)
      <4> QED
        BY <3>1, <4>1, <4>2 DEF LastMinute
    <3> QED
      BY <1>5, <3>1, <3>4
  <2> QED
    BY <2>2, <2>3, <2>4
<1>8. /\ Len(w) = n + 2 - a /\ w \in Seq(Observed)
      /\ \A k \in 1..(n + 2 - a) : w[k] = s[a + k - 1]
  <2>1. window \in Seq(Observed) /\ Len(window) = n + 1 - a
    <3>1. \A k \in 1..(n + 1 - a) : a + k - 1 \in 1..n
      BY <1>1, <1>5, <1>6
    <3>2. \A k \in 1..(n + 1 - a) : asked[a + k - 1] \in Observed
      BY <1>1, <1>5, <1>6, <3>1
    <3>3. n + 1 - a \in Nat
      BY <1>1, <1>5, <1>6
    <3> QED
      BY <1>5, <3>2, <3>3
  <2>2. Len(w) = n + 2 - a /\ w \in Seq(Observed) /\ w[n + 2 - a] = r
        /\ \A k \in 1..(n + 1 - a) : w[k] = window[k]
    <3>1. Len(window) + 1 = n + 2 - a /\ Len(window) \in Nat
      BY <1>1, <1>5, <2>1
    <3> QED
      BY <2>1, <3>1 DEF w
  <2>3. ASSUME NEW k \in 1..(n + 2 - a) PROVE w[k] = s[a + k - 1]
    <3>1. CASE k = n + 2 - a
      BY <1>1, <1>5, <1>6, <1>2, <2>2, <3>1
    <3>2. CASE k # n + 2 - a
      <4>1. k \in 1..(n + 1 - a) /\ a + k - 1 \in 1..n
        BY <1>1, <1>5, <1>6, <3>2
      <4>2. window[k] = asked[a + k - 1]
        BY <1>5, <4>1
      <4> QED
        BY <1>2, <2>2, <4>1, <4>2
    <3> QED
      BY <3>1, <3>2
  <2> QED
    BY <2>2, <2>3
<1> DEFINE Drops(m) ==
      /\ \A i \in 1..m : w[i].t < minute - 1
      /\ m < Len(w) => ~(w[m + 1].t < minute - 1)
<1>9. /\ b - a \in 0..Len(w) /\ Drops(b - a)
      /\ \A m \in 0..Len(w) : Drops(m) => m = b - a
  <2>1. \A k \in 1..(n + 2 - a) : w[k].t < minute - 1 <=> a + k - 1 < b
    <3> SUFFICES ASSUME NEW k \in 1..(n + 2 - a)
                 PROVE  w[k].t < minute - 1 <=> a + k - 1 < b
      OBVIOUS
    <3>1. a + k - 1 \in 1..(n + 1) /\ w[k] = s[a + k - 1]
      BY <1>1, <1>5, <1>8
    <3> QED
      BY <1>1, <1>5, <1>6, <1>3, <1>7, <3>1
  <2>2. b - a \in 0..Len(w)
    BY <1>1, <1>5, <1>6, <1>7, <1>8
  <2>3. Drops(b - a)
    BY <1>1, <1>5, <1>6, <1>7, <1>8, <2>1
  <2>4. ASSUME NEW m \in 0..Len(w), Drops(m) PROVE m = b - a
    <3>1. ~(m > b - a)
      <4>1. m > b - a => /\ b - a + 1 \in 1..m /\ b - a + 1 \in 1..(n + 2 - a)
                         /\ a + (b - a + 1) - 1 = b
        BY <1>1, <1>5, <1>6, <1>7, <1>8
      <4>2. m > b - a => w[b - a + 1].t < minute - 1
        BY <2>4, <4>1
      <4>3. m > b - a => ~(w[b - a + 1].t < minute - 1)
        <5> DEFINE k == b - a + 1
        <5>1. b \in Nat /\ ~(b < b)
          BY <1>6
        <5>2. m > b - a => ~(w[k].t < minute - 1)
          BY <2>1, <4>1, <5>1
        <5> QED
          BY <5>2
      <4> QED
        BY <4>2, <4>3
    <3>2. ~(m < b - a)
      <4>1. m < b - a => /\ m + 1 \in 1..(n + 2 - a) /\ m < Len(w)
                         /\ a + (m + 1) - 1 < b
        BY <1>1, <1>5, <1>6, <1>7, <1>8
      <4> QED
        BY <2>1, <2>4, <4>1
    <3> QED
      BY <1>1, <1>5, <1>6, <3>1, <3>2
  <2> QED
    BY <2>2, <2>3, <2>4
<1>10. Chat!Trimmed(w) = SubSeq(w, b - a + 1, Len(w))
  <2>1. (CHOOSE m \in 0..Len(w) : Drops(m)) = b - a
    <3> HIDE DEF Drops
    <3> QED
      BY <1>9
  <2>2. Chat!Trimmed(w) = SubSeq(w, (CHOOSE m \in 0..Len(w) : Drops(m)) + 1, Len(w))
    BY DEF Chat!Trimmed
  <2> QED
    BY <2>1, <2>2
<1>11. SubSeq(w, b - a + 1, Len(w)) = [k \in 1..(n + 2 - b) |-> s[b + k - 1]]
  <2>1. SubSeq(w, b - a + 1, Len(w)) = [k \in 1..(n + 2 - b) |-> w[b - a + k]]
    <3>1. Len(w) - (b - a + 1) + 1 = n + 2 - b /\ b - a + 1 \in 1..(Len(w) + 1)
          /\ \A k \in 1..(n + 2 - b) : (b - a + 1) + k - 1 = b - a + k
      BY <1>1, <1>5, <1>6, <1>7, <1>8
    <3>2. SubSeq(w, b - a + 1, Len(w))
            = [k \in 1..(Len(w) - (b - a + 1) + 1) |-> w[(b - a + 1) + k - 1]]
      BY <1>8, <3>1
    <3> QED
      BY <3>1, <3>2
  <2>2. ASSUME NEW k \in 1..(n + 2 - b) PROVE w[b - a + k] = s[b + k - 1]
    <3>1. b - a + k \in 1..(n + 2 - a) /\ a + (b - a + k) - 1 = b + k - 1
      BY <1>1, <1>5, <1>6, <1>7
    <3> QED
      BY <1>8, <3>1
  <2> QED
    BY <2>1, <2>2
<1>12. Len(s) + 1 = n + 2
  BY <1>1, <1>5, <1>6, <1>2
<1> QED
  BY <1>4, <1>6, <1>10, <1>11, <1>12 DEF s, w

(* One more request is one more anomaly, if it deviates from the minute       *)
(* before it.                                                                 *)
LEMMA OneMoreAnomaly ==
  ASSUME NEW s \in Seq(Observed), InOrder(s), NEW r \in Observed
  PROVE  /\ Cardinality(Anomalous(s)) \in Nat
         /\ Cardinality(Anomalous(Append(s, r)))
              = Cardinality(Anomalous(s))
                + IF Chat!Deviates(r.size, Chat!SizesOf(MinuteOf(s, Len(s) + 1))) THEN 1 ELSE 0
<1> DEFINE n == Len(s)
           s2 == Append(s, r)
           new == Chat!Deviates(r.size, Chat!SizesOf(MinuteOf(s, Len(s) + 1)))
<1>1. /\ n \in Nat /\ Len(s2) = n + 1 /\ s2[n + 1] = r
      /\ \A i \in 1..n : s2[i] = s[i]
  OBVIOUS
<1>2. \A i \in 1..(n + 1) : MinuteOf(s2, i) = MinuteOf(s, i)
  BY MinuteStays
<1> HIDE DEF n, s2
<1>3. IsFiniteSet(Anomalous(s)) /\ n + 1 \notin Anomalous(s)
  <2>1. IsFiniteSet(2..n)
    BY <1>1, FS_Interval
  <2>2. Anomalous(s) \subseteq 2..n
    BY DEF Anomalous, n
  <2>3. n + 1 \notin 2..n
    BY <1>1
  <2> QED
    BY <2>1, <2>2, <2>3, FS_Subset
<1>4. \A i \in 2..n : i \in Anomalous(s2) <=> i \in Anomalous(s)
  <2> SUFFICES ASSUME NEW i \in 2..n
               PROVE  i \in Anomalous(s2) <=> i \in Anomalous(s)
    OBVIOUS
  <2>1. i \in 1..(n + 1) /\ i \in 1..n /\ i \in 2..(n + 1)
    BY <1>1
  <2>2. s2[i] = s[i] /\ MinuteOf(s2, i) = MinuteOf(s, i)
    BY <1>1, <1>2, <2>1
  <2> QED
    BY <1>1, <2>1, <2>2 DEF Anomalous, n
<1>5. n # 0 => (n + 1 \in Anomalous(s2) <=> new)
  <2> SUFFICES ASSUME n # 0 PROVE n + 1 \in Anomalous(s2) <=> new
    OBVIOUS
  <2>1. n + 1 \in 2..(n + 1) /\ n + 1 \in 1..(n + 1)
    BY <1>1
  <2>2. MinuteOf(s2, n + 1) = MinuteOf(s, n + 1)
    BY <1>2, <2>1
  <2> QED
    BY <1>1, <2>1, <2>2 DEF Anomalous, n
\* The first request is compared with nothing, which is too little.
<1>6. n = 0 => ~new
  <2> SUFFICES ASSUME n = 0 PROVE ~new
    OBVIOUS
  <2>1. PICK a : MinuteFrom(s, 1, a)
    <3>1. 1 \in 1..(Len(s) + 1)
      BY <1>1 DEF n
    <3> QED
      BY <3>1, MinuteIsTail
  <2>2. a = 1
    BY <2>1 DEF MinuteFrom
  <2>3. MinuteOf(s, 1) = [k \in 1..0 |-> s[k]]
    BY <2>1, <2>2 DEF MinuteFrom
  <2>4. Chat!SizesOf(MinuteOf(s, 1)) = <<>>
    BY <2>3 DEF Chat!SizesOf
  <2>5. MinuteOf(s, Len(s) + 1) = MinuteOf(s, 1)
    BY DEF n
  <2>6. ~(Len(<<>>) >= MinSample)
    BY SampleAssumption
  <2> QED
    BY <2>4, <2>5, <2>6 DEF Chat!Deviates
<1> HIDE DEF new
<1>7. Anomalous(s2) \subseteq 2..(n + 1)
  BY <1>1 DEF Anomalous
<1>8. Anomalous(s) \subseteq 2..n
  BY DEF Anomalous, n
<1>9. \A i \in 2..(n + 1) : i \in 2..n \/ (i = n + 1 /\ n # 0)
  BY <1>1
<1>10. Cardinality(Anomalous(s)) \in Nat
  BY <1>3, FS_CardinalityType
<1>11. CASE new
  <2>1. Anomalous(s2) = Anomalous(s) \cup {n + 1}
    <3>1. n # 0 /\ n + 1 \in Anomalous(s2)
      BY <1>5, <1>6, <1>11
    <3> QED
      BY <1>4, <1>7, <1>8, <1>9, <3>1
  <2>2. Cardinality(Anomalous(s2)) = Cardinality(Anomalous(s)) + 1
    BY <1>3, <2>1, FS_AddElement
  <2> QED
    BY <1>10, <1>11, <2>2 DEF s2, new
<1>12. CASE ~new
  <2>1. \A i : i \in Anomalous(s2) <=> i \in Anomalous(s)
    <3>1. ASSUME NEW i \in Anomalous(s2) PROVE i \in Anomalous(s)
      BY <1>4, <1>5, <1>7, <1>9, <1>12, <3>1
    <3>2. ASSUME NEW i \in Anomalous(s) PROVE i \in Anomalous(s2)
      BY <1>4, <1>8, <3>2
    <3> QED
      BY <3>1, <3>2
  <2>2. Anomalous(s2) = Anomalous(s)
    BY <2>1
  <2>3. Cardinality(Anomalous(s)) + 0 = Cardinality(Anomalous(s))
    BY <1>10
  <2> QED
    BY <1>10, <1>12, <2>2, <2>3 DEF s2, new
<1> QED
  BY <1>11, <1>12

LEMMA ChatSteps ==
  ASSUME ChatInv, Chat!Next \/ UNCHANGED chat
  PROVE  ChatInv'
<1>1. CASE Chat!Answer
  <2>1. PICK size \in Sizes, answered \in BOOLEAN :
          /\ Chat!Observe(size)
          /\ headers' = headers + IF answered THEN flagged' - flagged ELSE 0
          /\ UNCHANGED minute
    BY <1>1 DEF Chat!Answer
  <2> DEFINE r == [t |-> minute, size |-> size]
             new == Chat!Deviates(size, Chat!SizesOf(window))
  <2>2. /\ flagged' = flagged + IF new THEN 1 ELSE 0
        /\ window' = Chat!Trimmed(Append(window, r))
        /\ asked' = Append(asked, r)
    BY <2>1 DEF Chat!Observe
  <2>3. /\ minute \in Nat /\ flagged \in Nat /\ headers \in Nat /\ headers <= flagged
        /\ asked \in Seq(Observed) /\ InOrder(asked)
        /\ \A i \in 1..Len(asked) : asked[i].t <= minute
        /\ window = MinuteOf(asked, Len(asked) + 1)
        /\ flagged = Cardinality(Anomalous(asked))
    BY DEF ChatInv
  <2>4. r \in Observed /\ r.t = minute /\ r.size = size
    BY <2>3 DEF Observed
  <2> HIDE DEF r
  <2>5. /\ InOrder(asked')
        /\ window' = MinuteOf(asked', Len(asked') + 1)
    BY <2>2, <2>4, TrimmedIsAMinute
  <2>6. flagged' = Cardinality(Anomalous(asked'))
    <3>1. Cardinality(Anomalous(Append(asked, r)))
            = Cardinality(Anomalous(asked)) + IF new THEN 1 ELSE 0
      BY <2>3, <2>4, OneMoreAnomaly
    <3> HIDE DEF new
    <3> QED
      BY <2>2, <2>3, <3>1
  <2>7. flagged' \in Nat /\ headers' \in Nat /\ headers' <= flagged'
    <3> HIDE DEF new
    <3>1. flagged' \in Nat /\ flagged' - flagged \in {0, 1}
      BY <2>2, <2>3
    <3> QED
      BY <2>1, <2>3, <3>1
  <2>8. asked' \in Seq(Observed) /\ \A i \in 1..Len(asked') : asked'[i].t <= minute
    <3>1. /\ asked' \in Seq(Observed) /\ Len(asked') = Len(asked) + 1 /\ Len(asked) \in Nat
          /\ asked'[Len(asked) + 1] = r /\ \A i \in 1..Len(asked) : asked'[i] = asked[i]
      BY <2>2, <2>3, <2>4
    <3> QED
      BY <2>3, <2>4, <3>1
  <2> QED
    BY <2>1, <2>3, <2>5, <2>6, <2>7, <2>8 DEF ChatInv
<1>2. CASE Chat!Tick
  <2>1. minute' = minute + 1 /\ UNCHANGED <<window, flagged, headers, asked>>
    BY <1>2 DEF Chat!Tick
  <2>2. \A i \in 1..Len(asked) : asked[i].t \in Nat
    <3>1. \A i \in 1..Len(asked) : asked[i] \in Observed
      BY DEF ChatInv
    <3> QED
      BY <3>1 DEF Observed
  <2> QED
    BY <2>1, <2>2 DEF ChatInv
<1>3. CASE UNCHANGED chat
  BY <1>3 DEF chat, ChatInv
<1> QED
  BY <1>1, <1>2, <1>3 DEF Chat!Next

LEMMA ChatStart == Chat!Init => ChatInv
<1> SUFFICES ASSUME Chat!Init PROVE ChatInv
  OBVIOUS
<1>1. minute = 0 /\ window = <<>> /\ flagged = 0 /\ headers = 0 /\ asked = <<>>
  BY DEF Chat!Init
<1>2. asked \in Seq(Observed) /\ Len(asked) = 0 /\ InOrder(asked)
  BY <1>1 DEF InOrder
<1>3. PICK a : MinuteFrom(asked, 1, a)
  <2>1. 1 \in 1..(Len(asked) + 1)
    BY <1>2
  <2> QED
    BY <1>2, <2>1, MinuteIsTail
<1>4. MinuteOf(asked, 1) = <<>>
  <2>1. a = 1
    BY <1>3 DEF MinuteFrom
  <2>2. MinuteOf(asked, 1) = [k \in 1..0 |-> asked[k]]
    BY <1>3, <2>1 DEF MinuteFrom
  <2> QED
    BY <2>2
<1>5. Anomalous(asked) = {}
  BY <1>2 DEF Anomalous
<1>6. Cardinality(Anomalous(asked)) = 0
  BY <1>5, FS_EmptySet
<1> QED
  BY <1>1, <1>2, <1>4, <1>6 DEF ChatInv

(* A question is an anomaly when it deviates from the last minute of          *)
(* questions as it was when the one before it came, and no answer is marked   *)
(* that was not counted (core_engine/security/validator.py,                   *)
(* gateway/routes/chat.py).                                                   *)
THEOREM AnomaliesAreJudged == ServicesSpec => []AnomaliesOfAMinute
<1>1. ServicesInit => ChatInv
  BY ChatStart DEF ServicesInit
<1>2. ChatInv /\ [ServicesNext]_vars => ChatInv'
  BY OneServiceSteps, ChatSteps
<1>3. ChatInv => AnomaliesOfAMinute
  <2> SUFFICES ASSUME ChatInv PROVE AnomaliesOfAMinute
    OBVIOUS
  <2>1. \A i : Chat!Baseline(i) = MinuteOf(asked, i)
    BY ChatKept DEF Chat!Baseline, MinuteOf, LastMinute
  <2>2. {i \in 2..Len(asked) : Chat!Deviates(asked[i].size, Chat!SizesOf(Chat!Baseline(i)))}
          = Anomalous(asked)
    BY <2>1 DEF Anomalous
  <2>3. headers <= flagged /\ flagged = Cardinality(Anomalous(asked))
    BY DEF ChatInv
  <2> QED
    BY <2>2, <2>3, ChatCardinality DEF AnomaliesOfAMinute, Chat!AnomaliesOfAMinute
<1> QED
  BY <1>1, <1>2, <1>3, PTL DEF ServicesSpec

-----------------------------------------------------------------------------
(* The retries.  A list of pauses as far as the one before retry n + 1.       *)
Doubling(f, n) ==
  /\ f \in [0..n -> Nat] /\ f[0] = 1
  /\ \A k \in 1..n : f[k] = 2 * f[k - 1]

LEMMA LeastNumber ==
  ASSUME NEW S, S \subseteq Nat, S # {}
  PROVE  \E m \in S : \A x \in S : m <= x
<1>1. PICK m \in S : \A x \in S : <<x, m>> \notin OpToRel(<, Nat)
  BY NatLessThanWellFounded, WFMin, Zenon
<1>2. \A x \in S : ~(x < m)
  BY <1>1, Zenon DEF OpToRel
<1>3. m \in Nat /\ \A x \in S : x \in Nat
  OBVIOUS
<1> QED
  BY <1>2, <1>3

LEMMA DoublingIsOne ==
  ASSUME NEW n \in Nat, NEW m \in Nat, NEW f, NEW g, Doubling(f, n), Doubling(g, m),
         NEW k \in 0..n, k <= m
  PROVE  f[k] = g[k]
<1> DEFINE S == {i \in 0..n : i <= m /\ f[i] # g[i]}
<1> SUFFICES ASSUME S # {} PROVE FALSE
  OBVIOUS
<1>1. PICK i \in S : \A x \in S : i <= x
  <2>1. S \subseteq Nat
    OBVIOUS
  <2> HIDE DEF S
  <2> QED
    BY <2>1, LeastNumber
<1>2. CASE i = 0
  BY <1>1, <1>2 DEF Doubling
<1>3. CASE i # 0
  <2>1. i \in 1..n /\ i \in 1..m /\ i - 1 \in 0..n /\ i - 1 <= m /\ i - 1 < i
    BY <1>1, <1>3
  <2>2. i - 1 \notin S
    BY <1>1, <2>1
  <2>3. f[i - 1] = g[i - 1]
    BY <2>1, <2>2
  <2>4. f[i] = 2 * f[i - 1] /\ g[i] = 2 * g[i - 1]
    BY <2>1 DEF Doubling
  <2> QED
    BY <1>1, <2>3, <2>4
<1> QED
  BY <1>2, <1>3

LEMMA DoublingIsThere ==
  ASSUME NEW n \in Nat
  PROVE  \E f : Doubling(f, n)
<1> DEFINE S == {i \in Nat : ~\E f : Doubling(f, i)}
<1> SUFFICES ASSUME S # {} PROVE FALSE
  OBVIOUS
<1>1. PICK i \in S : \A x \in S : i <= x
  <2>1. S \subseteq Nat
    OBVIOUS
  <2> HIDE DEF S
  <2> QED
    BY <2>1, LeastNumber
<1>2. CASE i = 0
  <2>1. Doubling([k \in 0..0 |-> 1], 0)
    BY DEF Doubling
  <2> QED
    BY <1>1, <1>2, <2>1
<1>3. CASE i # 0
  <2>1. i - 1 \in Nat /\ i - 1 < i /\ i \in Nat
    BY <1>1, <1>3
  <2>2. PICK f : Doubling(f, i - 1)
    BY <1>1, <2>1
  <2> DEFINE g == [k \in 0..i |-> IF k = i THEN 2 * f[i - 1] ELSE f[k]]
  <2>3. g \in [0..i -> Nat]
    BY <2>1, <2>2 DEF Doubling
  <2>4. g[0] = 1
    BY <1>3, <2>1, <2>2 DEF Doubling
  <2>5. ASSUME NEW k \in 1..i PROVE g[k] = 2 * g[k - 1]
    <3>1. CASE k = i
      BY <2>1, <3>1
    <3>2. CASE k # i
      <4>1. k \in 1..(i - 1) /\ k \in 0..i /\ k - 1 \in 0..i /\ k - 1 # i
        BY <2>1, <3>2
      <4>2. f[k] = 2 * f[k - 1]
        BY <2>2, <4>1 DEF Doubling
      <4> QED
        BY <4>1, <4>2, <3>2
    <3> QED
      BY <3>1, <3>2
  <2>6. Doubling(g, i)
    <3> HIDE DEF g
    <3> QED
      BY <2>3, <2>4, <2>5 DEF Doubling
  <2> QED
    BY <1>1, <2>6
<1> QED
  BY <1>2, <1>3

(* The recursive definition of the pauses says what it seems to say.          *)
LEMMA PauseDoubles ==
  /\ Hook!Pause \in [Nat -> Nat] /\ Hook!Pause[0] = 1
  /\ \A i \in Nat : Hook!Pause[i + 1] = 2 * Hook!Pause[i]
<1> DEFINE G == [n \in Nat |-> (CHOOSE f : Doubling(f, n))[n]]
<1>1. ASSUME NEW n \in Nat PROVE \E f : Doubling(f, n) /\ G[n] = f[n]
  BY DoublingIsThere
<1>2. ASSUME NEW n \in Nat PROVE G[n] \in Nat
  <2>1. PICK f : Doubling(f, n) /\ G[n] = f[n]
    BY <1>1
  <2> HIDE DEF G
  <2> QED
    BY <2>1 DEF Doubling
<1>3. G[0] = 1
  <2>1. PICK f : Doubling(f, 0) /\ G[0] = f[0]
    BY <1>1
  <2> HIDE DEF G
  <2> QED
    BY <2>1 DEF Doubling
<1>4. ASSUME NEW n \in Nat PROVE G[n + 1] = 2 * G[n]
  <2>0. n + 1 \in Nat
    OBVIOUS
  <2>1. PICK f : Doubling(f, n + 1) /\ G[n + 1] = f[n + 1]
    <3> HIDE DEF G
    <3> QED
      BY <1>1, <2>0
  <2>2. PICK g : Doubling(g, n) /\ G[n] = g[n]
    BY <1>1
  <2> HIDE DEF G
  <2>3. n \in 0..(n + 1) /\ n <= n /\ n + 1 \in 1..(n + 1) /\ (n + 1) - 1 = n /\ n + 1 \in Nat
    OBVIOUS
  <2>4. f[n] = g[n]
    BY <2>1, <2>2, <2>3, DoublingIsOne
  <2>5. f[n + 1] = 2 * f[(n + 1) - 1]
    BY <2>1, <2>3 DEF Doubling
  <2> QED
    BY <2>1, <2>2, <2>3, <2>4, <2>5
<1>5. G = [i \in Nat |-> IF i = 0 THEN 1 ELSE 2 * G[i - 1]]
  <2>1. \A i \in Nat : G[i] = IF i = 0 THEN 1 ELSE 2 * G[i - 1]
    <3> SUFFICES ASSUME NEW i \in Nat, i # 0 PROVE G[i] = 2 * G[i - 1]
      BY <1>3
    <3>1. i - 1 \in Nat /\ (i - 1) + 1 = i
      OBVIOUS
    <3> HIDE DEF G
    <3> QED
      BY <1>4, <3>1
  <2> DEFINE H(i) == IF i = 0 THEN 1 ELSE 2 * G[i - 1]
  <2>2. G = [i \in Nat |-> G[i]]
    OBVIOUS
  <2> HIDE DEF G
  <2>3. \A i \in Nat : G[i] = H(i)
    BY <2>1
  <2> HIDE DEF H
  <2>4. G = [i \in Nat |-> H(i)]
    BY <2>2, <2>3
  <2> QED
    BY <2>4 DEF H
<1> HIDE DEF G
<1>6. Hook!Pause = [i \in Nat |-> IF i = 0 THEN 1 ELSE 2 * Hook!Pause[i - 1]]
  BY <1>5, Zenon DEF Hook!Pause
<1>7. Hook!Pause[0] = 1
  BY <1>6
<1>8. \A i \in Nat : Hook!Pause[i + 1] = 2 * Hook!Pause[i]
  <2>1. ASSUME NEW i \in Nat PROVE Hook!Pause[i + 1] = 2 * Hook!Pause[i]
    <3>1. i + 1 \in Nat /\ i + 1 # 0 /\ (i + 1) - 1 = i
      OBVIOUS
    <3>2. Hook!Pause[i + 1] = 2 * Hook!Pause[(i + 1) - 1]
      BY <1>6, <3>1
    <3> QED
      BY <3>1, <3>2
  <2> QED
    BY <2>1
<1>9. Hook!Pause \in [Nat -> Nat]
  <2> DEFINE S == {i \in Nat : Hook!Pause[i] \notin Nat}
  <2>1. ASSUME S # {} PROVE FALSE
    <3>1. S \subseteq Nat
      OBVIOUS
    <3>2. PICK i \in S : \A x \in S : i <= x
      <4> HIDE DEF S
      <4> QED
        BY <2>1, <3>1, LeastNumber
    <3>3. i # 0
      BY <1>7, <3>2
    <3>4. i - 1 \in Nat /\ i - 1 < i /\ (i - 1) + 1 = i
      BY <3>2, <3>3
    <3>5. Hook!Pause[i - 1] \in Nat
      BY <3>2, <3>4
    <3>6. Hook!Pause[i] = 2 * Hook!Pause[i - 1]
      BY <1>8, <3>4
    <3> QED
      BY <3>2, <3>5, <3>6
  <2>2. \A i \in Nat : Hook!Pause[i] \in Nat
    BY <2>1
  <2>3. Hook!Pause = [i \in Nat |-> Hook!Pause[i]]
    <3> DEFINE H(i) == IF i = 0 THEN 1 ELSE 2 * Hook!Pause[i - 1]
    <3>1. Hook!Pause = [i \in Nat |-> H(i)]
      BY <1>6
    <3> HIDE DEF H
    <3>2. \A i \in Nat : Hook!Pause[i] = H(i)
      BY <3>1
    <3> QED
      BY <3>1, <3>2
  <2> QED
    BY <2>2, <2>3
<1> QED
  BY <1>7, <1>8, <1>9

Last(h) == IF MaxRetries[h] < 1 THEN 1 ELSE MaxRetries[h]

(* The times of the attempts made for an event keep their distance.           *)
TimesHold(times, h, c) ==
  /\ \A i \in 1..Len(times) : times[i] <= c
  /\ \A i \in 2..Len(times) : times[i] - times[i - 1] >= Hook!Pause[i - 2]
  /\ Len(times) <= Last(h)

(* A task asleep waits for the attempt after the last of times.               *)
TaskOf(t, times) ==
  /\ t = [hook |-> t.hook, event |-> t.event, attempt |-> t.attempt, due |-> t.due,
          delay |-> t.delay]
  /\ Len(times) >= 1
  /\ t.attempt = Len(times) + 1 /\ t.attempt <= MaxRetries[t.hook]
  /\ t.delay = Hook!Pause[Len(times) - 1]
  /\ t.due = times[Len(times)] + t.delay

Awaited(h, n) == \E t \in pending : t.hook = h /\ t.event = n

HookTyped ==
  /\ client \in BOOLEAN /\ clock \in Nat
  /\ fired \in Nat /\ fired <= MaxFired
  /\ failures \in [Hooks -> Nat]
  /\ tried \in [Hooks -> [1..MaxFired -> Seq(Nat)]]

HookInv ==
  /\ HookTyped
  /\ \A h \in Hooks, n \in 1..MaxFired :
       /\ TimesHold(tried[h][n], h, clock)
       /\ n > fired => tried[h][n] = <<>>
       /\ tried[h][n] # <<>> /\ ~Awaited(h, n) => Len(tried[h][n]) = Last(h)
  /\ \A t \in pending : t.hook \in Hooks =>
       t.event \in 1..fired /\ TaskOf(t, tried[t.hook][t.event])
  /\ \A h \in Hooks : /\ IsFiniteSet(Hook!Attempts(h))
                      /\ client => failures[h] = Cardinality(Hook!Attempts(h))

(* One more attempt for each hook in hs.                                      *)
LEMMA AttemptsCount ==
  ASSUME HookInv, NEW hs, NEW n \in 1..MaxFired, Hook!Attempt(hs, n), client' = client
  PROVE  /\ failures' \in [Hooks -> Nat]
         /\ tried' \in [Hooks -> [1..MaxFired -> Seq(Nat)]]
         /\ \A h \in Hooks, m \in 1..MaxFired :
              tried'[h][m] = IF h \in hs /\ m = n THEN Append(tried[h][n], clock)
                             ELSE tried[h][m]
         /\ \A h \in Hooks : /\ IsFiniteSet(Hook!Attempts(h)')
                             /\ client => failures'[h] = Cardinality(Hook!Attempts(h)')
<1>1. /\ client \in BOOLEAN /\ clock \in Nat /\ failures \in [Hooks -> Nat]
      /\ tried \in [Hooks -> [1..MaxFired -> Seq(Nat)]]
  BY DEF HookInv, HookTyped
<1>2. /\ failures' = [h \in Hooks |-> failures[h] + IF client /\ h \in hs THEN 1 ELSE 0]
      /\ tried' = [h \in Hooks |-> IF h \in hs
                     THEN [tried[h] EXCEPT ![n] = Append(@, clock)] ELSE tried[h]]
  BY DEF Hook!Attempt
<1>3. failures' \in [Hooks -> Nat]
  BY <1>1, <1>2
<1>4. tried' \in [Hooks -> [1..MaxFired -> Seq(Nat)]]
  <2>1. ASSUME NEW h \in Hooks PROVE tried'[h] \in [1..MaxFired -> Seq(Nat)]
    <3>1. tried[h] \in [1..MaxFired -> Seq(Nat)] /\ tried[h][n] \in Seq(Nat)
      BY <1>1
    <3>2. Append(tried[h][n], clock) \in Seq(Nat)
      BY <1>1, <3>1
    <3>3. [tried[h] EXCEPT ![n] = Append(@, clock)] \in [1..MaxFired -> Seq(Nat)]
      BY <3>1, <3>2
    <3> QED
      BY <1>2, <3>1, <3>3
  <2> QED
    BY <1>2, <2>1
<1>5. ASSUME NEW h \in Hooks, NEW m \in 1..MaxFired
      PROVE  tried'[h][m] = IF h \in hs /\ m = n THEN Append(tried[h][n], clock)
                            ELSE tried[h][m]
  BY <1>1, <1>2
<1>6. ASSUME NEW h \in Hooks
      PROVE  /\ IsFiniteSet(Hook!Attempts(h)')
             /\ client => failures'[h] = Cardinality(Hook!Attempts(h)')
  <2> DEFINE A == Hook!Attempts(h)
             k == Len(tried[h][n])
  <2>1. IsFiniteSet(A) /\ (client => failures[h] = Cardinality(A))
    <3> HIDE DEF A
    <3>1. IsFiniteSet(Hook!Attempts(h))
          /\ (client => failures[h] = Cardinality(Hook!Attempts(h)))
      BY Zenon DEF HookInv
    <3> QED
      BY <3>1 DEF A
  <2>2. CASE h \notin hs
    <3>1. tried'[h] = tried[h] /\ failures'[h] = failures[h]
      BY <1>1, <1>2, <2>2
    <3>2. Hook!Attempts(h)' = A
      BY <3>1 DEF Hook!Attempts
    <3> QED
      BY <2>1, <3>1, <3>2
  <2>3. CASE h \in hs
    <3>1. /\ k \in Nat /\ DOMAIN tried[h][n] = 1..k
          /\ DOMAIN tried'[h][n] = 1..(k + 1)
      <4>1. tried[h][n] \in Seq(Nat)
        BY <1>1
      <4>2. tried'[h][n] = Append(tried[h][n], clock)
        BY <1>5, <2>3
      <4> QED
        BY <1>1, <4>1, <4>2
    <3>2. \A m \in 1..MaxFired : m # n => tried'[h][m] = tried[h][m]
      BY <1>5
    <3>3. Hook!Attempts(h)' = A \cup {<<n, k + 1>>}
      <4>1. Hook!Attempts(h)' = UNION {{m} \X DOMAIN tried'[h][m] : m \in 1..MaxFired}
        BY DEF Hook!Attempts
      <4>2. A = UNION {{m} \X DOMAIN tried[h][m] : m \in 1..MaxFired}
        BY DEF Hook!Attempts
      <4> HIDE DEF A, k
      <4>3. ASSUME NEW x PROVE x \in Hook!Attempts(h)' <=> x \in A \cup {<<n, k + 1>>}
        <5>1. x \in Hook!Attempts(h)' <=>
                \E m \in 1..MaxFired : \E i \in DOMAIN tried'[h][m] : x = <<m, i>>
          BY <4>1
        <5>2. x \in A <=> \E m \in 1..MaxFired : \E i \in DOMAIN tried[h][m] : x = <<m, i>>
          BY <4>2
        <5>3. 1..(k + 1) = 1..k \cup {k + 1}
          BY <3>1
        <5> QED
          BY <5>1, <5>2, <5>3, <3>1, <3>2
      <4> QED
        BY <4>3
    <3>4. <<n, k + 1>> \notin A
      <4>1. ~(k + 1 \in 1..k)
        BY <3>1
      <4> QED
        BY <3>1, <4>1 DEF Hook!Attempts
    <3> HIDE DEF A
    <3>5. /\ IsFiniteSet(A \cup {<<n, k + 1>>})
          /\ Cardinality(A \cup {<<n, k + 1>>}) = Cardinality(A) + 1
      BY <2>1, <3>4, FS_AddElement
    <3>6. client => failures'[h] = failures[h] + 1
      BY <1>1, <1>2, <2>3
    <3> QED
      BY <2>1, <3>3, <3>5, <3>6
  <2> QED
    BY <2>2, <2>3
<1> QED
  BY <1>3, <1>4, <1>5, <1>6

(* A task is told from others by its hook and its event.                      *)
LEMMA OneTask ==
  ASSUME HookInv, NEW t \in pending, NEW u \in pending, t.hook \in Hooks,
         t.hook = u.hook, t.event = u.event
  PROVE  t = u
<1> DEFINE times == tried[t.hook][t.event]
<1>1. TaskOf(t, times) /\ TaskOf(u, times)
  BY DEF HookInv
<1> HIDE DEF times
<1>2. t.attempt = u.attempt /\ t.delay = u.delay /\ t.due = u.due
  BY <1>1 DEF TaskOf
<1>3. /\ t = [hook |-> t.hook, event |-> t.event, attempt |-> t.attempt, due |-> t.due,
             delay |-> t.delay]
      /\ u = [hook |-> u.hook, event |-> u.event, attempt |-> u.attempt, due |-> u.due,
             delay |-> u.delay]
  BY <1>1 DEF TaskOf
<1> QED
  BY <1>2, <1>3

(* What one more attempt does to the times of an event.                       *)
LEMMA OneMoreTime ==
  ASSUME HookInv, NEW h \in Hooks, NEW n \in 1..MaxFired,
         NEW more, more = Append(tried[h][n], clock),
         Len(tried[h][n]) + 1 <= Last(h),
         Len(tried[h][n]) > 0 =>
           clock >= tried[h][n][Len(tried[h][n])] + Hook!Pause[Len(tried[h][n]) - 1]
  PROVE  /\ TimesHold(more, h, clock) /\ Len(more) = Len(tried[h][n]) + 1 /\ more[Len(more)] = clock
<1> DEFINE old == tried[h][n]
           k == Len(old)
<1>1. /\ clock \in Nat /\ old \in Seq(Nat) /\ TimesHold(old, h, clock) /\ k \in Nat
  <2>1. clock \in Nat /\ old \in Seq(Nat)
    BY DEF HookInv, HookTyped
  <2> HIDE DEF old
  <2>2. TimesHold(old, h, clock)
    BY DEF HookInv, old
  <2> QED
    BY <2>1, <2>2
<1>1a. more = Append(old, clock)
  OBVIOUS
<1> HIDE DEF old
<1>2. /\ Len(more) = k + 1 /\ more[k + 1] = clock
      /\ \A i \in 1..k : more[i] = old[i] /\ old[i] \in Nat
  BY ONLY <1>1, <1>1a
<1> HIDE DEF k
<1>1b. k \in Nat /\ clock \in Nat
  BY <1>1
<1>3. k + 1 <= Last(h) /\ (k > 0 => clock >= old[k] + Hook!Pause[k - 1])
  BY DEF old, k
<1>3a. \A i \in 1..k : old[i] <= clock
  BY <1>1 DEF TimesHold, k
<1>3b. \A i \in 2..k : old[i] - old[i - 1] >= Hook!Pause[i - 2]
  BY <1>1 DEF TimesHold, k
<1>4. \A i \in 1..(k + 1) : more[i] <= clock
  BY ONLY <1>1b, <1>2, <1>3a
<1>5. \A i \in 2..(k + 1) : more[i] - more[i - 1] >= Hook!Pause[i - 2]
  <2> SUFFICES ASSUME NEW i \in 2..(k + 1) PROVE more[i] - more[i - 1] >= Hook!Pause[i - 2]
    OBVIOUS
  <2>1. CASE i = k + 1
    <3>1. k > 0 /\ i - 1 = k /\ i - 2 = k - 1 /\ k - 1 \in Nat /\ k \in 1..k
      BY ONLY <1>1b, <2>1, i \in 2..(k + 1)
    <3>2. Hook!Pause[k - 1] \in Nat
      BY <3>1, PauseDoubles
    <3> QED
      BY <1>1, <1>2, <1>3, <2>1, <3>1, <3>2
  <2>2. CASE i # k + 1
    <3>1. i \in 2..k /\ i \in 1..k /\ i - 1 \in 1..k
      BY <1>1, <2>2
    <3> QED
      BY <1>2, <1>3b, <3>1
  <2> QED
    BY <2>1, <2>2
<1>7. TimesHold(more, h, clock)
  BY <1>2, <1>3, <1>4, <1>5 DEF TimesHold
<1> QED
  BY <1>2, <1>7 DEF k, old

LEMMA HookStarts == Hook!Init => HookInv
<1> SUFFICES ASSUME Hook!Init PROVE HookInv
  OBVIOUS
<1> USE DEF Hook!Init
<1>1. HookTyped
  <2>1. [n \in 1..MaxFired |-> <<>>] \in [1..MaxFired -> Seq(Nat)]
    OBVIOUS
  <2> QED
    BY <2>1, HooksAssumption DEF HookTyped
<1>2. ASSUME NEW h \in Hooks, NEW n \in 1..MaxFired
      PROVE  tried[h][n] = <<>> /\ TimesHold(tried[h][n], h, clock)
  <2>1. tried[h][n] = <<>>
    OBVIOUS
  <2>2. Last(h) \in Int /\ 0 <= Last(h)
    BY HooksAssumption DEF Last
  <2>3. Len(<<>>) = 0 /\ 1..0 = {} /\ 2..0 = {}
    OBVIOUS
  <2>4. TimesHold(<<>>, h, clock)
    BY <2>2, <2>3 DEF TimesHold
  <2> QED
    BY <2>1, <2>4
<1>3. ASSUME NEW h \in Hooks
      PROVE  IsFiniteSet(Hook!Attempts(h)) /\ Cardinality(Hook!Attempts(h)) = 0
  <2>1. \A n \in 1..MaxFired : DOMAIN tried[h][n] = {}
    OBVIOUS
  <2>2. Hook!Attempts(h) = {}
    BY <2>1 DEF Hook!Attempts
  <2> QED
    BY <2>2, FS_EmptySet
<1>4. pending = {} /\ \A h \in Hooks : failures[h] = 0
  OBVIOUS
<1> QED
  BY <1>1, <1>2, <1>3, <1>4 DEF HookInv

LEMMA HookFires ==
  ASSUME HookInv, Hook!FireEvent
  PROVE  HookInv'
<1> DEFINE n == fired + 1
<1>1. PICK hs :
        /\ fired < MaxFired /\ fired' = n /\ Hook!Attempt(hs, n)
        /\ pending' = pending \cup UNION {Hook!Sleeping(h, n, 2, 1) : h \in hs}
        /\ UNCHANGED <<client, clock>>
  BY DEF Hook!FireEvent
<1>2. HookTyped
  BY DEF HookInv
<1>3. fired \in Nat /\ n \in 1..MaxFired /\ n \in Nat /\ clock \in Nat /\ MaxFired \in Nat
  BY <1>1, <1>2, HooksAssumption DEF HookTyped
<1>4. /\ failures' \in [Hooks -> Nat]
      /\ tried' \in [Hooks -> [1..MaxFired -> Seq(Nat)]]
      /\ \A h \in Hooks, m \in 1..MaxFired :
           tried'[h][m] = IF h \in hs /\ m = n THEN Append(tried[h][n], clock)
                          ELSE tried[h][m]
      /\ \A h \in Hooks : IsFiniteSet(Hook!Attempts(h)')
           /\ (client => failures'[h] = Cardinality(Hook!Attempts(h)'))
  BY <1>1, <1>3, AttemptsCount
<1>5. HookTyped'
  BY <1>1, <1>2, <1>3, <1>4 DEF HookTyped
<1>6. \A h \in Hooks : tried[h][n] = <<>>
  BY <1>3 DEF HookInv
<1>7. \A h \in Hooks : Last(h) >= 1 /\ Last(h) \in Int /\ (~(2 <= MaxRetries[h]) => Last(h) = 1)
                       /\ MaxRetries[h] \in Int
  BY HooksAssumption DEF Last
<1>8. Hook!Pause[0] = 1
  BY PauseDoubles
<1>9. ASSUME NEW h \in Hooks, h \in hs
      PROVE  /\ tried'[h][n] = <<clock>>
             /\ TimesHold(tried'[h][n], h, clock') /\ Len(tried'[h][n]) = 1
  <2>1. tried'[h][n] = Append(tried[h][n], clock) /\ tried[h][n] = <<>>
    BY <1>3, <1>4, <1>6, <1>9
  <2>2. Append(<<>>, clock) = <<clock>> /\ Len(<<>>) = 0 /\ Len(<<clock>>) = 1
    OBVIOUS
  <2>3. Len(tried[h][n]) = 0 /\ 0 + 1 <= Last(h) /\ ~(0 > 0)
    BY <1>7, <2>1, <2>2
  <2>4. TimesHold(tried'[h][n], h, clock')
    BY <1>1, <1>3, <2>1, <2>3, OneMoreTime
  <2> QED
    BY <2>1, <2>2, <2>4
<1>10. ASSUME NEW t \in pending', t.hook \in Hooks
       PROVE  t.event \in 1..fired' /\ TaskOf(t, tried'[t.hook][t.event])
  <2>1. CASE t \in pending
    <3>1. t.event \in 1..fired /\ TaskOf(t, tried[t.hook][t.event])
      BY <1>10, <2>1 DEF HookInv
    <3>2. t.event \in 1..MaxFired /\ t.event # n /\ t.event \in 1..n
      BY <1>3, <3>1
    <3>3. tried'[t.hook][t.event] = tried[t.hook][t.event]
      BY <1>4, <1>10, <3>2
    <3> QED
      BY <1>1, <3>1, <3>2, <3>3
  <2>2. CASE t \notin pending
    <3>1. PICK h \in hs : t \in Hook!Sleeping(h, n, 2, 1)
      BY <1>1, <2>2
    <3>2. ~(2 > MaxRetries[h])
          /\ t = [hook |-> h, event |-> n, attempt |-> 2, due |-> clock + 1, delay |-> 1]
      BY <3>1 DEF Hook!Sleeping
    <3>3. t.hook = h /\ t.event = n /\ t.attempt = 2 /\ t.due = clock + 1 /\ t.delay = 1
          /\ t = [hook |-> t.hook, event |-> t.event, attempt |-> t.attempt, due |-> t.due,
                  delay |-> t.delay]
      BY <3>2
    <3>4. h \in Hooks /\ tried'[h][n] = <<clock>> /\ Len(<<clock>>) = 1 /\ <<clock>>[1] = clock
      BY <1>9, <1>10, <3>3
    <3>5. TaskOf(t, <<clock>>)
      <4>1. 2 <= MaxRetries[h]
        BY <1>7, <3>2, <3>4
      <4>2. 1 - 1 = 0 /\ 1 + 1 = 2 /\ 1 >= 1
        OBVIOUS
      <4> QED
        BY <1>8, <3>3, <3>4, <4>1, <4>2 DEF TaskOf
    <3>6. n \in 1..n
      BY <1>3
    <3> QED
      BY <1>1, <3>3, <3>4, <3>5, <3>6
  <2> QED
    BY <2>1, <2>2
<1>11. ASSUME NEW h \in Hooks, NEW m \in 1..MaxFired
       PROVE  /\ TimesHold(tried'[h][m], h, clock')
              /\ m > fired' => tried'[h][m] = <<>>
              /\ tried'[h][m] # <<>> /\ ~Awaited(h, m)' => Len(tried'[h][m]) = Last(h)'
  <2>1. CASE h \in hs /\ m = n
    <3>1. TimesHold(tried'[h][m], h, clock') /\ Len(tried'[h][m]) = 1 /\ ~(m > fired')
      BY <1>1, <1>3, <1>9, <2>1
    <3>2. CASE 2 <= MaxRetries[h]
      <4> DEFINE t == [hook |-> h, event |-> n, attempt |-> 2, due |-> clock + 1, delay |-> 1]
      <4>1. Hook!Sleeping(h, n, 2, 1) = {t}
        BY <3>2, <1>7 DEF Hook!Sleeping
      <4>2. t \in pending' /\ t.hook = h /\ t.event = n
        BY <1>1, <2>1, <4>1
      <4> HIDE DEF t
      <4>3. Awaited(h, m)'
        BY <2>1, <4>2 DEF Awaited
      <4> QED
        BY <3>1, <4>3
    <3>3. CASE ~(2 <= MaxRetries[h])
      BY <1>7, <3>1, <3>3 DEF Last
    <3> QED
      BY <3>2, <3>3
  <2>2. CASE ~(h \in hs /\ m = n)
    <3>1. tried'[h][m] = tried[h][m]
      BY <1>4, <2>2
    <3>2. TimesHold(tried'[h][m], h, clock')
      <4>1. TimesHold(tried[h][m], h, clock)
        BY DEF HookInv
      <4> QED
        BY <1>1, <3>1, <4>1 DEF TimesHold, Last
    <3>3. m > fired => tried[h][m] = <<>>
      BY DEF HookInv
    <3>4. m > fired' => m > fired
      BY <1>1, <1>3
    <3>5. Awaited(h, m) => Awaited(h, m)'
      BY <1>1 DEF Awaited
    <3>6. tried[h][m] # <<>> /\ ~Awaited(h, m) => Len(tried[h][m]) = Last(h)
      BY DEF HookInv
    <3> QED
      BY <3>1, <3>2, <3>3, <3>4, <3>5, <3>6 DEF Last
  <2> QED
    BY <2>1, <2>2
<1> HIDE DEF n
<1> QED
  BY <1>1, <1>4, <1>5, <1>10, <1>11 DEF HookInv

LEMMA HookRetries ==
  ASSUME HookInv, Hook!RetryDelivery
  PROVE  HookInv'
<1>1. PICK t \in pending :
        /\ t.due <= clock /\ Hook!Attempt({t.hook}, t.event)
        /\ pending' = (pending \ {t})
                        \cup Hook!Sleeping(t.hook, t.event, t.attempt + 1, 2 * t.delay)
        /\ UNCHANGED <<client, fired, clock>>
  BY DEF Hook!RetryDelivery
<1>2. HookTyped
  BY DEF HookInv
<1> DEFINE h == t.hook
           n == t.event
           s == [hook |-> h, event |-> n, attempt |-> t.attempt + 1,
                 due |-> clock + 2 * t.delay, delay |-> 2 * t.delay]
<1>3. Hook!Sleeping(h, n, t.attempt + 1, 2 * t.delay)
        = IF t.attempt + 1 > MaxRetries[h] THEN {} ELSE {s}
  BY DEF Hook!Sleeping
<1>4. CASE h \notin Hooks
  <2>1. failures' = failures /\ tried' = tried
    <3>1. \A g \in Hooks : g \notin {h}
      BY <1>4
    <3>2. /\ failures' = [g \in Hooks |-> failures[g] + IF client /\ g \in {h} THEN 1 ELSE 0]
          /\ tried' = [g \in Hooks |-> IF g \in {h}
                         THEN [tried[g] EXCEPT ![n] = Append(@, clock)] ELSE tried[g]]
      BY <1>1 DEF Hook!Attempt
    <3>3. failures \in [Hooks -> Nat] /\ DOMAIN tried = Hooks
          /\ tried = [g \in Hooks |-> tried[g]]
      BY <1>2 DEF HookTyped
    <3>4. \A g \in Hooks : failures[g] + (IF client /\ g \in {h} THEN 1 ELSE 0) = failures[g]
      BY <3>1, <3>3
    <3>5. failures' = failures
      BY <3>2, <3>3, <3>4
    <3>6. tried' = tried
      BY <3>1, <3>2, <3>3
    <3> QED
      BY <3>5, <3>6
  <2>2. \A g \in Hooks : Hook!Attempts(g)' = Hook!Attempts(g) /\ Last(g)' = Last(g)
    BY <2>1 DEF Hook!Attempts, Last
  <2>3. \A u \in pending' : u.hook \in Hooks => u \in pending
    BY <1>1, <1>3, <1>4
  <2>4. \A g \in Hooks, m \in 1..MaxFired : Awaited(g, m) => Awaited(g, m)'
    BY <1>1, <1>4 DEF Awaited
  <2>5. HookTyped'
    BY <1>1, <1>2, <2>1 DEF HookTyped
  <2>6. \A g \in Hooks, m \in 1..MaxFired :
          /\ TimesHold(tried'[g][m], g, clock')
          /\ m > fired' => tried'[g][m] = <<>>
          /\ tried'[g][m] # <<>> /\ ~Awaited(g, m)' => Len(tried'[g][m]) = Last(g)'
    BY <1>1, <2>1, <2>2, <2>4 DEF HookInv
  <2>7. \A u \in pending' : u.hook \in Hooks =>
          u.event \in 1..fired' /\ TaskOf(u, tried'[u.hook][u.event])
    BY <1>1, <2>1, <2>3 DEF HookInv
  <2>8. \A g \in Hooks : IsFiniteSet(Hook!Attempts(g)')
          /\ (client' => failures'[g] = Cardinality(Hook!Attempts(g)'))
    <3>1. \A g \in Hooks : IsFiniteSet(Hook!Attempts(g))
            /\ (client => failures[g] = Cardinality(Hook!Attempts(g)))
      BY Zenon DEF HookInv
    <3> QED
      BY <1>1, <2>1, <2>2, <3>1
  <2> QED
    BY <2>5, <2>6, <2>7, <2>8 DEF HookInv
<1>5. CASE h \in Hooks
  <2> DEFINE old == tried[h][n]
             k == Len(old)
  <2>1. n \in 1..fired /\ TaskOf(t, old)
    BY <1>5 DEF HookInv
  <2>2. fired \in Nat /\ fired <= MaxFired /\ MaxFired \in Nat /\ clock \in Nat
    BY <1>2, HooksAssumption DEF HookTyped
  <2>3. n \in 1..MaxFired
    BY <2>1, <2>2
  <2>4. old \in Seq(Nat) /\ k \in Nat
    <3>1. old \in Seq(Nat)
      BY <1>2, <1>5, <2>3 DEF HookTyped
    <3> HIDE DEF old
    <3> QED
      BY <3>1
  <2>5. /\ k >= 1 /\ t.attempt = k + 1 /\ t.attempt <= MaxRetries[h]
        /\ t.delay = Hook!Pause[k - 1] /\ t.due = old[k] + t.delay
    BY <2>1 DEF TaskOf
  <2>6. MaxRetries[h] \in Int /\ Last(h) = MaxRetries[h]
    BY <1>5, <2>4, <2>5, HooksAssumption DEF Last
  <2>7. /\ failures' \in [Hooks -> Nat]
        /\ tried' \in [Hooks -> [1..MaxFired -> Seq(Nat)]]
        /\ \A g \in Hooks, m \in 1..MaxFired :
             tried'[g][m] = IF g \in {h} /\ m = n THEN Append(tried[g][n], clock)
                            ELSE tried[g][m]
        /\ \A g \in Hooks : IsFiniteSet(Hook!Attempts(g)')
             /\ (client => failures'[g] = Cardinality(Hook!Attempts(g)'))
    BY <1>1, <2>3, AttemptsCount
  <2>8. HookTyped'
    BY <1>1, <1>2, <2>7 DEF HookTyped
  <2>9. k - 1 \in Nat /\ Hook!Pause[k - 1] \in Nat /\ Hook!Pause[k] = 2 * Hook!Pause[k - 1]
    <3>1. k - 1 \in Nat /\ (k - 1) + 1 = k
      BY <2>4, <2>5
    <3> QED
      BY <3>1, PauseDoubles
  <2>10. /\ tried'[h][n] = Append(old, clock) /\ TimesHold(tried'[h][n], h, clock)
         /\ Len(tried'[h][n]) = k + 1 /\ tried'[h][n][k + 1] = clock
    <3>1. tried'[h][n] = Append(tried[h][n], clock)
      BY <1>5, <2>3, <2>7
    <3>2. k + 1 <= Last(h) /\ clock >= old[k] + Hook!Pause[k - 1]
      BY <1>1, <2>5, <2>6
    <3> QED
      BY <1>5, <2>3, <3>1, <3>2, OneMoreTime
  <2> HIDE DEF old, k
  <2>11. \A u \in pending : u.hook = h /\ u.event = n => u = t
    BY <1>5, OneTask
  <2>12. ASSUME NEW u \in pending', u.hook \in Hooks
         PROVE  u.event \in 1..fired' /\ TaskOf(u, tried'[u.hook][u.event])
    <3>1. CASE u \in pending /\ u # t
      <4>1. u.event \in 1..fired /\ TaskOf(u, tried[u.hook][u.event])
        BY <2>12, <3>1 DEF HookInv
      <4>2. u.event \in 1..MaxFired
        BY <2>2, <4>1
      <4>3. ~(u.hook \in {h} /\ u.event = n)
        BY <2>11, <3>1
      <4>4. tried'[u.hook][u.event] = tried[u.hook][u.event]
        BY <2>7, <2>12, <4>2, <4>3
      <4> QED
        BY <1>1, <4>1, <4>4
    <3>2. CASE ~(u \in pending /\ u # t)
      <4>1. ~(t.attempt + 1 > MaxRetries[h]) /\ u = s
        BY <1>1, <1>3, <3>2
      <4>2. u.hook = h /\ u.event = n /\ u.attempt = t.attempt + 1
            /\ u.due = clock + 2 * t.delay /\ u.delay = 2 * t.delay
            /\ u = [hook |-> u.hook, event |-> u.event, attempt |-> u.attempt, due |-> u.due,
                    delay |-> u.delay]
        BY <4>1
      <4> HIDE DEF s, h, n
      <4>3. /\ u.attempt = (k + 1) + 1 /\ u.attempt <= MaxRetries[u.hook]
            /\ u.delay = Hook!Pause[k] /\ u.due = clock + u.delay
            /\ (k + 1) - 1 = k /\ k + 1 >= 1
        BY <2>4, <2>5, <2>6, <2>9, <4>1, <4>2
      <4> DEFINE more == tried'[h][n]
      <4>4. Len(more) = k + 1 /\ more[k + 1] = clock
        BY <2>10
      <4> HIDE DEF more
      <4>5. TaskOf(u, more)
        BY <4>2, <4>3, <4>4 DEF TaskOf
      <4> QED
        BY <1>1, <2>1, <4>2, <4>5 DEF more
    <3> QED
      BY <3>1, <3>2
  <2>13. ASSUME NEW g \in Hooks, NEW m \in 1..MaxFired
         PROVE  /\ TimesHold(tried'[g][m], g, clock')
                /\ m > fired' => tried'[g][m] = <<>>
                /\ tried'[g][m] # <<>> /\ ~Awaited(g, m)' => Len(tried'[g][m]) = Last(g)'
    <3>1. CASE g = h /\ m = n
      <4>1. TimesHold(tried'[g][m], g, clock') /\ ~(m > fired')
        <5>1. clock' = clock /\ fired' = fired
          BY <1>1
        <5>2. ~(m > fired')
          BY <2>1, <2>2, <3>1, <5>1
        <5> QED
          BY <2>10, <3>1, <5>1, <5>2
      <4>2. CASE t.attempt + 1 > MaxRetries[h]
        <5>1. k + 1 = Last(h)
          BY <2>4, <2>5, <2>6, <4>2
        <5> QED
          BY <2>10, <3>1, <4>1, <5>1 DEF Last
      <4>3. CASE ~(t.attempt + 1 > MaxRetries[h])
        <5>1. s \in pending' /\ s.hook = h /\ s.event = n
          BY <1>1, <1>3, <4>3
        <5> HIDE DEF s, h, n
        <5>2. Awaited(g, m)'
          BY <3>1, <5>1 DEF Awaited
        <5> QED
          BY <4>1, <5>2
      <4> QED
        BY <4>2, <4>3
    <3>2. CASE ~(g = h /\ m = n)
      <4>1. tried'[g][m] = tried[g][m]
        BY <2>7, <3>2
      <4>2. TimesHold(tried[g][m], g, clock)
        BY DEF HookInv
      <4>3. m > fired => tried[g][m] = <<>>
        BY DEF HookInv
      <4>4. Awaited(g, m) => Awaited(g, m)'
        BY <1>1, <3>2 DEF Awaited
      <4>5. tried[g][m] # <<>> /\ ~Awaited(g, m) => Len(tried[g][m]) = Last(g)
        BY DEF HookInv
      <4> QED
        BY <1>1, <4>1, <4>2, <4>3, <4>4, <4>5 DEF Last
    <3> QED
      BY <3>1, <3>2
  <2>14. \A g \in Hooks : IsFiniteSet(Hook!Attempts(g)')
           /\ (client' => failures'[g] = Cardinality(Hook!Attempts(g)'))
    BY <1>1, <2>7
  <2> HIDE DEF h, n, s
  <2> QED
    BY <2>8, <2>12, <2>13, <2>14 DEF HookInv
<1> QED
  BY <1>4, <1>5

LEMMA HookTicks ==
  ASSUME HookInv, Hook!Tick
  PROVE  HookInv'
<1>1. clock \in Nat /\ clock' = clock + 1 /\ HookTyped
      /\ UNCHANGED <<client, hooks, gone, failures, pending, fired, tried>>
  BY DEF HookInv, HookTyped, Hook!Tick
<1>2. HookTyped'
  BY <1>1 DEF HookTyped
<1>3. \A h \in Hooks : Hook!Attempts(h)' = Hook!Attempts(h) /\ Last(h)' = Last(h)
  BY <1>1 DEF Hook!Attempts, Last
<1>4. ASSUME NEW h \in Hooks, NEW n \in 1..MaxFired
      PROVE  TimesHold(tried[h][n], h, clock + 1)
  <2> DEFINE times == tried[h][n]
  <2>1. times \in Seq(Nat)
    BY <1>1 DEF HookTyped
  <2>2. TimesHold(times, h, clock)
    BY DEF HookInv
  <2> HIDE DEF times
  <2>3. \A i \in 1..Len(times) : times[i] \in Nat
    BY <2>1
  <2>4. TimesHold(times, h, clock + 1)
    BY <1>1, <2>2, <2>3 DEF TimesHold
  <2> QED
    BY <2>4 DEF times
<1>5. \A h \in Hooks, n \in 1..MaxFired : Awaited(h, n)' <=> Awaited(h, n)
  BY <1>1 DEF Awaited
<1>6. \A h \in Hooks, n \in 1..MaxFired :
        /\ TimesHold(tried'[h][n], h, clock')
        /\ n > fired' => tried'[h][n] = <<>>
        /\ tried'[h][n] # <<>> /\ ~Awaited(h, n)' => Len(tried'[h][n]) = Last(h)'
  BY <1>1, <1>3, <1>4, <1>5 DEF HookInv
<1>7. \A t \in pending' : t.hook \in Hooks =>
        t.event \in 1..fired' /\ TaskOf(t, tried'[t.hook][t.event])
  BY <1>1 DEF HookInv
<1>8. \A h \in Hooks : IsFiniteSet(Hook!Attempts(h)')
        /\ (client' => failures'[h] = Cardinality(Hook!Attempts(h)'))
  <2>1. \A h \in Hooks : IsFiniteSet(Hook!Attempts(h))
          /\ (client => failures[h] = Cardinality(Hook!Attempts(h)))
    BY Zenon DEF HookInv
  <2> QED
    BY <1>1, <1>3, <2>1
<1> QED
  BY <1>2, <1>6, <1>7, <1>8 DEF HookInv

LEMMA HookSteps ==
  ASSUME HookInv, Hook!Next \/ UNCHANGED webhooks
  PROVE  HookInv'
<1>1. CASE Hook!Register \/ Hook!AutoRegister \/ Hook!Unregister \/ UNCHANGED webhooks
  <2>1. UNCHANGED <<client, failures, pending, fired, clock, tried>>
    BY <1>1 DEF Hook!Register, Hook!AutoRegister, Hook!Unregister, webhooks
  <2> QED
    BY <2>1 DEF HookInv, HookTyped, Awaited, Hook!Attempts, Last
<1> QED
  BY <1>1, HookFires, HookRetries, HookTicks DEF Hook!Next

(* Retries keep their distance and their number, are given up only after the  *)
(* last, and all count, for any number of hooks, events and retries           *)
(* (webhooks.py).                                                             *)
THEOREM RetriesEnd == ServicesSpec => []RetriesRunTheirCourse
<1>1. ServicesInit => HookInv
  BY HookStarts DEF ServicesInit
<1>2. HookInv /\ [ServicesNext]_vars => HookInv'
  BY OneServiceSteps, HookSteps
<1>3. HookInv => RetriesRunTheirCourse
  <2> SUFFICES ASSUME HookInv PROVE Hook!RetriesRunTheirCourse
    BY DEF RetriesRunTheirCourse
  <2>1. ASSUME NEW h \in Hooks, NEW n \in 1..MaxFired
        PROVE  /\ \A i \in 2..Len(tried[h][n]) :
                    tried[h][n][i] - tried[h][n][i - 1] >= Hook!Pause[i - 2]
               /\ Len(tried[h][n]) <= Last(h)
               /\ (tried[h][n] # <<>> /\ ~\E t \in pending : t.hook = h /\ t.event = n)
                     => Len(tried[h][n]) = Last(h)
    BY DEF HookInv, TimesHold, Awaited
  <2>2. ASSUME NEW h \in Hooks, client
        PROVE  failures[h] = Hook!Cardinality(Hook!Attempts(h))
    <3>1. \A S : Hook!Cardinality(S) = Cardinality(S)
      BY DEF Hook!Cardinality, Cardinality
    <3>2. failures[h] = Cardinality(Hook!Attempts(h))
      BY <2>2, Zenon DEF HookInv
    <3> QED
      BY <3>1, <3>2
  <2> QED
    BY <2>1, <2>2 DEF Hook!RetriesRunTheirCourse, Last
<1> QED
  BY <1>1, <1>2, <1>3, PTL DEF ServicesSpec

-----------------------------------------------------------------------------
(* Parts of a sequence.  Position i of I is as manieth as I has up to it.     *)
Upto(I, i) == {j \in I : j <= i}
Manieth(I, a) == CHOOSE i \in I : Cardinality(Upto(I, i)) = a

(* The positions of a finite I map one to one, and in order, onto their       *)
(* number.                                                                    *)
LEMMA Ranks ==
  ASSUME NEW I, I \subseteq Nat, IsFiniteSet(I)
  PROVE  /\ Cardinality(I) \in Nat
         /\ \A i \in I : Cardinality(Upto(I, i)) \in 1..Cardinality(I)
         /\ \A i, j \in I : i < j => Cardinality(Upto(I, i)) < Cardinality(Upto(I, j))
         /\ \A i, j \in I : Cardinality(Upto(I, i)) = Cardinality(Upto(I, j)) => i = j
         /\ \A a \in 1..Cardinality(I) :
              Manieth(I, a) \in I /\ Cardinality(Upto(I, Manieth(I, a))) = a
<1> DEFINE n == Cardinality(I)
           rank == [i \in I |-> Cardinality(Upto(I, i))]
<1>1. n \in Nat /\ \A i \in I : i \in Nat
  BY FS_CardinalityType
<1>2. \A T \in SUBSET I : IsFiniteSet(T) /\ Cardinality(T) \in Nat /\ Cardinality(T) <= n
  BY FS_Subset, FS_CardinalityType
<1> HIDE DEF n
<1>3. \A i \in I : i \in Upto(I, i) /\ Upto(I, i) \subseteq I
  BY <1>1 DEF Upto
<1>4. ASSUME NEW i \in I, NEW j \in I, i < j
      PROVE  Cardinality(Upto(I, i)) < Cardinality(Upto(I, j))
  <2>0. i \in Nat /\ j \in Nat /\ \A x \in I : x \in Nat /\ (x <= i => x <= j)
    BY <1>1, <1>4
  <2>1. Upto(I, i) \in SUBSET Upto(I, j) /\ j \in Upto(I, j) /\ j \notin Upto(I, i)
    <3>1. j <= j /\ ~(j <= i)
      BY <1>4, <2>0
    <3> QED
      BY <2>0, <3>1 DEF Upto
  <2>2. IsFiniteSet(Upto(I, j))
    BY <1>2, <1>3
  <2>3. /\ Cardinality(Upto(I, i)) <= Cardinality(Upto(I, j))
        /\ Cardinality(Upto(I, i)) # Cardinality(Upto(I, j))
    BY <2>1, <2>2, FS_Subset
  <2>4. Cardinality(Upto(I, i)) \in Nat /\ Cardinality(Upto(I, j)) \in Nat
    BY <1>2, <1>3
  <2> QED
    BY <2>3, <2>4
<1>5. ASSUME NEW i \in I PROVE Cardinality(Upto(I, i)) \in 1..n
  <2>1. Cardinality(Upto(I, i)) # 0
    BY <1>2, <1>3, FS_EmptySet
  <2>2. Cardinality(Upto(I, i)) \in Nat /\ Cardinality(Upto(I, i)) <= n
    BY <1>2, <1>3
  <2> QED
    BY <1>1, <2>1, <2>2
<1>6. ASSUME NEW i \in I, NEW j \in I, Cardinality(Upto(I, i)) = Cardinality(Upto(I, j))
      PROVE  i = j
  <2>1. Cardinality(Upto(I, i)) \in Nat
    BY <1>1, <1>5
  <2>2. ~(i < j) /\ ~(j < i)
    BY <1>4, <1>6, <2>1
  <2> QED
    BY <1>1, <2>2
<1>7. rank \in Surjection(I, 1..n)
  <2>1. rank \in [I -> 1..n]
    BY <1>5
  <2>2. \A i, j \in I : rank[i] = rank[j] => i = j
    BY <1>6
  <2> HIDE DEF rank
  <2>3. rank \in Injection(I, 1..n)
    BY <2>1, <2>2 DEF Injection, IsInjective
  <2>4. IsFiniteSet(1..n) /\ Cardinality(1..n) = n
    BY <1>1, FS_Interval
  <2> QED
    BY <2>3, <2>4, FS_Injection DEF n
<1>8. ASSUME NEW a \in 1..n
      PROVE  Manieth(I, a) \in I /\ Cardinality(Upto(I, Manieth(I, a))) = a
  <2>1. PICK i \in I : rank[i] = a
    BY <1>7 DEF Surjection
  <2>2. \E j \in I : Cardinality(Upto(I, j)) = a
    BY <2>1
  <2> QED
    BY <2>2 DEF Manieth
<1> QED
  BY <1>1, <1>4, <1>5, <1>6, <1>8 DEF n

LEMMA KeptIs ==
  ASSUME NEW s, NEW I
  PROVE  Kept(s, I) = [a \in 1..Cardinality(I) |-> s[Manieth(I, a)]]
BY DEF Kept, Manieth, Upto

LEMMA PositionsFinite ==
  ASSUME NEW S, NEW s \in Seq(S), NEW I, I \subseteq 1..Len(s)
  PROVE  IsFiniteSet(I) /\ I \subseteq Nat /\ Cardinality(I) \in Nat /\ Cardinality(I) <= Len(s)
<1> DEFINE n == Len(s)
<1>1. n \in Nat
  OBVIOUS
<1> HIDE DEF n
<1>2. IsFiniteSet(1..n) /\ Cardinality(1..n) = n
  BY <1>1, FS_Interval
<1>3. I \subseteq 1..n
  BY DEF n
<1>4. IsFiniteSet(I) /\ Cardinality(I) <= n
  BY <1>2, <1>3, FS_Subset
<1>5. Cardinality(I) \in Nat
  BY <1>4, FS_CardinalityType
<1> QED
  BY <1>1, <1>3, <1>4, <1>5 DEF n

(* What is kept has its elements from these positions, each from one, in      *)
(* order.                                                                     *)
KeptFrom(s, I, f) ==
  /\ f \in [1..Len(Kept(s, I)) -> I]
  /\ \A a \in 1..Len(Kept(s, I)) : Kept(s, I)[a] = s[f[a]]
  /\ \A a, b \in 1..Len(Kept(s, I)) : a < b => f[a] < f[b]
  /\ \A i \in I : \E a \in 1..Len(Kept(s, I)) : f[a] = i

LEMMA KeptIsSeq ==
  ASSUME NEW S, NEW s \in Seq(S), NEW I, I \subseteq 1..Len(s)
  PROVE  /\ Kept(s, I) \in Seq(S) /\ Len(Kept(s, I)) = Cardinality(I)
         /\ Len(Kept(s, I)) <= Len(s)
         /\ \E f : KeptFrom(s, I, f)
<1> DEFINE n == Cardinality(I)
           k == Kept(s, I)
           f == [a \in 1..n |-> Manieth(I, a)]
<1>1. IsFiniteSet(I) /\ I \subseteq Nat /\ n \in Nat /\ n <= Len(s)
  BY PositionsFinite
<1>2. k = [a \in 1..n |-> s[Manieth(I, a)]]
  BY KeptIs
<1> HIDE DEF n, k
<1>3. /\ \A i \in I : Cardinality(Upto(I, i)) \in 1..n
      /\ \A i, j \in I : i < j => Cardinality(Upto(I, i)) < Cardinality(Upto(I, j))
      /\ \A i, j \in I : Cardinality(Upto(I, i)) = Cardinality(Upto(I, j)) => i = j
      /\ \A a \in 1..n : Manieth(I, a) \in I /\ Cardinality(Upto(I, Manieth(I, a))) = a
  BY <1>1, Ranks DEF n
<1>4. k \in Seq(S) /\ Len(k) = n
  <2>1. \A a \in 1..n : s[Manieth(I, a)] \in S
    <3>1. \A i \in I : s[i] \in S
      OBVIOUS
    <3> QED
      BY <1>3, <3>1
  <2>2. k \in [1..n -> S]
    BY <1>2, <2>1
  <2> QED
    BY <1>1, <2>2
<1>5. \A a \in 1..n : k[a] = s[f[a]]
  BY <1>2
<1>6. ASSUME NEW a \in 1..n, NEW b \in 1..n, a < b PROVE f[a] < f[b]
  <2>1. f[a] \in I /\ f[b] \in I /\ f[a] \in Nat /\ f[b] \in Nat
        /\ Cardinality(Upto(I, f[a])) = a /\ Cardinality(Upto(I, f[b])) = b
    BY <1>1, <1>3
  <2> HIDE DEF f
  <2>2. ~(f[b] < f[a])
    BY <1>3, <1>6, <2>1
  <2>3. f[a] # f[b]
    BY <1>6, <2>1
  <2> QED
    BY <2>1, <2>2, <2>3
<1>7. ASSUME NEW i \in I PROVE \E a \in 1..n : f[a] = i
  <2> DEFINE a == Cardinality(Upto(I, i))
  <2>1. a \in 1..n
    BY <1>3
  <2>2. f[a] \in I /\ Cardinality(Upto(I, f[a])) = a
    BY <1>3, <2>1
  <2>3. f[a] = i
    BY <1>3, <2>2
  <2> QED
    BY <2>1, <2>3
<1>8. f \in [1..n -> I]
  BY <1>3
<1> HIDE DEF f
<1>9. KeptFrom(s, I, f)
  BY <1>4, <1>5, <1>6, <1>7, <1>8 DEF KeptFrom, k
<1> QED
  BY <1>1, <1>4, <1>9 DEF n, k

(* A later part of the sequence does not matter.                              *)
LEMMA KeptOfPrefix ==
  ASSUME NEW S, NEW s \in Seq(S), NEW t \in Seq(S), NEW I, I \subseteq 1..Len(s),
         \A i \in 1..Len(s) : t[i] = s[i]
  PROVE  Kept(t, I) = Kept(s, I)
<1> DEFINE n == Cardinality(I)
<1>1. /\ Kept(t, I) = [a \in 1..n |-> t[Manieth(I, a)]]
      /\ Kept(s, I) = [a \in 1..n |-> s[Manieth(I, a)]]
  BY KeptIs
<1>2. \A a \in 1..n : Manieth(I, a) \in I
  BY PositionsFinite, Ranks
<1>3. \A a \in 1..n : t[Manieth(I, a)] = s[Manieth(I, a)]
  BY <1>2
<1> QED
  BY <1>1, <1>3

(* One more position behind the others adds its element.                      *)
LEMMA KeptOneMore ==
  ASSUME NEW S, NEW s \in Seq(S), NEW I, I \subseteq 1..Len(s), NEW n \in 1..Len(s),
         \A i \in I : i < n
  PROVE  Kept(s, I \cup {n}) = Append(Kept(s, I), s[n])
<1> DEFINE J == I \cup {n}
           k == Cardinality(I)
<1>1. /\ IsFiniteSet(I) /\ I \subseteq Nat /\ k \in Nat
      /\ J \subseteq 1..Len(s) /\ n \in Nat /\ n \notin I
  <2>1. \A i \in I : i \in Nat
    OBVIOUS
  <2>2. n \in Nat /\ ~(n < n)
    OBVIOUS
  <2> QED
    BY <2>1, <2>2, PositionsFinite
<1>2. IsFiniteSet(J) /\ J \subseteq Nat /\ Cardinality(J) = k + 1
  BY <1>1, FS_AddElement
<1> HIDE DEF J, k
<1>3. \A i \in I : Upto(J, i) = Upto(I, i)
  BY <1>1 DEF J, Upto
<1>4. Upto(J, n) = J
  <2>1. \A i \in J : i <= n
    BY <1>1 DEF J
  <2> QED
    BY <2>1 DEF Upto
<1>5. /\ \A i \in I : Cardinality(Upto(I, i)) \in 1..k
      /\ \A a \in 1..k : Manieth(I, a) \in I /\ Cardinality(Upto(I, Manieth(I, a))) = a
  BY <1>1, Ranks DEF k
<1>6. /\ \A i, j \in J : Cardinality(Upto(J, i)) = Cardinality(Upto(J, j)) => i = j
      /\ \A a \in 1..(k + 1) : Manieth(J, a) \in J /\ Cardinality(Upto(J, Manieth(J, a))) = a
  BY <1>2, Ranks
<1>7. \A a \in 1..k : Manieth(J, a) = Manieth(I, a)
  <2> SUFFICES ASSUME NEW a \in 1..k PROVE Manieth(J, a) = Manieth(I, a)
    OBVIOUS
  <2>1. a \in 1..(k + 1) /\ Manieth(I, a) \in J
    BY <1>1, <1>5 DEF J
  <2>2. Cardinality(Upto(J, Manieth(I, a))) = a
    BY <1>3, <1>5
  <2> QED
    BY <1>6, <2>1, <2>2
<1>8. Manieth(J, k + 1) = n
  <2>1. k + 1 \in 1..(k + 1) /\ n \in J
    BY <1>1 DEF J
  <2>2. Cardinality(Upto(J, n)) = k + 1
    BY <1>2, <1>4
  <2> QED
    BY <1>6, <2>1, <2>2
<1>9. /\ Kept(s, J) = [a \in 1..(k + 1) |-> s[Manieth(J, a)]]
      /\ Kept(s, I) = [a \in 1..k |-> s[Manieth(I, a)]]
  BY <1>2, KeptIs DEF k
<1>10. Kept(s, I) \in Seq(S) /\ Len(Kept(s, I)) = k
  BY KeptIsSeq DEF k
<1>11. Append(Kept(s, I), s[n])
         = [a \in 1..(k + 1) |-> IF a = k + 1 THEN s[n] ELSE Kept(s, I)[a]]
  <2> DEFINE q == Kept(s, I)
  <2>1. q \in Seq(S) /\ Len(q) = k /\ k \in Nat
    BY <1>1, <1>10
  <2> HIDE DEF q
  <2>2. Append(q, s[n]) = [a \in 1..(k + 1) |-> IF a = k + 1 THEN s[n] ELSE q[a]]
    BY <2>1
  <2> QED
    BY <2>2 DEF q
<1>12. ASSUME NEW a \in 1..(k + 1)
       PROVE  s[Manieth(J, a)] = IF a = k + 1 THEN s[n] ELSE Kept(s, I)[a]
  <2>1. CASE a = k + 1
    BY <1>8, <2>1
  <2>2. CASE a # k + 1
    <3>1. a \in 1..k
      BY <1>1, <2>2
    <3> QED
      BY <1>7, <1>9, <2>2, <3>1
  <2> QED
    BY <2>1, <2>2
<1>13. Kept(s, J) = Append(Kept(s, I), s[n])
  BY <1>9, <1>11, <1>12
<1> QED
  BY <1>13 DEF J

-----------------------------------------------------------------------------
(* The event stream.                                                          *)
LineTask == [op : {"join", "leave"}, id : Clients] \cup [op : {"cast"}, id : Nat]

(* The line l of the lock, when the clients are as in st and k broadcasts     *)
(* were asked for: everybody stands in it once.                               *)
LineOK(l, st, k) ==
  /\ l \in Seq(LineTask)
  /\ \A i, j \in 1..Len(l) : l[i] = l[j] => i = j
  /\ \A i \in 1..Len(l) :
       /\ l[i].op = "join" => st[l[i].id] = "joining"
       /\ l[i].op = "leave" => st[l[i].id] = "leaving"
       /\ l[i].op = "cast" => l[i].id <= k

(* No broadcast in line was made, but the one under way.                      *)
ToCome(l, a, h) ==
  \A i \in 1..Len(l) : l[i].op = "cast" /\ (i > 1 \/ a = 0) =>
    \A j \in 1..Len(h) : h[j] # l[i].id

(* A broadcast at place a of the list s is the first of the line l and the    *)
(* last of the history h.                                                     *)
UnderWay(l, a, h, s) ==
  a > 0 => /\ l # <<>> /\ l[1].op = "cast"
           /\ h # <<>> /\ h[Len(h)] = l[1].id
           /\ a <= Len(s) + 1

HistoryOK(h, k) ==
  /\ h \in Seq(Nat)
  /\ \A i \in 1..Len(h) : h[i] <= k
  /\ \A i, j \in 1..Len(h) : h[i] = h[j] => i = j

ListOK(s, st, jn, h, a) ==
  /\ s \in Seq(Clients)
  /\ \A i, j \in 1..Len(s) : s[i] = s[j] => i = j
  /\ \A i \in 1..Len(s) :
       /\ st[s[i]] \in {"reading", "leaving"}
       /\ jn[s[i]] <= Len(h)
       /\ a > 0 => jn[s[i]] < Len(h)

(* What was missed was broadcast before.                                      *)
MissedOK(m, l, a, h) ==
  \A c \in Clients, n \in Nat : <<c, n>> \in m =>
    /\ \E i \in 1..Len(h) : h[i] = n
    /\ ~(a > 0 /\ l[1].id = n)

ClientStates == {"new", "joining", "reading", "leaving", "gone"}

StreamTyped ==
  /\ state \in [Clients -> ClientStates]
  /\ queue \in [Clients -> Seq(Nat)] /\ taken \in [Clients -> Seq(Nat)]
  /\ joined \in [Clients -> Nat]
  /\ cast \in Nat /\ at \in Nat
  /\ \A c \in Clients : state[c] \in {"new", "joining"} => queue[c] = <<>> /\ taken[c] = <<>>

(* The positions in the history of what c was to get.                         *)
Due(c) == {i \in (joined[c] + 1)..Len(history) :
             ~Stream!Ahead(c, history[i]) /\ <<c, history[i]>> \notin missed}

Gets(c) == taken[c] \o queue[c] = Kept(history, Due(c))

Subscribed(c) == \E i \in 1..Len(subscribers) : subscribers[i] = c

StreamInv ==
  /\ StreamTyped
  /\ LineOK(line, state, cast)
  /\ ToCome(line, at, history)
  /\ UnderWay(line, at, history, subscribers)
  /\ HistoryOK(history, cast)
  /\ ListOK(subscribers, state, joined, history, at)
  /\ MissedOK(missed, line, at, history)
  /\ \A c \in Clients : Subscribed(c) => Gets(c)

-----------------------------------------------------------------------------
(* The line.                                                                  *)
LEMMA LineFacts ==
  ASSUME NEW l, NEW st, NEW k, LineOK(l, st, k)
  PROVE  /\ l \in Seq(LineTask) /\ Len(l) \in Nat /\ DOMAIN l = 1..Len(l)
         /\ \A i \in 1..Len(l) : l[i] \in LineTask
         /\ l # <<>> => /\ Len(l) > 0 /\ 1 \in 1..Len(l) /\ Head(l) = l[1]
                        /\ Tail(l) \in Seq(LineTask) /\ Len(Tail(l)) = Len(l) - 1
                        /\ \A i \in 1..(Len(l) - 1) : Tail(l)[i] = l[i + 1]
BY DEF LineOK

LEMMA LineShrinks ==
  ASSUME NEW l, NEW st, NEW k, LineOK(l, st, k),
         NEW m \in Seq(LineTask), NEW f \in [1..Len(m) -> 1..Len(l)],
         \A i \in 1..Len(m) : m[i] = l[f[i]],
         \A i, j \in 1..Len(m) : f[i] = f[j] => i = j
  PROVE  LineOK(m, st, k)
<1>1. \A i, j \in 1..Len(m) : m[i] = m[j] => i = j
  BY DEF LineOK
<1>2. \A i \in 1..Len(m) :
        /\ m[i].op = "join" => st[m[i].id] = "joining"
        /\ m[i].op = "leave" => st[m[i].id] = "leaving"
        /\ m[i].op = "cast" => m[i].id <= k
  BY DEF LineOK
<1> QED
  BY <1>1, <1>2 DEF LineOK

LEMMA LineServed ==
  ASSUME NEW l, NEW st, NEW k, LineOK(l, st, k), l # <<>>
  PROVE  LineOK(Tail(l), st, k)
<1> DEFINE m == Tail(l)
           f == [i \in 1..Len(m) |-> i + 1]
<1>1. /\ m \in Seq(LineTask) /\ Len(m) = Len(l) - 1 /\ Len(l) \in Nat
      /\ \A i \in 1..(Len(l) - 1) : m[i] = l[i + 1]
  BY LineFacts
<1> HIDE DEF m
<1>2. f \in [1..Len(m) -> 1..Len(l)]
  BY <1>1
<1>3. \A i \in 1..Len(m) : m[i] = l[f[i]]
  BY <1>1
<1>4. \A i, j \in 1..Len(m) : f[i] = f[j] => i = j
  BY <1>1
<1>5. m \in Seq(LineTask)
  BY <1>1
<1> HIDE DEF f
<1>6. LineOK(m, st, k)
  BY <1>2, <1>3, <1>4, <1>5, LineShrinks
<1> QED
  BY <1>6 DEF m

LEMMA LineKept ==
  ASSUME NEW l, NEW st, NEW k, LineOK(l, st, k), NEW I, I \subseteq 1..Len(l)
  PROVE  LineOK(Kept(l, I), st, k)
<1>1. l \in Seq(LineTask)
  BY DEF LineOK
<1>2. Kept(l, I) \in Seq(LineTask) /\ \E f : KeptFrom(l, I, f)
  BY <1>1, KeptIsSeq
<1> DEFINE m == Kept(l, I)
<1>3. PICK f : KeptFrom(l, I, f)
  BY <1>2
<1>4. /\ m \in Seq(LineTask) /\ f \in [1..Len(m) -> I] /\ Len(m) \in Nat
      /\ \A i \in 1..Len(m) : m[i] = l[f[i]]
      /\ \A i, j \in 1..Len(m) : i < j => f[i] < f[j]
  BY <1>2, <1>3 DEF KeptFrom
<1> HIDE DEF m
<1>5. f \in [1..Len(m) -> 1..Len(l)]
  BY <1>4
<1>6. \A i, j \in 1..Len(m) : f[i] = f[j] => i = j
  <2> SUFFICES ASSUME NEW i \in 1..Len(m), NEW j \in 1..Len(m), f[i] = f[j], i # j
               PROVE  FALSE
    OBVIOUS
  <2>1. Len(l) \in Nat /\ f[i] \in Nat /\ f[j] \in Nat
    BY <1>1, <1>5
  <2>2. i < j \/ j < i
    BY <1>4
  <2> QED
    BY <1>4, <2>1, <2>2
<1>7. LineOK(m, st, k)
  BY <1>4, <1>5, <1>6, LineShrinks
<1> QED
  BY <1>7 DEF m

LEMMA LineGrows ==
  ASSUME NEW l, NEW st, NEW k, LineOK(l, st, k), NEW t \in LineTask,
         t.op = "join" => st[t.id] = "joining",
         t.op = "leave" => st[t.id] = "leaving",
         t.op = "cast" => t.id <= k,
         \A i \in 1..Len(l) : l[i] # t
  PROVE  LineOK(Append(l, t), st, k)
<1> DEFINE m == Append(l, t)
           n == Len(l)
<1>1. l \in Seq(LineTask)
  BY DEF LineOK
<1>2. /\ m \in Seq(LineTask) /\ Len(m) = n + 1 /\ n \in Nat /\ m[n + 1] = t
      /\ \A i \in 1..n : m[i] = l[i]
  BY <1>1
<1> HIDE DEF m, n
<1>3. /\ \A i, j \in 1..n : l[i] = l[j] => i = j
      /\ \A i \in 1..n : l[i] # t
      /\ \A i \in 1..n : /\ l[i].op = "join" => st[l[i].id] = "joining"
                         /\ l[i].op = "leave" => st[l[i].id] = "leaving"
                         /\ l[i].op = "cast" => l[i].id <= k
  BY DEF LineOK, n
<1>4. \A i \in 1..(n + 1) : i \in 1..n \/ i = n + 1
  BY <1>2
<1>5. \A i, j \in 1..(n + 1) : m[i] = m[j] => i = j
  BY <1>2, <1>3, <1>4
<1>6. \A i \in 1..(n + 1) : /\ m[i].op = "join" => st[m[i].id] = "joining"
                            /\ m[i].op = "leave" => st[m[i].id] = "leaving"
                            /\ m[i].op = "cast" => m[i].id <= k
  BY <1>2, <1>3, <1>4
<1>7. LineOK(m, st, k)
  BY <1>2, <1>5, <1>6 DEF LineOK
<1> QED
  BY <1>7 DEF m

(* Clients that go on, and were not those of the line's tasks, change nothing. *)
LEMMA LineOfOthers ==
  ASSUME NEW l, NEW st, NEW k, LineOK(l, st, k), NEW st2, NEW k2,
         k \in Nat, k2 \in Nat, k <= k2,
         \A i \in 1..Len(l) : l[i].op \in {"join", "leave"} => st2[l[i].id] = st[l[i].id]
  PROVE  LineOK(l, st2, k2)
<1>1. \A i \in 1..Len(l) : l[i] \in LineTask
  BY LineFacts
<1>2. ASSUME NEW i \in 1..Len(l), l[i].op = "cast" PROVE l[i].id <= k2
  <2>1. l[i].id \in Nat /\ l[i].id <= k
    BY <1>1, <1>2 DEF LineTask, LineOK
  <2> QED
    BY <2>1
<1>3. \A i \in 1..Len(l) : /\ l[i].op = "join" => st2[l[i].id] = "joining"
                           /\ l[i].op = "leave" => st2[l[i].id] = "leaving"
  BY DEF LineOK
<1> QED
  BY <1>2, <1>3 DEF LineOK

LEMMA ToComeServed ==
  ASSUME NEW l, NEW st, NEW k, LineOK(l, st, k), l # <<>>, NEW a, NEW h, ToCome(l, a, h)
  PROVE  ToCome(Tail(l), 0, h)
<1>1. /\ Len(l) \in Nat /\ Len(Tail(l)) = Len(l) - 1
      /\ \A i \in 1..(Len(l) - 1) : Tail(l)[i] = l[i + 1]
  BY LineFacts
<1>2. ASSUME NEW i \in 1..Len(Tail(l)), Tail(l)[i].op = "cast", NEW j \in 1..Len(h)
      PROVE  h[j] # Tail(l)[i].id
  <2>1. i + 1 \in 1..Len(l) /\ i + 1 > 1 /\ Tail(l)[i] = l[i + 1]
    BY <1>1
  <2> QED
    BY <1>2, <2>1 DEF ToCome
<1> QED
  BY <1>2 DEF ToCome

(* The places of the line kept: the first one is kept first.                  *)
LEMMA KeptFirst ==
  ASSUME NEW S, NEW l \in Seq(S), NEW I, I \subseteq 1..Len(l), 1 \in I
  PROVE  Kept(l, I) # <<>> /\ Kept(l, I)[1] = l[1]
<1> DEFINE m == Kept(l, I)
<1>1. PICK f : KeptFrom(l, I, f)
  BY KeptIsSeq
<1>2. Len(m) \in Nat /\ m \in Seq(S) /\ f \in [1..Len(m) -> I] /\ \A i \in I : i \in Nat /\ i >= 1
  <2>1. m \in Seq(S)
    BY KeptIsSeq
  <2>2. f \in [1..Len(m) -> I]
    BY <1>1 DEF KeptFrom
  <2> HIDE DEF m
  <2>3. Len(m) \in Nat /\ \A i \in I : i \in Nat /\ i >= 1
    BY <2>1
  <2> QED
    BY <2>1, <2>2, <2>3
<1>3. /\ \A a \in 1..Len(m) : m[a] = l[f[a]]
      /\ \A a, b \in 1..Len(m) : a < b => f[a] < f[b]
      /\ \A i \in I : \E a \in 1..Len(m) : f[a] = i
  BY <1>1 DEF KeptFrom
<1> HIDE DEF m
<1>4. PICK a \in 1..Len(m) : f[a] = 1
  BY <1>3
<1>5. 1 \in 1..Len(m)
  BY <1>2, <1>4
<1>6. f[1] \in Nat /\ f[1] >= 1
  BY <1>2, <1>5
<1>7. a = 1
  BY <1>3, <1>4, <1>5, <1>6
<1>8. m # <<>> /\ m[1] = l[1]
  BY <1>2, <1>3, <1>4, <1>5, <1>7
<1> QED
  BY <1>8 DEF m

LEMMA ToComeKept ==
  ASSUME NEW l \in Seq(LineTask), NEW a, NEW h, ToCome(l, a, h),
         NEW I, I \subseteq 1..Len(l), NEW b,
         b = 0 => a = 0 \/ 1 \notin I
  PROVE  ToCome(Kept(l, I), b, h)
<1> DEFINE m == Kept(l, I)
<1>1. PICK f : KeptFrom(l, I, f)
  BY KeptIsSeq
<1>2. Len(m) \in Nat /\ f \in [1..Len(m) -> I] /\ \A i \in I : i \in 1..Len(l) /\ i \in Nat /\ i >= 1
  BY <1>1, KeptIsSeq DEF KeptFrom
<1>3. /\ \A i \in 1..Len(m) : m[i] = l[f[i]]
      /\ \A i, j \in 1..Len(m) : i < j => f[i] < f[j]
  BY <1>1 DEF KeptFrom
<1> HIDE DEF m
<1>4. ASSUME NEW i \in 1..Len(m), m[i].op = "cast", i > 1 \/ b = 0, NEW j \in 1..Len(h)
      PROVE  h[j] # m[i].id
  <2>1. f[i] \in I /\ f[i] \in 1..Len(l) /\ f[i] \in Nat /\ f[i] >= 1 /\ m[i] = l[f[i]]
    BY <1>2, <1>3
  <2>2. i > 1 => f[i] > 1
    <3>1. i > 1 => 1 \in 1..Len(m) /\ i \in Nat
      BY <1>2
    <3>2. i > 1 => f[1] \in Nat /\ f[1] >= 1 /\ f[1] < f[i]
      BY <1>2, <1>3, <3>1
    <3> QED
      BY <2>1, <3>2
  <2>3. f[i] > 1 \/ a = 0
    BY <1>4, <2>1, <2>2
  <2> QED
    BY <1>4, <2>1, <2>3 DEF ToCome
<1>5. ToCome(m, b, h)
  BY <1>4 DEF ToCome
<1> QED
  BY <1>5 DEF m

-----------------------------------------------------------------------------
(* The steps.                                                                 *)
LEMMA GetsStill ==
  ASSUME NEW c, Gets(c), taken'[c] \o queue'[c] = taken[c] \o queue[c],
         history' = history, joined'[c] = joined[c],
         \A n : (~Stream!Ahead(c, n) /\ <<c, n>> \notin missed)
                  <=> (~Stream!Ahead(c, n) /\ <<c, n>> \notin missed)'
  PROVE  Gets(c)'
<1>1. Due(c)' = Due(c)
  BY DEF Due
<1> QED
  BY <1>1 DEF Gets

(* A broadcast under way reaches the same as before.                          *)
LEMMA AheadStill ==
  ASSUME NEW c, at' = at, subscribers' = subscribers, at > 0 => Head(line') = Head(line), NEW n
  PROVE  (Stream!Ahead(c, n))' <=> Stream!Ahead(c, n)
BY DEF Stream!Ahead

LEMMA NobodyAhead ==
  ASSUME at = 0, NEW c, NEW n
  PROVE  ~Stream!Ahead(c, n)
BY DEF Stream!Ahead

LEMMA InitStream ==
  ASSUME Stream!Init
  PROVE  StreamInv
<1> USE DEF Stream!Init
<1>1. StreamTyped
  BY DEF StreamTyped, ClientStates
<1>2. line \in Seq(LineTask) /\ Len(line) = 0 /\ Len(history) = 0 /\ Len(subscribers) = 0
  OBVIOUS
<1>3. 1..0 = {}
  OBVIOUS
<1>4. history \in Seq(Nat) /\ subscribers \in Seq(Clients)
  OBVIOUS
<1> QED
  BY <1>1, <1>2, <1>3, <1>4
     DEF StreamInv, LineOK, ToCome, UnderWay, HistoryOK, ListOK, MissedOK, Subscribed

OfClient(t) == t.op \in {"join", "leave"}

(* Who enters the line stands behind the others.                              *)
LEMMA BehindOthers ==
  ASSUME NEW t, StreamInv, line' = Append(line, t), at' = at
  PROVE  /\ at > 0 => Head(line') = Head(line)
         /\ Len(line') = Len(line) + 1 /\ line'[Len(line) + 1] = t /\ Len(line) \in Nat
         /\ \A i \in 1..Len(line) : line'[i] = line[i]
         /\ UnderWay(line, at, history, subscribers)
         /\ UnderWay(line', at, history, subscribers)
         /\ MissedOK(missed, line', at, history)
<1>1. line \in Seq(LineTask) /\ at \in Nat
  BY DEF StreamInv, LineOK, StreamTyped
<1>2. /\ Len(line') = Len(line) + 1 /\ line'[Len(line) + 1] = t /\ Len(line) \in Nat
      /\ \A i \in 1..Len(line) : line'[i] = line[i]
  BY <1>1
<1>3. UnderWay(line, at, history, subscribers)
  BY DEF StreamInv
<1>4. at > 0 => line # <<>> /\ line' # <<>> /\ line'[1] = line[1]
  BY <1>1, <1>2, <1>3 DEF UnderWay
<1>5. at > 0 => Head(line') = Head(line)
  BY <1>1, <1>4
<1>6. UnderWay(line', at, history, subscribers)
  BY <1>3, <1>4 DEF UnderWay
<1>7. MissedOK(missed, line', at, history)
  BY <1>4 DEF StreamInv, MissedOK
<1> QED
  BY <1>2, <1>3, <1>5, <1>6, <1>7

LEMMA ToComeGrows ==
  ASSUME StreamInv, NEW t, line' = Append(line, t), at' = at,
         t.op = "cast" => \A j \in 1..Len(history) : history[j] # t.id
  PROVE  ToCome(line', at, history)
<1>1. /\ Len(line') = Len(line) + 1 /\ line'[Len(line) + 1] = t /\ Len(line) \in Nat
      /\ \A i \in 1..Len(line) : line'[i] = line[i]
  BY BehindOthers
<1>2. ToCome(line, at, history)
  BY DEF StreamInv
<1>3. \A i \in 1..Len(line') : i \in 1..Len(line) \/ i = Len(line) + 1
  BY <1>1
<1> QED
  BY <1>1, <1>2, <1>3 DEF ToCome

LEMMA ListStill ==
  ASSUME NEW s, NEW st, NEW jn, NEW h, NEW a, ListOK(s, st, jn, h, a), NEW st2,
         \A i \in 1..Len(s) : st2[s[i]] \in {"reading", "leaving"}
  PROVE  ListOK(s, st2, jn, h, a)
BY DEF ListOK

LEMMA StreamEnters ==
  ASSUME StreamInv, NEW t, line' = Append(line, t),
         UNCHANGED <<at, subscribers, queue, history, joined, taken, missed>>,
         StreamTyped', LineOK(line', state', cast'), HistoryOK(history, cast'),
         ListOK(subscribers, state', joined, history, at),
         t.op = "cast" => \A j \in 1..Len(history) : history[j] # t.id
  PROVE  StreamInv'
<1>1. UnderWay(line', at, history, subscribers) /\ MissedOK(missed, line', at, history)
      /\ (at > 0 => Head(line') = Head(line))
  BY BehindOthers
<1>2. ToCome(line', at, history)
  BY ToComeGrows
<1>3. \A d \in Clients : Subscribed(d)' => Gets(d)'
  <2> SUFFICES ASSUME NEW d \in Clients, Subscribed(d)' PROVE Gets(d)'
    OBVIOUS
  <2>1. Gets(d)
    BY DEF StreamInv, Subscribed
  <2>2. \A n : Stream!Ahead(d, n)' <=> Stream!Ahead(d, n)
    BY <1>1, AheadStill
  <2> QED
    BY <2>1, <2>2, GetsStill
<1> QED
  BY <1>1, <1>2, <1>3 DEF StreamInv

LEMMA StreamAsks ==
  ASSUME StreamInv, Stream!SseEvents
  PROVE  StreamInv'
<1>1. PICK c \in Clients :
        /\ state[c] = "new" /\ state' = [state EXCEPT ![c] = "joining"]
        /\ line' = Append(line, Stream!Task("join", c))
        /\ UNCHANGED <<at, subscribers, queue, cast, stopped, history, joined, taken, missed>>
  BY DEF Stream!SseEvents
<1> DEFINE t == [op |-> "join", id |-> c]
<1>2. line' = Append(line, t) /\ t \in LineTask /\ t.op = "join" /\ t.id = c
  BY <1>1 DEF Stream!Task, LineTask
<1>3. /\ StreamTyped /\ LineOK(line, state, cast) /\ ListOK(subscribers, state, joined, history, at)
      /\ HistoryOK(history, cast)
  BY DEF StreamInv
<1> HIDE DEF t
<1>4. StreamTyped'
  BY <1>1, <1>3 DEF StreamTyped, ClientStates
<1>5. LineOK(line', state', cast)
  <2>1. \A i \in 1..Len(line) : OfClient(line[i]) => line[i].id # c
    BY <1>1, <1>3 DEF LineOK, OfClient
  <2>2. \A i \in 1..Len(line) : line[i] \in LineTask
    BY <1>3, LineFacts
  <2>3. \A i \in 1..Len(line) :
          line[i].op \in {"join", "leave"} => state'[line[i].id] = state[line[i].id]
    BY <1>1, <1>3, <2>1, <2>2 DEF OfClient, LineTask, StreamTyped
  <2>4. cast \in Nat /\ cast <= cast
    BY <1>3 DEF StreamTyped
  <2>5. LineOK(line, state', cast)
    BY <1>3, <2>3, <2>4, LineOfOthers
  <2>6. \A i \in 1..Len(line) : line[i] # t
    BY <1>2, <2>1 DEF OfClient
  <2>7. state'[c] = "joining"
    BY <1>1, <1>3 DEF StreamTyped
  <2> QED
    BY <1>2, <2>5, <2>6, <2>7, LineGrows
<1>6. ListOK(subscribers, state', joined, history, at)
  <2>1. \A i \in 1..Len(subscribers) : subscribers[i] # c /\ subscribers[i] \in Clients
    BY <1>1, <1>3 DEF ListOK
  <2>2. \A i \in 1..Len(subscribers) : state'[subscribers[i]] = state[subscribers[i]]
    BY <1>1, <1>3, <2>1 DEF StreamTyped
  <2>3. \A i \in 1..Len(subscribers) : state'[subscribers[i]] \in {"reading", "leaving"}
    BY <1>3, <2>2 DEF ListOK
  <2> QED
    BY <1>3, <2>3, ListStill
<1> QED
  BY <1>1, <1>2, <1>3, <1>4, <1>5, <1>6, StreamEnters

LEMMA StreamDisconnects ==
  ASSUME StreamInv, Stream!Disconnects
  PROVE  StreamInv'
<1>1. PICK c \in Clients :
        /\ state[c] = "reading" /\ state' = [state EXCEPT ![c] = "leaving"]
        /\ line' = Append(line, Stream!Task("leave", c))
        /\ UNCHANGED <<at, subscribers, queue, cast, stopped, history, joined, taken, missed>>
  BY DEF Stream!Disconnects
<1> DEFINE t == [op |-> "leave", id |-> c]
<1>2. line' = Append(line, t) /\ t \in LineTask /\ t.op = "leave" /\ t.id = c
  BY <1>1 DEF Stream!Task, LineTask
<1>3. /\ StreamTyped /\ LineOK(line, state, cast) /\ ListOK(subscribers, state, joined, history, at)
      /\ HistoryOK(history, cast)
  BY DEF StreamInv
<1> HIDE DEF t
<1>4. StreamTyped'
  BY <1>1, <1>3 DEF StreamTyped, ClientStates
<1>5. LineOK(line', state', cast)
  <2>1. \A i \in 1..Len(line) : OfClient(line[i]) => line[i].id # c
    BY <1>1, <1>3 DEF LineOK, OfClient
  <2>2. \A i \in 1..Len(line) : line[i] \in LineTask
    BY <1>3, LineFacts
  <2>3. \A i \in 1..Len(line) :
          line[i].op \in {"join", "leave"} => state'[line[i].id] = state[line[i].id]
    BY <1>1, <1>3, <2>1, <2>2 DEF OfClient, LineTask, StreamTyped
  <2>4. cast \in Nat /\ cast <= cast
    BY <1>3 DEF StreamTyped
  <2>5. LineOK(line, state', cast)
    BY <1>3, <2>3, <2>4, LineOfOthers
  <2>6. \A i \in 1..Len(line) : line[i] # t
    BY <1>2, <2>1 DEF OfClient
  <2>7. state'[c] = "leaving"
    BY <1>1, <1>3 DEF StreamTyped
  <2> QED
    BY <1>2, <2>5, <2>6, <2>7, LineGrows
<1>6. ListOK(subscribers, state', joined, history, at)
  <2>1. \A i \in 1..Len(subscribers) :
          subscribers[i] \in Clients /\ state[subscribers[i]] \in {"reading", "leaving"}
    BY <1>3 DEF ListOK
  <2>2. \A i \in 1..Len(subscribers) : state'[subscribers[i]] \in {"reading", "leaving"}
    BY <1>1, <1>3, <2>1 DEF StreamTyped
  <2> QED
    BY <1>3, <2>2, ListStill
<1> QED
  BY <1>1, <1>2, <1>3, <1>4, <1>5, <1>6, StreamEnters

LEMMA HistoryStill ==
  ASSUME NEW h, NEW k \in Nat, HistoryOK(h, k)
  PROVE  HistoryOK(h, k + 1) /\ \A j \in 1..Len(h) : h[j] # k + 1
<1>1. \A i \in 1..Len(h) : h[i] \in Nat /\ h[i] <= k
  BY DEF HistoryOK
<1>2. \A i \in 1..Len(h) : h[i] <= k + 1 /\ h[i] # k + 1
  BY <1>1
<1> QED
  BY <1>2 DEF HistoryOK

LEMMA StreamCasts ==
  ASSUME StreamInv, Stream!Broadcast
  PROVE  StreamInv'
<1> DEFINE t == [op |-> "cast", id |-> cast + 1]
<1>1. /\ StreamTyped /\ LineOK(line, state, cast) /\ ListOK(subscribers, state, joined, history, at)
      /\ HistoryOK(history, cast) /\ cast \in Nat
  BY DEF StreamInv, StreamTyped
<1>2. /\ line' = Append(line, t) /\ cast' = cast + 1
      /\ UNCHANGED <<at, subscribers, state, queue, stopped, history, joined, taken, missed>>
  BY DEF Stream!Broadcast, Stream!Task
<1>3. t \in LineTask /\ t.op = "cast" /\ t.id = cast + 1
  BY <1>1 DEF LineTask
<1> HIDE DEF t
<1>4. StreamTyped'
  BY <1>1, <1>2 DEF StreamTyped
<1>5. LineOK(line', state', cast')
  <2>1. LineOK(line, state, cast + 1)
    <3>1. cast + 1 \in Nat /\ cast <= cast + 1
      BY <1>1
    <3> QED
      BY <1>1, <3>1, LineOfOthers
  <2>2. \A i \in 1..Len(line) : line[i] \in LineTask
    BY <1>1, LineFacts
  <2>3. ASSUME NEW i \in 1..Len(line) PROVE line[i] # t
    <3>1. line[i].op = "cast" => line[i].id \in Nat /\ line[i].id <= cast
      BY <1>1, <2>2 DEF LineOK, LineTask
    <3>2. ~(cast + 1 <= cast)
      BY <1>1
    <3> QED
      BY <1>3, <3>1, <3>2
  <2>4. t.id <= cast + 1 /\ t.op # "join" /\ t.op # "leave"
    BY <1>1, <1>3
  <2>5. LineOK(Append(line, t), state, cast + 1)
    BY <1>3, <2>1, <2>3, <2>4, LineGrows
  <2> QED
    BY <1>2, <2>5
<1>6. HistoryOK(history, cast') /\ \A j \in 1..Len(history) : history[j] # t.id
  BY <1>1, <1>2, <1>3, HistoryStill
<1> QED
  BY <1>1, <1>2, <1>4, <1>5, <1>6, StreamEnters

LEMMA StreamSkips ==
  ASSUME StreamInv, Stream!SkippedCast
  PROVE  StreamInv'
<1>1. /\ StreamTyped /\ LineOK(line, state, cast) /\ HistoryOK(history, cast) /\ cast \in Nat
  BY DEF StreamInv, StreamTyped
<1>2. /\ cast' = cast + 1
      /\ UNCHANGED <<line, at, subscribers, state, queue, stopped, history, joined, taken, missed>>
  BY DEF Stream!SkippedCast
<1>3. StreamTyped'
  BY <1>1, <1>2 DEF StreamTyped
<1>4. LineOK(line, state, cast + 1)
  <2>1. cast + 1 \in Nat /\ cast <= cast + 1
    BY <1>1
  <2> QED
    BY <1>1, <2>1, LineOfOthers
<1>5. HistoryOK(history, cast + 1)
  BY <1>1, HistoryStill
<1>6. \A d \in Clients : Subscribed(d)' => Gets(d)'
  <2> SUFFICES ASSUME NEW d \in Clients, Subscribed(d)' PROVE Gets(d)'
    OBVIOUS
  <2>1. Gets(d)
    BY <1>2 DEF StreamInv, Subscribed
  <2>2. \A n : Stream!Ahead(d, n)' <=> Stream!Ahead(d, n)
    BY <1>2, AheadStill
  <2> QED
    BY <1>2, <2>1, <2>2, GetsStill
<1> QED
  BY <1>2, <1>3, <1>4, <1>5, <1>6 DEF StreamInv

-----------------------------------------------------------------------------
(* Who holds the lock goes on.                                                *)
LEMMA TasksAlike ==
  ASSUME NEW t \in LineTask, NEW u \in LineTask, t.op = u.op, t.id = u.id
  PROVE  t = u
BY DEF LineTask

LEMMA FirstInLine ==
  ASSUME StreamInv, line # <<>>
  PROVE  /\ Head(line) = line[1] /\ line[1] \in LineTask /\ 1 \in 1..Len(line)
         /\ line \in Seq(LineTask) /\ Len(line) \in Nat
         /\ Tail(line) \in Seq(LineTask) /\ Len(Tail(line)) = Len(line) - 1
         /\ \A i \in 1..(Len(line) - 1) : Tail(line)[i] = line[i + 1]
         /\ LineOK(Tail(line), state, cast)
         /\ ToCome(Tail(line), 0, history)
<1>1. LineOK(line, state, cast) /\ ToCome(line, at, history)
  BY DEF StreamInv
<1>2. /\ line \in Seq(LineTask) /\ Len(line) \in Nat
      /\ \A i \in 1..Len(line) : line[i] \in LineTask
      /\ 1 \in 1..Len(line) /\ Head(line) = line[1]
      /\ Tail(line) \in Seq(LineTask) /\ Len(Tail(line)) = Len(line) - 1
      /\ \A i \in 1..(Len(line) - 1) : Tail(line)[i] = line[i + 1]
  BY <1>1, LineFacts
<1>3. LineOK(Tail(line), state, cast)
  BY <1>1, LineServed
<1>4. ToCome(Tail(line), 0, history)
  BY <1>1, ToComeServed
<1> QED
  BY <1>2, <1>3, <1>4

(* The rest of the line does not depend on the client of the first task.      *)
LEMMA RestOfLine ==
  ASSUME StreamInv, line # <<>>, line[1].op \in {"join", "leave"},
         NEW v, state' = [state EXCEPT ![line[1].id] = v]
  PROVE  LineOK(Tail(line), state', cast)
<1> DEFINE m == Tail(line)
<1>1. /\ line[1] \in LineTask /\ 1 \in 1..Len(line) /\ Len(line) \in Nat
      /\ m \in Seq(LineTask) /\ Len(m) = Len(line) - 1
      /\ \A i \in 1..(Len(line) - 1) : m[i] = line[i + 1]
      /\ LineOK(m, state, cast)
  BY FirstInLine
<1>2. LineOK(line, state, cast) /\ StreamTyped /\ cast \in Nat
  BY DEF StreamInv, StreamTyped
<1> HIDE DEF m
<1>3. \A i \in 1..Len(m) : m[i] \in LineTask
  BY <1>1
<1>4. ASSUME NEW i \in 1..Len(m), m[i].op \in {"join", "leave"}
      PROVE  state'[m[i].id] = state[m[i].id]
  <2>1. i + 1 \in 1..Len(line) /\ m[i] = line[i + 1] /\ i + 1 # 1
    BY <1>1
  <2>2. m[i] # line[1]
    BY <1>1, <1>2, <2>1 DEF LineOK
  <2>3. m[i].op # line[1].op \/ m[i].id # line[1].id
    BY <1>1, <1>3, <2>2, TasksAlike
  <2>4. m[i].op # line[1].op => m[i].id # line[1].id
    BY <1>1, <1>2, <1>4, <2>1 DEF LineOK
  <2>5. m[i].id \in Clients /\ line[1].id \in Clients
    BY <1>1, <1>3, <1>4 DEF LineTask
  <2> QED
    BY <1>2, <2>3, <2>4, <2>5 DEF StreamTyped
<1>5. cast <= cast
  BY <1>2
<1>6. LineOK(m, state', cast)
  BY <1>1, <1>2, <1>4, <1>5, LineOfOthers
<1> QED
  BY <1>6 DEF m

LEMMA KeptNone ==
  ASSUME NEW s
  PROVE  Kept(s, {}) = <<>>
<1>1. Cardinality({}) = 0
  BY FS_EmptySet
<1>2. Kept(s, {}) = [a \in 1..0 |-> s[Manieth({}, a)]]
  BY <1>1, KeptIs
<1> QED
  BY <1>2

LEMMA StreamJoins ==
  ASSUME StreamInv, Stream!Joins
  PROVE  StreamInv'
<1> DEFINE c == line[1].id
<1>1. line # <<>> /\ Head(line).op = "join" /\ line' = Tail(line)
      /\ UNCHANGED <<at, queue, cast, stopped, history, taken, missed>>
  BY DEF Stream!Joins, Stream!Holds
<1>2. /\ Head(line) = line[1] /\ line[1] \in LineTask /\ 1 \in 1..Len(line)
      /\ LineOK(Tail(line), state, cast) /\ ToCome(Tail(line), 0, history)
  BY <1>1, FirstInLine
<1>3. /\ subscribers' = Append(subscribers, c)
      /\ state' = [state EXCEPT ![c] = "reading"]
      /\ joined' = [joined EXCEPT ![c] = Len(history)]
  BY <1>2 DEF Stream!Joins
<1>4. /\ StreamTyped /\ LineOK(line, state, cast) /\ ListOK(subscribers, state, joined, history, at)
      /\ HistoryOK(history, cast) /\ UnderWay(line, at, history, subscribers)
      /\ MissedOK(missed, line, at, history)
  BY DEF StreamInv
<1>5. at = 0
  BY <1>1, <1>2, <1>4 DEF UnderWay, StreamTyped
<1>6. c \in Clients /\ state[c] = "joining"
  BY <1>1, <1>2, <1>4 DEF LineTask, LineOK
<1>7. LineOK(line', state', cast')
  <2>1. line[1].op \in {"join", "leave"}
    BY <1>1, <1>2
  <2> QED
    BY <1>1, <1>3, <2>1, RestOfLine
<1> HIDE DEF c
<1>8. Len(history) \in Nat /\ Len(subscribers) \in Nat /\ subscribers \in Seq(Clients)
  BY <1>4 DEF HistoryOK, ListOK
<1>9. StreamTyped'
  BY <1>1, <1>3, <1>4, <1>6, <1>8 DEF StreamTyped, ClientStates
<1>10. ToCome(line', at', history')
  BY <1>1, <1>2, <1>5
<1>11. UnderWay(line', at', history', subscribers')
  BY <1>1, <1>5 DEF UnderWay
<1>12. MissedOK(missed', line', at', history')
  BY <1>1, <1>4, <1>5 DEF MissedOK
<1>13. /\ Len(subscribers') = Len(subscribers) + 1 /\ subscribers' \in Seq(Clients)
       /\ subscribers'[Len(subscribers) + 1] = c
       /\ \A i \in 1..Len(subscribers) : subscribers'[i] = subscribers[i]
  BY <1>3, <1>6, <1>8
<1>14. \A i \in 1..Len(subscribers') : i \in 1..Len(subscribers) \/ i = Len(subscribers) + 1
  BY <1>8, <1>13
<1>15. \A i \in 1..Len(subscribers) : subscribers[i] # c /\ subscribers[i] \in Clients
  BY <1>4, <1>6 DEF ListOK
<1>16. ListOK(subscribers', state', joined', history', at')
  <2>1. \A i, j \in 1..Len(subscribers') : subscribers'[i] = subscribers'[j] => i = j
    BY <1>4, <1>13, <1>14, <1>15 DEF ListOK
  <2>2. \A d \in Clients : d # c => state'[d] = state[d] /\ joined'[d] = joined[d]
    BY <1>3, <1>4 DEF StreamTyped
  <2>3. state'[c] = "reading" /\ joined'[c] = Len(history)
    BY <1>3, <1>4, <1>6 DEF StreamTyped
  <2>4. \A i \in 1..Len(subscribers) :
          state[subscribers[i]] \in {"reading", "leaving"} /\ joined[subscribers[i]] <= Len(history)
    BY <1>4 DEF ListOK
  <2>5. \A i \in 1..Len(subscribers') :
          /\ state'[subscribers'[i]] \in {"reading", "leaving"}
          /\ joined'[subscribers'[i]] <= Len(history)
    BY <1>8, <1>13, <1>14, <1>15, <2>2, <2>3, <2>4
  <2>6. at' = 0 /\ history' = history
    BY <1>1, <1>5
  <2> QED
    BY <1>13, <2>1, <2>5, <2>6 DEF ListOK
<1>17. \A d \in Clients : Subscribed(d)' => Gets(d)'
  <2> SUFFICES ASSUME NEW d \in Clients, Subscribed(d)' PROVE Gets(d)'
    OBVIOUS
  <2>1. CASE d = c
    <3>1. joined'[d] = Len(history) /\ history' = history
      BY <1>1, <1>3, <1>4, <1>6, <2>1 DEF StreamTyped
    <3>2. Due(d)' = {}
      BY <1>8, <3>1 DEF Due
    <3>3. queue'[d] = <<>> /\ taken'[d] = <<>>
      BY <1>1, <1>4, <1>6, <2>1 DEF StreamTyped
    <3>4. taken'[d] \o queue'[d] = <<>>
      BY <3>3
    <3>5. Kept(history', Due(d)') = <<>>
      BY <3>2, KeptNone
    <3> QED
      BY <3>4, <3>5 DEF Gets
  <2>2. CASE d # c
    <3>1. Subscribed(d)
      BY <1>13, <1>14, <2>2 DEF Subscribed
    <3>2. Gets(d)
      BY <3>1 DEF StreamInv
    <3>3. joined'[d] = joined[d]
      BY <1>3, <1>4, <2>2 DEF StreamTyped
    <3>4. \A n : ~Stream!Ahead(d, n) /\ ~Stream!Ahead(d, n)'
      BY <1>1, <1>5 DEF Stream!Ahead
    <3> QED
      BY <1>1, <3>2, <3>3, <3>4, GetsStill
  <2> QED
    BY <2>1, <2>2
<1> QED
  BY <1>1, <1>4, <1>7, <1>9, <1>10, <1>11, <1>12, <1>16, <1>17 DEF StreamInv

LEMMA StreamStarts ==
  ASSUME StreamInv, Stream!Starts
  PROVE  StreamInv'
<1> DEFINE id == line[1].id
           n == Len(history)
<1>1. /\ line # <<>> /\ Head(line).op = "cast" /\ at = 0 /\ at' = 1
      /\ history' = Append(history, Head(line).id)
      /\ UNCHANGED <<line, subscribers, state, queue, cast, stopped, joined, taken, missed>>
  BY DEF Stream!Starts, Stream!Holds
<1>2. /\ Head(line) = line[1] /\ line[1] \in LineTask /\ 1 \in 1..Len(line)
      /\ line \in Seq(LineTask) /\ Len(line) \in Nat
  BY <1>1, FirstInLine
<1>3. /\ StreamTyped /\ LineOK(line, state, cast) /\ ListOK(subscribers, state, joined, history, at)
      /\ HistoryOK(history, cast) /\ ToCome(line, at, history)
      /\ MissedOK(missed, line, at, history)
  BY DEF StreamInv
<1>4. id \in Nat /\ id <= cast
  BY <1>1, <1>2, <1>3 DEF LineTask, LineOK
<1>5. \A j \in 1..n : history[j] # id
  BY <1>1, <1>2, <1>3 DEF ToCome
<1>6. history \in Seq(Nat) /\ n \in Nat
  BY <1>3 DEF HistoryOK
<1> HIDE DEF id
<1>7. /\ history' \in Seq(Nat) /\ Len(history') = n + 1 /\ history'[n + 1] = id
      /\ \A i \in 1..n : history'[i] = history[i]
  BY <1>1, <1>2, <1>4, <1>6 DEF id
<1> HIDE DEF n
<1>8. \A i \in 1..(n + 1) : i \in 1..n \/ i = n + 1
  BY <1>6
<1>9. HistoryOK(history', cast')
  <2>1. /\ \A i \in 1..n : history[i] <= cast
        /\ \A i, j \in 1..n : history[i] = history[j] => i = j
    BY <1>3 DEF HistoryOK, n
  <2>2. \A i \in 1..(n + 1) : history'[i] <= cast
    BY <1>4, <1>7, <1>8, <2>1
  <2>3. \A i, j \in 1..(n + 1) : history'[i] = history'[j] => i = j
    BY <1>5, <1>7, <1>8, <2>1
  <2> QED
    BY <1>1, <1>7, <2>2, <2>3 DEF HistoryOK
<1>10. ToCome(line', at', history')
  <2> SUFFICES ASSUME NEW i \in 1..Len(line), line[i].op = "cast", i > 1, NEW j \in 1..(n + 1)
               PROVE  history'[j] # line[i].id
    BY <1>1, <1>7 DEF ToCome
  <2>1. CASE j = n + 1
    <3>1. line[i] \in LineTask /\ line[1].op = "cast" /\ i # 1
      BY <1>1, <1>2
    <3>2. line[i] # line[1]
      BY <1>2, <1>3, <3>1 DEF LineOK
    <3>3. line[i].id # line[1].id
      BY <1>2, <3>1, <3>2, TasksAlike
    <3> QED
      BY <1>7, <2>1, <3>3 DEF id
  <2>2. CASE j # n + 1
    <3>1. j \in 1..n /\ history'[j] = history[j]
      BY <1>7, <1>8, <2>2
    <3>2. history[j] # line[i].id
      BY <1>3, <3>1 DEF ToCome, n
    <3> QED
      BY <3>1, <3>2
  <2> QED
    BY <2>1, <2>2
<1>11. Len(subscribers) \in Nat
  BY <1>3 DEF ListOK
<1>12. UnderWay(line', at', history', subscribers')
  <2>1. 1 <= Len(subscribers) + 1 /\ history' # <<>> /\ Len(history') = n + 1
    BY <1>6, <1>7, <1>11
  <2> QED
    BY <1>1, <1>2, <1>7, <2>1 DEF UnderWay, id
<1>13. ListOK(subscribers', state', joined', history', at')
  <2>1. \A i \in 1..Len(subscribers) :
          /\ joined[subscribers[i]] \in Nat /\ joined[subscribers[i]] <= n
          /\ state[subscribers[i]] \in {"reading", "leaving"}
    BY <1>3 DEF ListOK, StreamTyped, n
  <2>2. \A i \in 1..Len(subscribers) :
          joined[subscribers[i]] <= n + 1 /\ joined[subscribers[i]] < n + 1
    BY <1>6, <2>1
  <2> QED
    BY <1>1, <1>3, <1>7, <2>1, <2>2 DEF ListOK
<1>14. MissedOK(missed', line', at', history')
  <2> SUFFICES ASSUME NEW d \in Clients, NEW k \in Nat, <<d, k>> \in missed
               PROVE  /\ \E i \in 1..(n + 1) : history'[i] = k
                      /\ id # k
    BY <1>1, <1>7 DEF MissedOK, id
  <2>1. PICK i \in 1..n : history[i] = k
    BY <1>3 DEF MissedOK, n
  <2>2. i \in 1..(n + 1)
    BY <1>6
  <2> QED
    BY <1>5, <1>7, <2>1, <2>2 DEF n
<1>15. StreamTyped'
  BY <1>1, <1>3 DEF StreamTyped
<1>16. \A d \in Clients : Subscribed(d)' => Gets(d)'
  <2> SUFFICES ASSUME NEW d \in Clients, Subscribed(d) PROVE Gets(d)'
    BY <1>1 DEF Subscribed
  <2>1. Gets(d) /\ joined[d] \in Nat
    BY <1>3 DEF StreamInv, StreamTyped
  <2>2. \A k : ~Stream!Ahead(d, k)
    BY <1>1, NobodyAhead
  <2>3. PICK p \in 1..Len(subscribers) : subscribers[p] = d
    BY DEF Subscribed
  <2>4. \A k : Stream!Ahead(d, k)' <=> k = id
    BY <1>1, <1>2, <2>3 DEF Stream!Ahead, id
  <2>5. Due(d) = {i \in (joined[d] + 1)..n : <<d, history[i]>> \notin missed}
    BY <2>2 DEF Due, n
  <2>6. Due(d)' = {i \in (joined[d] + 1)..(n + 1) : history'[i] # id /\ <<d, history'[i]>> \notin missed}
    BY <1>1, <1>7, <2>4 DEF Due
  <2>7. \A i \in (joined[d] + 1)..(n + 1) :
          \/ i = n + 1
          \/ i \in 1..n /\ i \in (joined[d] + 1)..n
    BY <1>6, <2>1
  <2>8. \A i \in (joined[d] + 1)..n : i \in (joined[d] + 1)..(n + 1) /\ i \in 1..n
    BY <1>6, <2>1
  <2>9. Due(d)' = Due(d)
    BY <1>5, <1>7, <2>5, <2>6, <2>7, <2>8 DEF n
  <2>10. Due(d) \subseteq 1..n
    BY <2>5, <2>8
  <2>11. Kept(history', Due(d)) = Kept(history, Due(d))
    BY <1>6, <1>7, <2>10, KeptOfPrefix DEF n
  <2> QED
    BY <1>1, <2>1, <2>9, <2>11 DEF Gets
<1> QED
  BY <1>1, <1>3, <1>9, <1>10, <1>12, <1>13, <1>14, <1>15, <1>16 DEF StreamInv

LEMMA AppendBehind ==
  ASSUME NEW S, NEW s \in Seq(S), NEW t \in Seq(S), NEW e \in S
  PROVE  s \o Append(t, e) = Append(s \o t, e)
<1> DEFINE l == s \o Append(t, e)
           r == Append(s \o t, e)
           n == Len(s) + Len(t) + 1
<1>1. l \in Seq(S) /\ Len(l) = n /\ r \in Seq(S) /\ Len(r) = n /\ n \in Nat
  <2>1. Append(t, e) \in Seq(S) /\ Len(Append(t, e)) = Len(t) + 1
    OBVIOUS
  <2>2. s \o t \in Seq(S) /\ Len(s \o t) = Len(s) + Len(t)
    OBVIOUS
  <2> QED
    BY <2>1, <2>2
<1>2. ASSUME NEW i \in 1..n PROVE l[i] = r[i]
  <2>1. CASE i <= Len(s)
    BY <2>1
  <2>2. CASE i = n
    BY <2>2
  <2>3. CASE ~(i <= Len(s)) /\ i # n
    BY <2>3
  <2> QED
    BY <2>1, <2>2, <2>3
<1> HIDE DEF l, r, n
<1>3. l = [i \in 1..n |-> l[i]] /\ r = [i \in 1..n |-> r[i]]
  BY <1>1
<1>4. l = r
  BY <1>2, <1>3
<1> QED
  BY <1>4 DEF l, r

LEMMA StreamPuts ==
  ASSUME StreamInv, Stream!Puts
  PROVE  StreamInv'
<1> DEFINE id == line[1].id
           c == subscribers[at]
           n == Len(history)
<1>1. /\ line # <<>> /\ Head(line).op = "cast" /\ at \in 1..Len(subscribers) /\ at' = at + 1
      /\ queue' = [queue EXCEPT ![c] = Append(queue[c], Head(line).id)]
      /\ UNCHANGED <<line, subscribers, state, cast, stopped, history, joined, taken, missed>>
  BY DEF Stream!Puts, Stream!Holds
<1>2. Head(line) = line[1] /\ line[1] \in LineTask /\ 1 \in 1..Len(line)
  BY <1>1, FirstInLine
<1>3. /\ StreamTyped /\ LineOK(line, state, cast) /\ ListOK(subscribers, state, joined, history, at)
      /\ HistoryOK(history, cast) /\ ToCome(line, at, history)
      /\ MissedOK(missed, line, at, history) /\ UnderWay(line, at, history, subscribers)
  BY DEF StreamInv
<1>4. id \in Nat /\ at \in Nat /\ at > 0 /\ Len(subscribers) \in Nat
  <2>1. id \in Nat
    BY <1>1, <1>2 DEF LineTask
  <2>2. at \in Nat
    BY <1>3 DEF StreamTyped
  <2>3. subscribers \in Seq(Clients)
    BY <1>3 DEF ListOK
  <2>4. at > 0 /\ Len(subscribers) \in Nat
    BY <1>1, <2>2, <2>3
  <2> QED
    BY <2>1, <2>2, <2>4
<1>5. c \in Clients
  BY <1>1, <1>3 DEF ListOK
<1>6. /\ history \in Seq(Nat) /\ n \in Nat /\ n \in 1..n /\ history[n] = id
      /\ \A i, j \in 1..n : history[i] = history[j] => i = j
  <2>1. history \in Seq(Nat) /\ history # <<>> /\ history[n] = id
    BY <1>3, <1>4 DEF HistoryOK, UnderWay
  <2>2. n \in Nat /\ n \in 1..n
    BY <2>1
  <2> QED
    BY <1>3, <2>1, <2>2 DEF HistoryOK
<1>7. queue' = [queue EXCEPT ![c] = Append(queue[c], id)]
  BY <1>1, <1>2
<1> HIDE DEF id, c, n
<1>8. StreamTyped'
  <2>1. state[c] \in {"reading", "leaving"}
    BY <1>1, <1>3 DEF ListOK, c
  <2>2. queue[c] \in Seq(Nat)
    BY <1>3, <1>5 DEF StreamTyped
  <2>3. Append(queue[c], id) \in Seq(Nat)
    BY <1>4, <2>2
  <2>4. queue' \in [Clients -> Seq(Nat)]
    BY <1>3, <1>7, <2>3 DEF StreamTyped
  <2>5. \A d \in Clients : state[d] \in {"new", "joining"} => queue'[d] = <<>>
    BY <1>3, <1>7, <2>1 DEF StreamTyped
  <2> QED
    BY <1>1, <1>3, <1>4, <2>4, <2>5 DEF StreamTyped
<1>9. at' > 0 /\ at' # 0 /\ at # 0 /\ at' <= Len(subscribers) + 1 /\ at' \in Nat
  BY <1>1, <1>4
<1>10. ToCome(line', at', history')
  BY <1>1, <1>3, <1>9 DEF ToCome
<1>11. UnderWay(line', at', history', subscribers')
  BY <1>1, <1>3, <1>4, <1>9 DEF UnderWay
<1>12. ListOK(subscribers', state', joined', history', at')
  BY <1>1, <1>3, <1>4, <1>9 DEF ListOK
<1>13. MissedOK(missed', line', at', history')
  BY <1>1, <1>3, <1>4, <1>9 DEF MissedOK
<1>14. \A i, j \in 1..Len(subscribers) : subscribers[i] = subscribers[j] => i = j
  BY <1>3 DEF ListOK
<1>15. \A i : i \in at..Len(subscribers) <=> i = at \/ i \in at'..Len(subscribers)
  BY <1>1, <1>4
<1>16. \A d \in Clients : Subscribed(d)' => Gets(d)'
  <2> SUFFICES ASSUME NEW d \in Clients, Subscribed(d) PROVE Gets(d)'
    BY <1>1 DEF Subscribed
  <2>1. Gets(d) /\ joined[d] \in Nat /\ queue[d] \in Seq(Nat) /\ taken[d] \in Seq(Nat)
    BY <1>3 DEF StreamInv, StreamTyped
  <2>2. CASE d # c
    <3>1. queue'[d] = queue[d]
      BY <1>3, <1>7, <2>2 DEF StreamTyped
    <3>2. (\E i \in at..Len(subscribers) : subscribers[i] = d)
             <=> (\E i \in at'..Len(subscribers) : subscribers[i] = d)
      BY <1>15, <2>2 DEF c
    <3>3. \A k : Stream!Ahead(d, k)' <=> Stream!Ahead(d, k)
      BY <1>1, <1>4, <1>9, <3>2 DEF Stream!Ahead
    <3> QED
      BY <1>1, <2>1, <3>1, <3>3, GetsStill
  <2>3. CASE d = c
    <3>1. \A k : Stream!Ahead(d, k) <=> k = id
      <4>1. \E i \in at..Len(subscribers) : subscribers[i] = d
        BY <1>15, <2>3 DEF c
      <4> QED
        BY <1>2, <1>4, <4>1 DEF Stream!Ahead, id
    <3>2. \A k : ~Stream!Ahead(d, k)'
      <4>1. \A i \in at'..Len(subscribers) : i \in 1..Len(subscribers) /\ i # at
        BY <1>1, <1>4
      <4>2. \A i \in at'..Len(subscribers) : subscribers[i] # d
        BY <1>1, <1>14, <2>3, <4>1 DEF c
      <4> QED
        BY <1>1, <4>2 DEF Stream!Ahead
    <3>3. joined[d] < n
      BY <1>1, <1>3, <1>4, <2>3 DEF ListOK, c, n
    <3>4. <<d, id>> \notin missed
      BY <1>3, <1>4 DEF MissedOK, id
    <3>5. Due(d) = {i \in (joined[d] + 1)..n : history[i] # id /\ <<d, history[i]>> \notin missed}
      BY <3>1 DEF Due, n
    <3>6. Due(d)' = {i \in (joined[d] + 1)..n : <<d, history[i]>> \notin missed}
      BY <1>1, <3>2 DEF Due, n
    <3>7. n \in (joined[d] + 1)..n /\ \A i \in (joined[d] + 1)..n : i \in 1..n
      BY <1>6, <2>1, <3>3
    <3>8. \A i \in (joined[d] + 1)..n : history[i] = id <=> i = n
      BY <1>6, <3>7
    <3>9. Due(d)' = Due(d) \cup {n}
      BY <1>6, <3>4, <3>5, <3>6, <3>7, <3>8
    <3>10. Due(d) \subseteq 1..n /\ \A i \in Due(d) : i < n
      BY <1>6, <3>5, <3>7, <3>8
    <3>11. Kept(history, Due(d) \cup {n}) = Append(Kept(history, Due(d)), id)
      BY <1>6, <3>10, KeptOneMore DEF n
    <3>12. taken[d] \o queue[d] = Kept(history, Due(d))
      BY <2>1 DEF Gets
    <3>13. queue'[d] = Append(queue[d], id) /\ taken'[d] = taken[d]
      BY <1>1, <1>3, <1>7, <2>3 DEF StreamTyped
    <3>14. taken[d] \o Append(queue[d], id) = Append(taken[d] \o queue[d], id)
      <4>1. id \in Nat /\ queue[d] \in Seq(Nat) /\ taken[d] \in Seq(Nat)
        BY <1>4, <2>1
      <4>2. \A s, t \in Seq(Nat) : \A e \in Nat : s \o Append(t, e) = Append(s \o t, e)
        BY AppendBehind
      <4> QED
        BY <4>1, <4>2, Zenon
    <3>15. taken'[d] \o queue'[d] = Kept(history', Due(d)')
      BY <1>1, <3>9, <3>11, <3>12, <3>13, <3>14
    <3> QED
      BY <3>15 DEF Gets
  <2> QED
    BY <2>2, <2>3
<1> QED
  BY <1>1, <1>3, <1>8, <1>10, <1>11, <1>12, <1>13, <1>16 DEF StreamInv

LEMMA StreamFinishes ==
  ASSUME StreamInv, Stream!Finishes
  PROVE  StreamInv'
<1>1. /\ line # <<>> /\ Head(line).op = "cast" /\ at > Len(subscribers) /\ at' = 0
      /\ line' = Tail(line)
      /\ UNCHANGED <<subscribers, state, queue, cast, stopped, history, joined, taken, missed>>
  BY DEF Stream!Finishes, Stream!Holds
<1>2. LineOK(Tail(line), state, cast) /\ ToCome(Tail(line), 0, history)
  BY <1>1, FirstInLine
<1>3. /\ StreamTyped /\ ListOK(subscribers, state, joined, history, at)
      /\ HistoryOK(history, cast) /\ MissedOK(missed, line, at, history)
      /\ at \in Nat /\ Len(subscribers) \in Nat
  BY DEF StreamInv, StreamTyped, ListOK
<1>4. StreamTyped'
  BY <1>1, <1>3 DEF StreamTyped
<1>5. UnderWay(line', at', history', subscribers') /\ MissedOK(missed', line', at', history')
  BY <1>1, <1>3 DEF UnderWay, MissedOK
<1>6. ListOK(subscribers', state', joined', history', at')
  BY <1>1, <1>3 DEF ListOK
<1>7. \A d \in Clients : Subscribed(d)' => Gets(d)'
  <2> SUFFICES ASSUME NEW d \in Clients, Subscribed(d) PROVE Gets(d)'
    BY <1>1 DEF Subscribed
  <2>1. Gets(d)
    BY DEF StreamInv
  <2>2. at..Len(subscribers) = {}
    BY <1>1, <1>3
  <2>3. \A n : ~Stream!Ahead(d, n) /\ ~Stream!Ahead(d, n)'
    BY <1>1, <2>2 DEF Stream!Ahead
  <2> QED
    BY <1>1, <2>1, <2>3, GetsStill
<1> QED
  BY <1>1, <1>2, <1>3, <1>4, <1>5, <1>6, <1>7 DEF StreamInv

LEMMA StreamReads ==
  ASSUME StreamInv, NEW c \in Clients, Stream!Reads(c)
  PROVE  StreamInv'
<1>1. /\ state[c] = "reading" /\ queue[c] # <<>>
      /\ queue' = [queue EXCEPT ![c] = Tail(queue[c])]
      /\ taken' = [taken EXCEPT ![c] = Append(taken[c], Head(queue[c]))]
      /\ UNCHANGED <<line, at, subscribers, state, cast, stopped, history, joined, missed>>
  BY DEF Stream!Reads
<1>2. StreamTyped /\ queue[c] \in Seq(Nat) /\ taken[c] \in Seq(Nat)
  BY DEF StreamInv, StreamTyped
<1>3. /\ Tail(queue[c]) \in Seq(Nat) /\ Append(taken[c], Head(queue[c])) \in Seq(Nat)
      /\ Append(taken[c], Head(queue[c])) \o Tail(queue[c]) = taken[c] \o queue[c]
  <2> DEFINE q == queue[c]
             t == taken[c]
  <2>1. q \in Seq(Nat) /\ t \in Seq(Nat) /\ q # <<>>
    BY <1>1, <1>2
  <2> HIDE DEF q, t
  <2>2. Head(q) \in Nat /\ Tail(q) \in Seq(Nat)
    BY <2>1
  <2>3. Append(t, Head(q)) \in Seq(Nat)
    BY <2>1, <2>2
  <2>4. Append(t, Head(q)) \o Tail(q) = t \o q
    BY <2>1
  <2> QED
    BY <2>2, <2>3, <2>4 DEF q, t
<1>4. StreamTyped'
  <2>1. queue' \in [Clients -> Seq(Nat)] /\ taken' \in [Clients -> Seq(Nat)]
    BY <1>1, <1>2, <1>3 DEF StreamTyped
  <2>2. \A d \in Clients : state[d] \in {"new", "joining"} => queue'[d] = <<>> /\ taken'[d] = <<>>
    BY <1>1, <1>2 DEF StreamTyped
  <2> QED
    BY <1>1, <1>2, <2>1, <2>2 DEF StreamTyped
<1>5. \A d \in Clients : Subscribed(d)' => Gets(d)'
  <2> SUFFICES ASSUME NEW d \in Clients, Subscribed(d) PROVE Gets(d)'
    BY <1>1 DEF Subscribed
  <2>1. Gets(d)
    BY DEF StreamInv
  <2>2. taken'[d] \o queue'[d] = taken[d] \o queue[d]
    BY <1>1, <1>2, <1>3 DEF StreamTyped
  <2>3. \A n : Stream!Ahead(d, n)' <=> Stream!Ahead(d, n)
    BY <1>1, AheadStill
  <2> QED
    BY <1>1, <2>1, <2>2, <2>3, GetsStill
<1> QED
  BY <1>1, <1>4, <1>5 DEF StreamInv

LEMMA KeptOfStream ==
  ASSUME NEW s, NEW I
  PROVE  Stream!Kept(s, I) = Kept(s, I)
BY DEF Stream!Kept, Kept, Stream!Cardinality, Cardinality

LEMMA StreamLeaves ==
  ASSUME StreamInv, Stream!Leaves
  PROVE  StreamInv'
<1> DEFINE c == line[1].id
           I == {i \in DOMAIN subscribers : subscribers[i] # c}
           s == Kept(subscribers, I)
<1>1. /\ line # <<>> /\ Head(line).op = "leave" /\ line' = Tail(line)
      /\ UNCHANGED <<at, queue, cast, stopped, history, joined, taken, missed>>
  BY DEF Stream!Leaves, Stream!Holds
<1>2. /\ Head(line) = line[1] /\ line[1] \in LineTask /\ 1 \in 1..Len(line)
      /\ LineOK(Tail(line), state, cast) /\ ToCome(Tail(line), 0, history)
  BY <1>1, FirstInLine
<1>3. subscribers' = s /\ state' = [state EXCEPT ![c] = "gone"]
  BY <1>2, KeptOfStream DEF Stream!Leaves
<1>4. /\ StreamTyped /\ LineOK(line, state, cast) /\ ListOK(subscribers, state, joined, history, at)
      /\ HistoryOK(history, cast) /\ UnderWay(line, at, history, subscribers)
      /\ MissedOK(missed, line, at, history)
  BY DEF StreamInv
<1>5. at = 0
  BY <1>1, <1>2, <1>4 DEF UnderWay, StreamTyped
<1>6. c \in Clients /\ state[c] = "leaving"
  BY <1>1, <1>2, <1>4 DEF LineTask, LineOK
<1>7. LineOK(line', state', cast')
  <2>1. line[1].op \in {"join", "leave"}
    BY <1>1, <1>2
  <2> QED
    BY <1>1, <1>3, <2>1, RestOfLine
<1> HIDE DEF c
<1>8. subscribers \in Seq(Clients) /\ DOMAIN subscribers = 1..Len(subscribers)
  BY <1>4 DEF ListOK
<1>9. I \subseteq 1..Len(subscribers) /\ \A i \in I : subscribers[i] # c
  BY <1>8
<1> HIDE DEF I
<1>10. StreamTyped'
  BY <1>1, <1>3, <1>4, <1>6 DEF StreamTyped, ClientStates
<1>11. ToCome(line', at', history')
  BY <1>1, <1>2, <1>5
<1>12. UnderWay(line', at', history', subscribers')
  BY <1>1, <1>5 DEF UnderWay
<1>13. MissedOK(missed', line', at', history')
  BY <1>1, <1>4, <1>5 DEF MissedOK
<1>14. s \in Seq(Clients) /\ \E f : KeptFrom(subscribers, I, f)
  BY <1>8, <1>9, KeptIsSeq
<1>15. PICK f : KeptFrom(subscribers, I, f)
  BY <1>14
<1>16. /\ f \in [1..Len(s) -> I] /\ \A i \in 1..Len(s) : s[i] = subscribers[f[i]]
       /\ \A i, j \in 1..Len(s) : i < j => f[i] < f[j]
  BY <1>15 DEF KeptFrom
<1> HIDE DEF s
<1>17. \A i \in 1..Len(s) :
         /\ f[i] \in 1..Len(subscribers) /\ subscribers[f[i]] # c /\ subscribers[f[i]] \in Clients
         /\ s[i] = subscribers[f[i]]
  <2>1. \A p \in 1..Len(subscribers) : subscribers[p] \in Clients
    BY <1>8
  <2>2. \A i \in 1..Len(s) : f[i] \in I
    BY <1>16
  <2> QED
    BY <1>9, <1>16, <2>1, <2>2
<1>18. ListOK(subscribers', state', joined', history', at')
  <2>1. \A i, j \in 1..Len(s) : s[i] = s[j] => i = j
    <3> SUFFICES ASSUME NEW i \in 1..Len(s), NEW j \in 1..Len(s), s[i] = s[j], i # j
                 PROVE  FALSE
      OBVIOUS
    <3>1. f[i] = f[j]
      BY <1>4, <1>17 DEF ListOK
    <3>2. i < j \/ j < i
      BY <1>14
    <3>3. f[i] \in Nat /\ ~(f[i] < f[i])
      BY <1>17
    <3> QED
      BY <1>16, <3>1, <3>2, <3>3
  <2>2. \A i \in 1..Len(s) : state'[s[i]] \in {"reading", "leaving"} /\ joined[s[i]] <= Len(history)
    BY <1>3, <1>4, <1>17 DEF ListOK, StreamTyped
  <2>3. at' = 0 /\ history' = history /\ joined' = joined
    BY <1>1, <1>5
  <2> QED
    BY <1>3, <1>14, <2>1, <2>2, <2>3 DEF ListOK
<1>19. \A d \in Clients : Subscribed(d)' => Gets(d)'
  <2> SUFFICES ASSUME NEW d \in Clients, Subscribed(d)' PROVE Gets(d)'
    OBVIOUS
  <2>1. PICK i \in 1..Len(s) : s[i] = d
    BY <1>3 DEF Subscribed
  <2>2. Subscribed(d)
    BY <1>17, <2>1 DEF Subscribed
  <2>3. Gets(d)
    BY <2>2 DEF StreamInv
  <2>4. \A n : ~Stream!Ahead(d, n) /\ ~Stream!Ahead(d, n)'
    BY <1>1, <1>5 DEF Stream!Ahead
  <2> QED
    BY <1>1, <2>3, <2>4, GetsStill
<1> QED
  BY <1>1, <1>4, <1>7, <1>10, <1>11, <1>12, <1>13, <1>18, <1>19 DEF StreamInv

LEMMA StreamStops ==
  ASSUME StreamInv, Stream!StopBroadcaster
  PROVE  StreamInv'
<1> DEFINE I == DOMAIN line \ Stream!MetricsTask
           cut == 1 \in Stream!MetricsTask /\ at > 0
<1>1. /\ line' = Kept(line, I)
      /\ IF cut THEN /\ missed' = missed \cup
                          {<<subscribers[i], Head(line).id>> : i \in at..Len(subscribers)}
                      /\ at' = 0
                 ELSE missed' = missed /\ at' = at
      /\ UNCHANGED <<subscribers, state, queue, cast, history, joined, taken>>
  BY KeptOfStream DEF Stream!StopBroadcaster
<1>2. /\ StreamTyped /\ LineOK(line, state, cast) /\ ListOK(subscribers, state, joined, history, at)
      /\ HistoryOK(history, cast) /\ UnderWay(line, at, history, subscribers)
      /\ MissedOK(missed, line, at, history) /\ ToCome(line, at, history)
  BY DEF StreamInv
<1>3. line \in Seq(LineTask) /\ DOMAIN line = 1..Len(line) /\ at \in Nat
  BY <1>2 DEF LineOK, StreamTyped
<1>4. I \subseteq 1..Len(line) /\ (cut => 1 \notin I)
  BY <1>3
<1>5. at > 0 /\ ~cut => 1 \in I
  <2>1. at > 0 => line # <<>>
    BY <1>2 DEF UnderWay
  <2>2. at > 0 => 1 \in DOMAIN line
    BY <1>3, <2>1
  <2> QED
    BY <2>2
<1>6. at > 0 => Head(line) = line[1]
  BY <1>2, <1>3 DEF UnderWay
<1> HIDE DEF I, cut
<1>7. LineOK(line', state', cast')
  BY <1>1, <1>2, <1>4, LineKept
<1>8. at' \in Nat /\ (at' = 0 => at = 0 \/ 1 \notin I) /\ (at' > 0 => at' = at /\ ~cut)
  BY <1>1, <1>3, <1>4
<1>9. ToCome(line', at', history')
  BY <1>1, <1>2, <1>3, <1>4, <1>8, ToComeKept
<1>10. at' > 0 => line' # <<>> /\ line'[1] = line[1]
  BY <1>1, <1>3, <1>4, <1>5, <1>8, KeptFirst
<1>11. UnderWay(line', at', history', subscribers')
  BY <1>1, <1>2, <1>8, <1>10 DEF UnderWay
<1>12. StreamTyped'
  BY <1>1, <1>2, <1>8 DEF StreamTyped
<1>13. ListOK(subscribers', state', joined', history', at')
  BY <1>1, <1>2, <1>8 DEF ListOK
<1>14. cut => at > 0
  BY DEF cut
<1>15. MissedOK(missed', line', at', history')
  <2> SUFFICES ASSUME NEW d \in Clients, NEW k \in Nat, <<d, k>> \in missed'
               PROVE  /\ \E i \in 1..Len(history) : history[i] = k
                      /\ ~(at' > 0 /\ line'[1].id = k)
    BY <1>1 DEF MissedOK
  <2>1. CASE <<d, k>> \in missed
    BY <1>2, <1>8, <1>10, <2>1 DEF MissedOK
  <2>2. CASE <<d, k>> \notin missed
    <3>1. cut /\ k = Head(line).id /\ at' = 0
      BY <1>1, <2>2
    <3>2. k = line[1].id /\ history # <<>> /\ history[Len(history)] = line[1].id
      BY <1>2, <1>6, <1>14, <3>1 DEF UnderWay
    <3>3. Len(history) \in 1..Len(history)
      BY <1>2, <3>2 DEF HistoryOK
    <3> QED
      BY <3>1, <3>2, <3>3
  <2> QED
    BY <2>1, <2>2
<1>16. \A d \in Clients : Subscribed(d)' => Gets(d)'
  <2> SUFFICES ASSUME NEW d \in Clients, Subscribed(d) PROVE Gets(d)'
    BY <1>1 DEF Subscribed
  <2>1. Gets(d)
    BY DEF StreamInv
  <2>2. CASE cut
    <3>1. \A n : ~Stream!Ahead(d, n)'
      BY <1>1, <2>2 DEF Stream!Ahead
    <3>2. \A n : <<d, n>> \in missed' <=> <<d, n>> \in missed \/ Stream!Ahead(d, n)
      BY <1>1, <1>14, <2>2 DEF Stream!Ahead
    <3> QED
      BY <1>1, <2>1, <3>1, <3>2, GetsStill
  <2>3. CASE ~cut
    <3>1. at' = at /\ missed' = missed
      BY <1>1, <2>3
    <3>2. at > 0 => Head(line') = Head(line)
      <4>1. line' \in Seq(LineTask)
        BY <1>7 DEF LineOK
      <4> QED
        BY <1>6, <1>10, <3>1, <4>1
    <3>3. \A n : Stream!Ahead(d, n)' <=> Stream!Ahead(d, n)
      BY <1>1, <3>1, <3>2, AheadStill
    <3> QED
      BY <1>1, <2>1, <3>1, <3>3, GetsStill
  <2> QED
    BY <2>2, <2>3
<1> QED
  BY <1>1, <1>2, <1>7, <1>9, <1>11, <1>12, <1>13, <1>15, <1>16 DEF StreamInv

LEMMA StreamSteps ==
  ASSUME StreamInv, Stream!Next \/ UNCHANGED stream
  PROVE  StreamInv'
<1>1. CASE Stream!Next
  BY <1>1, StreamAsks, StreamCasts, StreamSkips, StreamJoins, StreamStarts, StreamPuts,
     StreamFinishes, StreamLeaves, StreamReads, StreamDisconnects, StreamStops
     DEF Stream!Next, Stream!Serve
<1>2. CASE UNCHANGED stream
  BY <1>2 DEF stream, StreamInv, StreamTyped, Subscribed, Gets, Due, Stream!Ahead
<1> QED
  BY <1>1, <1>2

(* EventStream: what a subscriber of the event stream took, and what waits in *)
(* its queue, is what was broadcast since it joined, in the one order of the  *)
(* lock, however many clients come and go and wherever the metrics broadcast  *)
(* is cancelled: only the broadcast under way has not reached everybody yet,  *)
(* and only the cancelled one never will.                                     *)
THEOREM OrderIsKept == ServicesSpec => []StreamKeepsOrder
<1>1. ServicesInit => StreamInv
  BY InitStream DEF ServicesInit
<1>2. StreamInv /\ [ServicesNext]_vars => StreamInv'
  BY OneServiceSteps, StreamSteps
<1>3. StreamInv => StreamKeepsOrder
  <2> SUFFICES ASSUME StreamInv, NEW c \in Stream!Range(subscribers)
               PROVE  taken[c] \o queue[c] = Stream!Kept(history, Due(c))
    BY DEF StreamKeepsOrder, Stream!StreamKeepsOrder, Due
  <2>1. subscribers \in Seq(Clients)
    BY DEF StreamInv, ListOK
  <2>2. c \in Clients /\ Subscribed(c)
    BY <2>1 DEF Stream!Range, Subscribed
  <2> QED
    BY <2>2, KeptOfStream DEF StreamInv, Gets
<1> QED
  BY <1>1, <1>2, <1>3, PTL DEF ServicesSpec

-----------------------------------------------------------------------------
(* The scanning and reporting side.  Every step of it is a step of one of its *)
(* services or leaves it alone.                                               *)
LEMMA OneDeskSteps ==
  ASSUME [DeskNext]_deskVars
  PROVE  /\ Intel!Next \/ UNCHANGED intel
         /\ Custody!CustodyNext \/ UNCHANGED custody
         /\ Custody!CourtNext \/ UNCHANGED court
         /\ Files!ScanNext \/ UNCHANGED files
         /\ Guard!Next \/ UNCHANGED guard
         /\ Scam!Next \/ UNCHANGED scam
  BY DEF DeskNext, deskVars

-----------------------------------------------------------------------------
(* Scans.  A file that was moved is not where it was, and no id is used for   *)
(* two files.                                                                 *)
TaskFields == {"phase", "kind", "todo", "current", "file", "verdicts", "entries",
               "scanned", "threats"}

Gone(e) == e.moved /\ e.file # 0

EntryHolds(e, d, b) ==
  /\ e.path \in Paths /\ e.file \in Nat /\ e.file <= b /\ e.moved \in BOOLEAN
  /\ Gone(e) => d[e.path] # e.file

TaskHolds(t, d, b) ==
  /\ DOMAIN t = TaskFields
  /\ t.todo \subseteq Paths /\ t.file \in Nat /\ t.file <= b
  /\ t.phase = "verdict" => t.current \in Paths
  /\ \A e \in t.entries : EntryHolds(e, d, b)

FilesInv ==
  /\ born \in Nat
  /\ disk \in [Paths -> Nat] /\ \A p \in Paths : disk[p] <= born
  /\ DOMAIN task = Scans /\ \A s \in Scans : TaskHolds(task[s], disk, born)

LEMMA FilesSteps ==
  ASSUME FilesInv, Files!ScanNext \/ UNCHANGED files
  PROVE  FilesInv'
<1> USE DEF Files!Absent
<1>0. /\ born \in Nat /\ disk \in [Paths -> Nat] /\ \A p \in Paths : disk[p] <= born
      /\ DOMAIN task = Scans /\ \A s \in Scans : TaskHolds(task[s], disk, born)
  BY DEF FilesInv
\* What is known of a task stays true as long as no file comes back.
<1>1. ASSUME NEW t, TaskHolds(t, disk, born), born' \in Nat, born <= born',
             \A p \in Paths : disk'[p] = disk[p] \/ disk'[p] = 0 \/ disk'[p] = born + 1
      PROVE  TaskHolds(t, disk', born')
  <2>1. ASSUME NEW e, EntryHolds(e, disk, born) PROVE EntryHolds(e, disk', born')
    <3>1. /\ e.path \in Paths /\ e.file \in Nat /\ e.file <= born /\ e.moved \in BOOLEAN
          /\ Gone(e) => disk[e.path] # e.file
      BY <2>1 DEF EntryHolds
    <3>2. e.file <= born' /\ e.file # born + 1
      BY <1>0, <1>1, <3>1
    <3>3. Gone(e) => e.file # 0
      BY DEF Gone
    <3>4. disk'[e.path] = disk[e.path] \/ disk'[e.path] = 0 \/ disk'[e.path] = born + 1
      BY <1>1, <3>1
    <3>5. Gone(e) => disk'[e.path] # e.file
      BY <3>1, <3>2, <3>3, <3>4
    <3> QED
      BY <3>1, <3>2, <3>5 DEF EntryHolds
  <2> QED
    BY <1>0, <1>1, <2>1 DEF TaskHolds
<1>2. CASE Files!FileAppears
  <2>1. /\ born' = born + 1 /\ task' = task
        /\ \E p \in Paths : disk' = [disk EXCEPT ![p] = born + 1]
    BY <1>2 DEF Files!FileAppears
  <2>2. disk' \in [Paths -> Nat] /\ \A p \in Paths : disk'[p] = disk[p] \/ disk'[p] = born + 1
    BY <1>0, <2>1
  <2>3. born' \in Nat /\ born <= born' /\ \A p \in Paths : disk'[p] <= born'
    BY <1>0, <2>1, <2>2
  <2> QED
    BY <1>0, <1>1, <2>1, <2>2, <2>3 DEF FilesInv
\* One task changes, and the directory loses files at most.
<1>3. ASSUME NEW s \in Scans, NEW t, task' = [task EXCEPT ![s] = t], TaskHolds(t, disk', born'),
             born' = born, disk' \in [Paths -> Nat],
             \A p \in Paths : disk'[p] = disk[p] \/ disk'[p] = 0
      PROVE  FilesInv'
  <2>1. \A p \in Paths : disk'[p] <= born'
    BY <1>0, <1>3
  <2>2. \A x \in Scans : TaskHolds(task[x], disk', born')
    BY <1>0, <1>1, <1>3
  <2>3. ASSUME NEW x \in Scans PROVE TaskHolds(task'[x], disk', born')
    BY <1>0, <1>3, <2>2
  <2> QED
    BY <1>0, <1>3, <2>1, <2>3 DEF FilesInv

\* No task changes, and the directory loses files at most.
<1>4. ASSUME UNCHANGED <<task, born>>, disk' \in [Paths -> Nat],
             \A p \in Paths : disk'[p] = disk[p] \/ disk'[p] = 0
      PROVE  FilesInv'
  <2>1. \A p \in Paths : disk'[p] <= born'
    BY <1>0, <1>4
  <2>2. \A x \in Scans : TaskHolds(task[x], disk', born')
    BY <1>0, <1>1, <1>4
  <2> QED
    BY <1>0, <1>4, <2>1, <2>2 DEF FilesInv
<1>5. CASE Files!StartDirectoryScan \/ Files!StartFileScan
  <2>1. PICK s \in Scans, todo \in SUBSET Paths, k \in {"directory", "file", "look"} :
          task' = [task EXCEPT ![s] = [Files!Idle EXCEPT !.phase = "walk", !.kind = k,
                                                         !.todo = todo]]
    <3>1. CASE Files!StartDirectoryScan
      <4>1. PICK s \in Scans :
              task' = [task EXCEPT ![s] =
                         [Files!Idle EXCEPT !.phase = "walk", !.kind = "directory",
                                            !.todo = {p \in Paths : disk[p] # 0}]]
        BY <3>1 DEF Files!StartDirectoryScan
      <4> QED
        BY <4>1
    <3>2. CASE Files!StartFileScan
      BY <3>2, ZenonT(30) DEF Files!StartFileScan
    <3> QED
      BY <1>5, <3>1, <3>2, ZenonT(30)
  <2> DEFINE t == [Files!Idle EXCEPT !.phase = "walk", !.kind = k, !.todo = todo]
  <2>2. TaskHolds(t, disk', born')
    <3>1. DOMAIN t = TaskFields /\ t.todo = todo /\ t.file = 0 /\ t.phase = "walk"
          /\ t.entries = {}
      BY DEF Files!Idle, TaskFields
    <3>2. born' = born
      BY <1>5, ZenonT(30) DEF Files!StartDirectoryScan, Files!StartFileScan
    <3> QED
      BY <1>0, <3>1, <3>2 DEF TaskHolds
  <2>3. UNCHANGED <<disk, born>>
    BY <1>5 DEF Files!StartDirectoryScan, Files!StartFileScan
  <2> HIDE DEF t
  <2>4. task' = [task EXCEPT ![s] = t]
    BY <2>1 DEF t
  <2> QED
    BY <1>0, <1>3, <2>2, <2>3, <2>4
<1>6. CASE Files!ScanMultiEngine
  <2>1. PICK s \in Scans : \E p \in task[s].todo, flagging \in SUBSET Engines :
          /\ task[s].phase = "walk"
          /\ task' = [task EXCEPT ![s].phase = "verdict", ![s].current = p,
                                  ![s].file = disk[p], ![s].verdicts = flagging,
                                  ![s].todo = @ \ {p}]
          /\ suspected' = IF flagging = {} THEN suspected ELSE suspected \cup {p}
          /\ \/ disk' = disk
             \/ /\ "microsoft_defender" \in flagging
                /\ disk' = [disk EXCEPT ![p] = Files!Absent]
          /\ UNCHANGED <<vault, born>>
    BY <1>6, Zenon DEF Files!ScanMultiEngine
  <2>2. PICK p \in task[s].todo, flagging \in SUBSET Engines :
          /\ task' = [task EXCEPT ![s].phase = "verdict", ![s].current = p,
                                  ![s].file = disk[p], ![s].verdicts = flagging,
                                  ![s].todo = @ \ {p}]
          /\ disk' = disk \/ disk' = [disk EXCEPT ![p] = 0]
          /\ UNCHANGED born
    BY <2>1
  <2> DEFINE t == task'[s]
  <2>3. TaskHolds(task[s], disk, born)
    BY <1>0
  <2>4. p \in Paths
    BY <2>3 DEF TaskHolds
  <2>5. /\ DOMAIN t = TaskFields /\ t.current = p /\ t.file = disk[p]
        /\ t.todo \subseteq Paths /\ t.entries = task[s].entries
        /\ task' = [task EXCEPT ![s] = t]
    BY <1>0, <2>2, <2>3, <2>4 DEF TaskHolds, TaskFields
  <2>6. disk' \in [Paths -> Nat] /\ \A q \in Paths : disk'[q] = disk[q] \/ disk'[q] = 0
    BY <1>0, <2>2, <2>4
  <2>7. TaskHolds(task[s], disk', born')
    BY <1>0, <1>1, <2>2, <2>3, <2>6
  <2>8. TaskHolds(t, disk', born')
    BY <1>0, <2>2, <2>4, <2>5, <2>7 DEF TaskHolds
  <2> HIDE DEF t
  <2> QED
    BY <1>3, <2>2, <2>5, <2>6, <2>8
<1>7. CASE Files!ActOnVerdicts
  <2>1. PICK s \in Scans, ok \in BOOLEAN : \E hits :
          /\ task[s].phase = "verdict"
          /\ Files!QuarantineFile(task[s].current, ok)
          /\ task' = [task EXCEPT ![s].phase = "walk",
               ![s].scanned = @ + 1, ![s].threats = @ + hits,
               ![s].entries = IF hits = 0 THEN @
                 ELSE @ \cup {[path |-> task[s].current, file |-> task[s].file,
                               moved |-> ok]}]
          /\ UNCHANGED born
    BY <1>7, ZenonT(30) DEF Files!ActOnVerdicts
  <2> PICK hits :
          /\ task[s].phase = "verdict"
          /\ Files!QuarantineFile(task[s].current, ok)
          /\ task' = [task EXCEPT ![s].phase = "walk",
               ![s].scanned = @ + 1, ![s].threats = @ + hits,
               ![s].entries = IF hits = 0 THEN @
                 ELSE @ \cup {[path |-> task[s].current, file |-> task[s].file,
                               moved |-> ok]}]
          /\ UNCHANGED born
    BY <2>1
  <2> DEFINE t == task'[s]
             p == task[s].current
             e == [path |-> p, file |-> task[s].file, moved |-> ok]
  <2>2. TaskHolds(task[s], disk, born) /\ p \in Paths
    BY <1>0, <2>1 DEF TaskHolds
  <2>3. disk' = IF ok THEN [disk EXCEPT ![p] = 0] ELSE disk
    BY <2>1 DEF Files!QuarantineFile
  <2>4. /\ disk' \in [Paths -> Nat] /\ \A q \in Paths : disk'[q] = disk[q] \/ disk'[q] = 0
        /\ ok => disk'[p] = 0
    BY <1>0, <2>2, <2>3
  <2>5. /\ DOMAIN t = TaskFields /\ t.phase = "walk" /\ t.file = task[s].file
        /\ t.todo = task[s].todo /\ t.entries \subseteq task[s].entries \cup {e}
        /\ task' = [task EXCEPT ![s] = t]
    BY <1>0, <2>1, <2>2, ZenonT(30) DEF TaskHolds, TaskFields
  <2>6. TaskHolds(task[s], disk', born')
    BY <1>0, <1>1, <2>1, <2>2, <2>4
  <2>7. EntryHolds(e, disk', born')
    BY <2>2, <2>4, <2>6 DEF EntryHolds, Gone, TaskHolds
  <2> HIDE DEF e
  <2>8. TaskHolds(t, disk', born')
    BY <2>5, <2>6, <2>7 DEF TaskHolds
  <2> HIDE DEF t
  <2> QED
    BY <1>3, <2>1, <2>4, <2>5, <2>8
<1>8. CASE Files!FinishScan
  <2>1. PICK s \in Scans : task' = [task EXCEPT ![s].phase = "done"] /\ UNCHANGED <<disk, born>>
    BY <1>8 DEF Files!FinishScan
  <2> DEFINE t == task'[s]
  <2>2. TaskHolds(task[s], disk, born)
    BY <1>0
  <2>3. /\ DOMAIN t = TaskFields /\ t.phase = "done" /\ t.file = task[s].file
        /\ t.todo = task[s].todo /\ t.entries = task[s].entries
        /\ task' = [task EXCEPT ![s] = t]
    BY <1>0, <2>1, <2>2 DEF TaskHolds, TaskFields
  <2>4. TaskHolds(t, disk', born')
    BY <2>1, <2>2, <2>3 DEF TaskHolds
  <2> HIDE DEF t
  <2> QED
    BY <1>0, <1>3, <2>1, <2>3, <2>4
<1>9. CASE Files!QuarantineRequest
  <2>1. PICK p \in Paths : disk' = [disk EXCEPT ![p] = 0] /\ UNCHANGED <<born, task>>
    BY <1>9 DEF Files!QuarantineRequest, Files!QuarantineFile
  <2> QED
    BY <1>0, <1>4, <2>1
<1>10. CASE UNCHANGED files
  BY <1>0, <1>4, <1>10 DEF files
<1> QED
  BY <1>2, <1>5, <1>6, <1>7, <1>8, <1>9, <1>10 DEF Files!ScanNext

-----------------------------------------------------------------------------
(* The detector.                                                              *)
Detection == [status : Guard!Similarity, data : Data,
              name : DOMAIN KnownLevels \cup Names \cup {"Unknown"},
              level : Guard!Levels \cup {"none"}]
Action == [type : {"eradicate", "patch"}, target : Data \cup {"none"}, success : BOOLEAN,
           isolated : BOOLEAN]

(* What the logs ds and as account for.                                       *)
Critical(ds) == {ds[i].data : i \in {k \in DOMAIN ds : ds[k].level = "critical"}}
Isolated(as) == {as[i].target : i \in {k \in DOMAIN as : as[k].isolated}}

GuardInv ==
  /\ DOMAIN signatures \subseteq DOMAIN KnownLevels \cup Names
  /\ \A n \in DOMAIN signatures : signatures[n] \in Guard!Levels
  /\ detections \in Seq(Detection) /\ actions \in Seq(Action)
  /\ quarantine = Critical(detections) \cup Isolated(actions)

LEMMA OneMoreDetection ==
  ASSUME NEW ds \in Seq(Detection), NEW r \in Detection
  PROVE  Critical(Append(ds, r)) = Critical(ds) \cup (IF r.level = "critical" THEN {r.data} ELSE {})
<1> DEFINE n == Len(ds)
           d2 == Append(ds, r)
<1>1. /\ DOMAIN ds = 1..n /\ DOMAIN d2 = 1..(n + 1) /\ n \in Nat /\ d2[n + 1] = r
      /\ \A i \in 1..n : d2[i] = ds[i]
  OBVIOUS
<1>2. \A i \in 1..(n + 1) : i \in 1..n \/ i = n + 1
  BY <1>1
<1>3. 1..n \subseteq 1..(n + 1) /\ n + 1 \in 1..(n + 1)
  BY <1>1
<1> HIDE DEF n, d2
<1> QED
  BY <1>1, <1>2, <1>3 DEF Critical, d2

LEMMA OneMoreAction ==
  ASSUME NEW as \in Seq(Action), NEW r \in Action
  PROVE  Isolated(Append(as, r)) = Isolated(as) \cup (IF r.isolated THEN {r.target} ELSE {})
<1> DEFINE n == Len(as)
           a2 == Append(as, r)
<1>1. /\ DOMAIN as = 1..n /\ DOMAIN a2 = 1..(n + 1) /\ n \in Nat /\ a2[n + 1] = r
      /\ \A i \in 1..n : a2[i] = as[i]
  OBVIOUS
<1>2. \A i \in 1..(n + 1) : i \in 1..n \/ i = n + 1
  BY <1>1
<1>3. 1..n \subseteq 1..(n + 1) /\ n + 1 \in 1..(n + 1)
  BY <1>1
<1> HIDE DEF n, a2
<1> QED
  BY <1>1, <1>2, <1>3 DEF Isolated, a2

LEMMA GuardSteps ==
  ASSUME GuardInv, Guard!Next \/ UNCHANGED guard
  PROVE  GuardInv'
<1>0. /\ DOMAIN signatures \subseteq DOMAIN KnownLevels \cup Names
      /\ \A n \in DOMAIN signatures : signatures[n] \in Guard!Levels
      /\ detections \in Seq(Detection) /\ actions \in Seq(Action)
      /\ quarantine = Critical(detections) \cup Isolated(actions)
  BY DEF GuardInv
<1>1. CASE Guard!AddSignature
  <2>1. PICK n \in Names, l \in Guard!Levels :
          /\ signatures' = [x \in DOMAIN signatures \cup {n} |->
                              IF x = n THEN l ELSE signatures[x]]
          /\ UNCHANGED <<quarantine, detections, actions, verdict>>
    BY <1>1 DEF Guard!AddSignature
  <2> QED
    BY <1>0, <2>1 DEF GuardInv
<1>2. CASE Guard!Scan
  <2>1. PICK d \in Data, n \in DOMAIN signatures, class \in Guard!Similarity :
          Guard!ScanData(d, n, class)
    BY <1>2 DEF Guard!Scan
  <2> DEFINE r == [status |-> class, data |-> d,
                   name |-> IF class = "clean" THEN "Unknown" ELSE n,
                   level |-> IF class = "infected" THEN signatures[n] ELSE "none"]
  <2>2. /\ detections' = Append(detections, r) /\ UNCHANGED <<signatures, actions>>
        /\ quarantine' = IF class = "infected" /\ signatures[n] = "critical"
                           THEN quarantine \cup {d} ELSE quarantine
    BY <2>1 DEF Guard!ScanData
  <2>3. r \in Detection /\ r.data = d
        /\ (r.level = "critical" <=> class = "infected" /\ signatures[n] = "critical")
    BY <1>0 DEF Detection
  <2> HIDE DEF r
  <2>4. Critical(detections') = Critical(detections)
                                  \cup (IF r.level = "critical" THEN {d} ELSE {})
    BY <1>0, <2>2, <2>3, OneMoreDetection
  <2>5. quarantine' = Critical(detections') \cup Isolated(actions)
    BY <1>0, <2>2, <2>3, <2>4
  <2>6. detections' \in Seq(Detection)
    BY <1>0, <2>2, <2>3
  <2> QED
    BY <1>0, <2>2, <2>5, <2>6 DEF GuardInv
<1>3. CASE Guard!ScanUnreadableFile \/ Guard!DetectBehavior \/ UNCHANGED guard
  BY <1>3 DEF Guard!ScanUnreadableFile, Guard!DetectBehavior, guard, GuardInv
<1>4. ASSUME NEW r \in Action, actions' = Append(actions, r),
             UNCHANGED <<signatures, detections>>,
             quarantine' = quarantine \cup (IF r.isolated THEN {r.target} ELSE {})
      PROVE  GuardInv'
  <2>1. Isolated(actions') = Isolated(actions) \cup (IF r.isolated THEN {r.target} ELSE {})
    BY <1>0, <1>4, OneMoreAction
  <2>2. actions' \in Seq(Action)
    BY <1>0, <1>4
  <2>3. quarantine' = Critical(detections) \cup Isolated(actions')
    BY <1>0, <1>4, <2>1
  <2> QED
    BY <1>0, <1>4, <2>2, <2>3 DEF GuardInv
<1>5. CASE Guard!Eradicate
  <2>1. PICK n \in Names, target \in Data :
          /\ quarantine' = IF n \in DOMAIN signatures /\ signatures[n] \in {"critical", "high"}
                             THEN quarantine \cup {target} ELSE quarantine
          /\ actions' = Append(actions,
               [type |-> "eradicate", target |-> target, success |-> n \in DOMAIN signatures,
                isolated |-> n \in DOMAIN signatures /\ signatures[n] \in {"critical", "high"}])
          /\ UNCHANGED <<signatures, detections, verdict>>
    BY <1>5 DEF Guard!Eradicate
  <2> DEFINE knows == n \in DOMAIN signatures
             isolates == n \in DOMAIN signatures /\ signatures[n] \in {"critical", "high"}
             r == [type |-> "eradicate", target |-> target, success |-> knows,
                   isolated |-> isolates]
  <2>3. actions' = Append(actions, r) /\ UNCHANGED <<signatures, detections>>
    BY <2>1
  <2>2. /\ r \in Action /\ r.target = target
        /\ (r.isolated <=> n \in DOMAIN signatures /\ signatures[n] \in {"critical", "high"})
    <3>1. knows \in BOOLEAN /\ isolates \in BOOLEAN
      OBVIOUS
    <3>2. isolates <=> n \in DOMAIN signatures /\ signatures[n] \in {"critical", "high"}
      OBVIOUS
    <3> HIDE DEF knows, isolates
    <3>3. r \in Action /\ r.target = target /\ (r.isolated <=> isolates)
      BY <3>1 DEF Action
    <3> QED
      BY <3>2, <3>3
  <2> HIDE DEF r
  <2>4. quarantine' = quarantine \cup (IF r.isolated THEN {r.target} ELSE {})
    BY <2>1, <2>2
  <2> QED
    BY <1>4, <2>2, <2>3, <2>4
<1>6. CASE Guard!PatchVulnerability
  <2> DEFINE r == [type |-> "patch", target |-> "none", success |-> TRUE, isolated |-> FALSE]
  <2>1. actions' = Append(actions, r) /\ UNCHANGED <<signatures, quarantine, detections>>
    BY <1>6 DEF Guard!PatchVulnerability
  <2>2. r \in Action /\ ~r.isolated
    BY DEF Action
  <2> HIDE DEF r
  <2> QED
    BY <1>4, <2>1, <2>2
<1> QED
  BY <1>1, <1>2, <1>3, <1>5, <1>6 DEF Guard!Next

(* What a scan says it moved is not where it was, although another scan, a    *)
(* request or a download came between the verdict and the move                *)
(* (core_engine/antivirus_integration.py); and the quarantine list is what    *)
(* the two logs account for, although a signature's level may have changed    *)
(* since (core_engine/virus_guard.py).                                        *)
THEOREM QuarantineStaysSound == DeskSpec => []QuarantineSound
<1>1. DeskInit => FilesInv /\ GuardInv
  <2> SUFFICES ASSUME DeskInit PROVE FilesInv /\ GuardInv
    OBVIOUS
  <2>1. Files!ScanInit /\ Guard!Init
    BY DEF DeskInit
  <2>2. DOMAIN Files!Idle = TaskFields /\ Files!Idle.phase = "idle" /\ Files!Idle.todo = {}
        /\ Files!Idle.file = 0 /\ Files!Idle.entries = {}
    BY DEF Files!Idle, TaskFields, Files!Absent
  <2>3. TaskHolds(Files!Idle, disk, 0)
    BY <2>2 DEF TaskHolds
  <2>4. FilesInv
    <3> HIDE DEF Files!Idle
    <3> QED
      BY <2>1, <2>3 DEF Files!ScanInit, FilesInv, Files!Absent
  <2>5. GuardInv
    BY <2>1, LevelsAssumption DEF Guard!Init, GuardInv, Critical, Isolated
  <2> QED
    BY <2>4, <2>5
<1>2. FilesInv /\ GuardInv /\ [DeskNext]_deskVars => (FilesInv /\ GuardInv)'
  BY OneDeskSteps, FilesSteps, GuardSteps
<1>3. FilesInv /\ GuardInv => QuarantineSound
  <2>1. FilesInv => Files!QuarantinedIsGone
    BY DEF FilesInv, TaskHolds, EntryHolds, Gone, Files!QuarantinedIsGone, Files!Absent
  <2>2. GuardInv => Guard!QuarantineAccounted
    BY DEF GuardInv, Critical, Isolated, Guard!QuarantineAccounted
  <2> QED
    BY <2>1, <2>2 DEF QuarantineSound
<1> QED
  BY <1>1, <1>2, <1>3, PTL DEF DeskSpec

-----------------------------------------------------------------------------
(* Evidence.                                                                  *)
EvidenceRecord == [custody : Seq({"collected", "handled"}),
                   integrity : {"chained", "verified", "submitted"},
                   submittedTo : Seq(Authorities)]
Report == [authority : Authorities, ids : Seq(Nat), chainVerified : BOOLEAN]

Places(x, s) == {i \in DOMAIN s : s[i] = x}

(* The places of the reports rs to a that list e.                             *)
Listed(rs, e, a) ==
  UNION {{<<r, k>> : k \in Places(e, rs[r].ids)} :
           r \in {x \in DOMAIN rs : rs[x].authority = a}}

CustodyInv ==
  /\ evidence \in Seq(EvidenceRecord) /\ reports \in Seq(Report)
  /\ \A r \in DOMAIN reports : \A k \in DOMAIN reports[r].ids :
       reports[r].ids[k] <= Len(evidence)
  /\ \A e \in Nat, a \in Authorities : IsFiniteSet(Listed(reports, e, a))
  /\ \A e \in DOMAIN evidence, a \in Authorities :
       Cardinality(Places(a, evidence[e].submittedTo)) = Cardinality(Listed(reports, e, a))

LEMMA PlacesFinite ==
  ASSUME NEW S, NEW s \in Seq(S), NEW x
  PROVE  IsFiniteSet(Places(x, s)) /\ Cardinality(Places(x, s)) \in Nat
         /\ Places(x, s) \subseteq 1..Len(s)
<1> DEFINE n == Len(s)
<1>1. n \in Nat /\ DOMAIN s = 1..n
  OBVIOUS
<1>2. Places(x, s) \subseteq 1..n
  BY <1>1 DEF Places
<1> HIDE DEF n
<1>3. IsFiniteSet(1..n)
  BY <1>1, FS_Interval
<1>4. IsFiniteSet(Places(x, s))
  BY <1>2, <1>3, FS_Subset
<1> QED
  BY <1>2, <1>4, FS_CardinalityType DEF n

(* A sequence lengthened by n times b has n more places of b.                 *)
LEMMA MorePlaces ==
  ASSUME NEW S, NEW s \in Seq(S), NEW b \in S, NEW n \in Nat, NEW x
  PROVE  /\ s \o [k \in 1..n |-> b] \in Seq(S)
         /\ Cardinality(Places(x, s \o [k \in 1..n |-> b]))
              = Cardinality(Places(x, s)) + (IF x = b THEN n ELSE 0)
<1> DEFINE m == Len(s)
           t == [k \in 1..n |-> b]
           s2 == s \o t
           More == IF x = b THEN (m + 1)..(m + n) ELSE {}
<1>1. t \in Seq(S) /\ Len(t) = n /\ \A k \in 1..n : t[k] = b
  OBVIOUS
<1> HIDE DEF t
<1>2. /\ m \in Nat /\ DOMAIN s = 1..m /\ s2 \in Seq(S) /\ DOMAIN s2 = 1..(m + n)
      /\ \A i \in 1..m : s2[i] = s[i]
      /\ \A i \in (m + 1)..(m + n) : s2[i] = t[i - m]
  BY <1>1
<1> HIDE DEF s2, m
<1>3. \A i \in (m + 1)..(m + n) : s2[i] = b
  <2>1. \A i \in (m + 1)..(m + n) : i - m \in 1..n
    BY <1>2
  <2> QED
    BY <1>1, <1>2, <2>1
<1>4. \A i : i \in 1..(m + n) <=> i \in 1..m \/ i \in (m + 1)..(m + n)
  BY <1>2
<1>5. Places(x, s2) = Places(x, s) \cup More
  BY <1>2, <1>3, <1>4 DEF Places
<1>6. Places(x, s) \cap More = {}
  <2>1. \A i \in 1..m : i \notin (m + 1)..(m + n)
    BY <1>2
  <2> QED
    BY <1>2, <2>1 DEF Places
<1>7. IsFiniteSet(More) /\ Cardinality(More) = IF x = b THEN n ELSE 0
  <2>1. m + 1 \in Int /\ m + n \in Int
    BY <1>2
  <2>2. IsFiniteSet((m + 1)..(m + n))
    BY <2>1, FS_Interval
  <2>3. Cardinality((m + 1)..(m + n)) = IF m + 1 > m + n THEN 0 ELSE (m + n) - (m + 1) + 1
    BY <2>1, FS_Interval
  <2>4. Cardinality((m + 1)..(m + n)) = n
    BY <1>2, <2>3
  <2>5. IsFiniteSet({}) /\ Cardinality({}) = 0
    BY FS_EmptySet
  <2> QED
    BY <2>2, <2>4, <2>5
<1>8. IsFiniteSet(Places(x, s)) /\ Cardinality(Places(x, s)) \in Nat
  BY PlacesFinite
<1> HIDE DEF More
<1>9. Cardinality(Places(x, s) \cup More)
        = Cardinality(Places(x, s)) + Cardinality(More) - Cardinality({})
  BY <1>6, <1>7, <1>8, FS_Union
<1>10. Cardinality({}) = 0
  BY FS_EmptySet
<1>11. Cardinality(Places(x, s2)) = Cardinality(Places(x, s)) + (IF x = b THEN n ELSE 0)
  BY <1>5, <1>7, <1>8, <1>9, <1>10
<1> QED
  BY <1>2, <1>11 DEF s2, t

(* One more report lists a record as often as its ids do.                     *)
LEMMA MoreListed ==
  ASSUME NEW rs \in Seq(Report), NEW r \in Report, NEW e \in Nat, NEW a \in Authorities,
         IsFiniteSet(Listed(rs, e, a))
  PROVE  /\ IsFiniteSet(Listed(Append(rs, r), e, a))
         /\ Cardinality(Listed(Append(rs, r), e, a))
              = Cardinality(Listed(rs, e, a))
                + (IF r.authority = a THEN Cardinality(Places(e, r.ids)) ELSE 0)
<1> DEFINE n == Len(rs)
           r2 == Append(rs, r)
           K == Places(e, r.ids)
           More == IF r.authority = a THEN {n + 1} \X K ELSE {}
<1>1. /\ n \in Nat /\ DOMAIN rs = 1..n /\ DOMAIN r2 = 1..(n + 1) /\ r2[n + 1] = r
      /\ \A i \in 1..n : r2[i] = rs[i]
  OBVIOUS
<1>2. IsFiniteSet(K) /\ Cardinality(K) \in Nat
  <2>1. r.ids \in Seq(Nat)
    BY DEF Report
  <2> QED
    BY <2>1, PlacesFinite
<1> HIDE DEF n, r2, K
<1>3. 1..(n + 1) = 1..n \cup {n + 1} /\ n + 1 \notin 1..n
  BY <1>1
<1>4. Listed(r2, e, a) = Listed(rs, e, a) \cup More
  <2>1. \A i \in 1..n : Places(e, r2[i].ids) = Places(e, rs[i].ids)
    BY <1>1
  <2>2. Places(e, r2[n + 1].ids) = K
    BY <1>1 DEF K
  <2>3. ASSUME NEW p \in Listed(r2, e, a) PROVE p \in Listed(rs, e, a) \cup More
    <3>1. PICK i \in 1..(n + 1) : r2[i].authority = a /\ p \in {<<i, k>> : k \in Places(e, r2[i].ids)}
      BY <1>1, <2>3 DEF Listed
    <3>2. CASE i \in 1..n
      BY <1>1, <2>1, <3>1, <3>2 DEF Listed
    <3>3. CASE i = n + 1
      BY <1>1, <2>2, <3>1, <3>3
    <3> QED
      BY <1>3, <3>1, <3>2, <3>3
  <2>4. ASSUME NEW p \in Listed(rs, e, a) PROVE p \in Listed(r2, e, a)
    <3>1. PICK i \in 1..n : rs[i].authority = a /\ p \in {<<i, k>> : k \in Places(e, rs[i].ids)}
      BY <1>1, <2>4 DEF Listed
    <3> QED
      BY <1>1, <1>3, <2>1, <3>1 DEF Listed
  <2>5. ASSUME NEW p \in More PROVE p \in Listed(r2, e, a)
    <3>1. r.authority = a /\ \E k \in K : p = <<n + 1, k>>
      BY <2>5
    <3> QED
      BY <1>1, <1>3, <2>2, <3>1 DEF Listed
  <2> QED
    BY <2>3, <2>4, <2>5
<1>5. Listed(rs, e, a) \cap More = {}
  <2>1. \A p \in Listed(rs, e, a) : p[1] \in 1..n
    <3> SUFFICES ASSUME NEW p \in Listed(rs, e, a) PROVE p[1] \in 1..n
      OBVIOUS
    <3>1. PICK i \in 1..n : p \in {<<i, k>> : k \in Places(e, rs[i].ids)}
      BY <1>1 DEF Listed
    <3> QED
      BY <3>1
  <2>2. \A p \in More : p[1] = n + 1
    OBVIOUS
  <2> QED
    BY <1>3, <2>1, <2>2
<1>6. IsFiniteSet(More)
      /\ Cardinality(More) = IF r.authority = a THEN Cardinality(K) ELSE 0
  <2>1. IsFiniteSet({n + 1}) /\ Cardinality({n + 1}) = 1
    BY FS_Singleton
  <2>2. IsFiniteSet({n + 1} \X K) /\ Cardinality({n + 1} \X K) = Cardinality({n + 1}) * Cardinality(K)
    BY <1>2, <2>1, FS_Product
  <2>3. Cardinality({n + 1} \X K) = Cardinality(K)
    BY <1>2, <2>1, <2>2
  <2>4. IsFiniteSet({}) /\ Cardinality({}) = 0
    BY FS_EmptySet
  <2> QED
    BY <2>2, <2>3, <2>4
<1> HIDE DEF More
<1>7. /\ IsFiniteSet(Listed(rs, e, a) \cup More)
      /\ Cardinality(Listed(rs, e, a) \cup More)
           = Cardinality(Listed(rs, e, a)) + Cardinality(More) - Cardinality({})
  BY <1>5, <1>6, FS_Union
<1>8. Cardinality({}) = 0 /\ Cardinality(Listed(rs, e, a)) \in Nat
  BY FS_EmptySet, FS_CardinalityType
<1>9. Cardinality(Listed(rs, e, a) \cup More)
        = Cardinality(Listed(rs, e, a)) + IF r.authority = a THEN Cardinality(K) ELSE 0
  BY <1>2, <1>6, <1>7, <1>8
<1> QED
  BY <1>4, <1>7, <1>9 DEF r2, K

LEMMA CustodyCounts ==
  /\ \A S : Custody!Cardinality(S) = Cardinality(S)
  /\ \A x, s : Custody!Occurrences(x, s) = Cardinality(Places(x, s))
  /\ \A e, a : Custody!Listings(e, a) = Listed(reports, e, a)
<1>1. \A S : Custody!Cardinality(S) = Cardinality(S)
  BY DEF Custody!Cardinality, Cardinality
<1> QED
  BY <1>1 DEF Custody!Occurrences, Custody!Listings, Places, Listed

(* A record that is only handled or verified says the same of its submissions.*)
LEMMA SameSubmissions ==
  ASSUME CustodyInv, NEW e \in 1..Len(evidence), NEW rec \in EvidenceRecord,
         rec.submittedTo = evidence[e].submittedTo,
         evidence' = [evidence EXCEPT ![e] = rec], UNCHANGED reports
  PROVE  CustodyInv'
<1>1. /\ evidence \in Seq(EvidenceRecord) /\ evidence' \in Seq(EvidenceRecord)
      /\ Len(evidence') = Len(evidence) /\ DOMAIN evidence' = DOMAIN evidence
      /\ \A x \in DOMAIN evidence : evidence'[x].submittedTo = evidence[x].submittedTo
  BY DEF CustodyInv
<1> QED
  BY <1>1 DEF CustodyInv

LEMMA ReportKeeps ==
  ASSUME CustodyInv, NEW ids \in Custody!IdLists, NEW authority \in Authorities,
         Custody!GenerateReport(ids, authority)
  PROVE  CustodyInv'
<1> DEFINE n == Len(evidence)
           r == [authority |-> authority, ids |-> ids,
                 chainVerified |-> Custody!Unknown \notin Custody!ToSet(ids)]
<1>0. /\ evidence \in Seq(EvidenceRecord) /\ reports \in Seq(Report) /\ n \in Nat
      /\ \A x \in DOMAIN reports : \A k \in DOMAIN reports[x].ids : reports[x].ids[k] <= n
      /\ \A e \in Nat, a \in Authorities : IsFiniteSet(Listed(reports, e, a))
      /\ \A e \in DOMAIN evidence, a \in Authorities :
           Cardinality(Places(a, evidence[e].submittedTo)) = Cardinality(Listed(reports, e, a))
      /\ DOMAIN evidence = 1..n
  BY DEF CustodyInv
<1>1. ids \in Seq(Nat) /\ \A k \in DOMAIN ids : ids[k] <= n
  <2>1. PICK m \in 1..2 : ids \in [1..m -> Custody!Ids]
    BY DEF Custody!IdLists
  <2>2. \A i \in Custody!Ids : i \in Nat /\ i <= n
    BY <1>0 DEF Custody!Ids, Custody!Unknown
  <2> HIDE DEF n
  <2> QED
    BY <2>1, <2>2
<1>2. r \in Report /\ r.ids = ids /\ r.authority = authority
  <2>1. (Custody!Unknown \notin Custody!ToSet(ids)) \in BOOLEAN
    OBVIOUS
  <2> QED
    BY <1>1, <2>1 DEF Report
<1>3. /\ reports' = Append(reports, r)
      /\ evidence' = Custody!MarkSubmitted(ids, authority)
  BY DEF Custody!GenerateReport
<1> HIDE DEF r
<1> DEFINE times(e) == Cardinality(Places(e, ids))
<1>4. \A e : times(e) \in Nat
  BY <1>1, PlacesFinite
<1>5. evidence' = [e \in 1..n |-> Custody!Submitted(evidence[e], authority, times(e))]
  BY <1>0, <1>3, CustodyCounts DEF Custody!MarkSubmitted
<1> HIDE DEF times, n
<1>6. ASSUME NEW e \in 1..n
      PROVE  /\ evidence'[e] \in EvidenceRecord
             /\ \A a \in Authorities :
                  Cardinality(Places(a, evidence'[e].submittedTo))
                    = Cardinality(Places(a, evidence[e].submittedTo))
                      + IF authority = a THEN times(e) ELSE 0
  <2> DEFINE rec == evidence[e]
             s == rec.submittedTo
             s2 == s \o [k \in 1..times(e) |-> authority]
  <2>0. rec \in EvidenceRecord
    BY <1>0
  <2>1. rec \in EvidenceRecord /\ s \in Seq(Authorities)
    BY <2>0 DEF EvidenceRecord
  <2>2. evidence'[e] = Custody!Submitted(rec, authority, times(e))
    BY <1>5
  <2> HIDE DEF rec
  <2>3. CASE times(e) = 0
    <3>1. evidence'[e] = rec
      BY <2>2, <2>3 DEF Custody!Submitted
    <3>2. \A a : Cardinality(Places(a, s)) \in Nat
      BY <2>1, PlacesFinite
    <3> QED
      BY <2>1, <2>3, <3>1, <3>2 DEF rec
  <2>4. CASE times(e) # 0
    <3>1. evidence'[e] = [rec EXCEPT !.submittedTo = s2, !.integrity = "submitted"]
      BY <2>2, <2>4 DEF Custody!Submitted
    <3> HIDE DEF s
    <3>2. s2 \in Seq(Authorities)
          /\ \A a : Cardinality(Places(a, s2))
                      = Cardinality(Places(a, s)) + (IF a = authority THEN times(e) ELSE 0)
      BY <1>4, <2>1, MorePlaces
    <3> HIDE DEF s2
    <3>3. evidence'[e] \in EvidenceRecord /\ evidence'[e].submittedTo = s2
      BY <2>1, <3>1, <3>2 DEF EvidenceRecord
    <3> QED
      BY <3>2, <3>3 DEF s, rec
  <2> QED
    BY <2>3, <2>4
<1>7. evidence' \in Seq(EvidenceRecord) /\ Len(evidence') = n /\ DOMAIN evidence' = 1..n
  <2>1. \A e \in 1..n : Custody!Submitted(evidence[e], authority, times(e)) \in EvidenceRecord
    BY <1>5, <1>6
  <2> QED
    BY <1>0, <1>5, <2>1
<1>8. /\ reports' \in Seq(Report)
      /\ \A x \in DOMAIN reports' : \A k \in DOMAIN reports'[x].ids : reports'[x].ids[k] <= n
  <2>1. /\ reports' \in Seq(Report) /\ DOMAIN reports' = 1..(Len(reports) + 1)
        /\ Len(reports) \in Nat /\ DOMAIN reports = 1..Len(reports)
        /\ reports'[Len(reports) + 1] = r
        /\ \A x \in 1..Len(reports) : reports'[x] = reports[x]
    BY <1>0, <1>2, <1>3
  <2>2. \A x \in 1..(Len(reports) + 1) : x \in 1..Len(reports) \/ x = Len(reports) + 1
    BY <2>1
  <2> QED
    BY <1>0, <1>1, <1>2, <2>1, <2>2
<1>9. \A e \in Nat, a \in Authorities :
        /\ IsFiniteSet(Listed(reports', e, a))
        /\ Cardinality(Listed(reports', e, a))
             = Cardinality(Listed(reports, e, a)) + IF authority = a THEN times(e) ELSE 0
  BY <1>0, <1>2, <1>3, MoreListed DEF times
<1>10. \A e \in 1..n, a \in Authorities :
         Cardinality(Places(a, evidence'[e].submittedTo)) = Cardinality(Listed(reports', e, a))
  <2>1. \A e \in 1..n : e \in Nat
    BY <1>0
  <2> QED
    BY <1>0, <1>6, <1>9, <2>1
<1> QED
  BY <1>7, <1>8, <1>9, <1>10 DEF CustodyInv

LEMMA CustodySteps ==
  ASSUME CustodyInv, Custody!CustodyNext \/ UNCHANGED custody
  PROVE  CustodyInv'
<1>0. evidence \in Seq(EvidenceRecord) /\ reports \in Seq(Report)
  BY DEF CustodyInv
<1>1. CASE Custody!CollectEvidence
  <2> DEFINE n == Len(evidence)
             rec == [custody |-> <<"collected">>, integrity |-> "chained",
                     submittedTo |-> <<>>]
  <2>1. evidence' = Append(evidence, rec) /\ UNCHANGED reports
    BY <1>1 DEF Custody!CollectEvidence, Custody!Collect
  <2>2. rec \in EvidenceRecord /\ rec.submittedTo = <<>>
    BY DEF EvidenceRecord
  <2> HIDE DEF rec
  <2>3. /\ evidence' \in Seq(EvidenceRecord) /\ Len(evidence') = n + 1 /\ n \in Nat
        /\ DOMAIN evidence' = 1..(n + 1) /\ DOMAIN evidence = 1..n
        /\ evidence'[n + 1] = rec /\ \A e \in 1..n : evidence'[e] = evidence[e]
    BY <1>0, <2>1, <2>2
  <2> HIDE DEF n
  <2>4. /\ \A r \in DOMAIN reports : \A k \in DOMAIN reports[r].ids :
             reports[r].ids[k] <= n /\ reports[r].ids[k] \in Nat
    <3>1. \A r \in DOMAIN reports : reports[r].ids \in Seq(Nat)
      <4>1. \A r \in DOMAIN reports : reports[r] \in Report
        BY <1>0
      <4> QED
        BY <4>1 DEF Report
    <3> QED
      BY <3>1 DEF CustodyInv, n
  \* No report lists a record that was not there.
  <2>5. \A a \in Authorities : Listed(reports, n + 1, a) = {}
    <3>1. \A r \in DOMAIN reports : Places(n + 1, reports[r].ids) = {}
      BY <2>3, <2>4 DEF Places
    <3> QED
      BY <3>1 DEF Listed
  <2>6. \A a : Places(a, <<>>) = {}
    BY DEF Places
  <2>7. \A a \in Authorities :
          Cardinality(Places(a, evidence'[n + 1].submittedTo))
            = Cardinality(Listed(reports, n + 1, a))
    BY <2>2, <2>3, <2>5, <2>6
  <2>8. \A e \in 1..(n + 1) : e \in 1..n \/ e = n + 1
    BY <2>3
  <2>9. \A e \in DOMAIN evidence', a \in Authorities :
          Cardinality(Places(a, evidence'[e].submittedTo)) = Cardinality(Listed(reports, e, a))
    BY <2>3, <2>7, <2>8 DEF CustodyInv
  <2>10. \A r \in DOMAIN reports : \A k \in DOMAIN reports[r].ids :
           reports[r].ids[k] <= Len(evidence')
    BY <2>3, <2>4
  <2> QED
    BY <2>1, <2>3, <2>9, <2>10 DEF CustodyInv
<1>2. CASE Custody!AddCustodyStep
  <2>1. PICK e \in 1..Len(evidence) :
          evidence' = [evidence EXCEPT ![e].custody = Append(@, "handled")] /\ UNCHANGED reports
    BY <1>2 DEF Custody!AddCustodyStep
  <2> DEFINE steps == Append(evidence[e].custody, "handled")
             rec == [evidence[e] EXCEPT !.custody = steps]
  <2>2. evidence[e] \in EvidenceRecord
    BY <1>0
  <2>3. rec \in EvidenceRecord /\ rec.submittedTo = evidence[e].submittedTo
    <3>1. evidence[e].custody \in Seq({"collected", "handled"})
      BY <2>2 DEF EvidenceRecord
    <3>2. steps \in Seq({"collected", "handled"})
      BY <3>1
    <3> HIDE DEF steps
    <3> QED
      BY <2>2, <3>2 DEF EvidenceRecord
  <2>4. evidence' = [evidence EXCEPT ![e] = rec]
    BY <1>0, <2>1
  <2> HIDE DEF rec
  <2> QED
    BY <2>1, <2>3, <2>4, SameSubmissions
<1>3. CASE Custody!VerifyIntegrity
  <2>1. PICK e \in 1..Len(evidence) :
          evidence' = [evidence EXCEPT ![e].integrity = "verified"] /\ UNCHANGED reports
    BY <1>3 DEF Custody!VerifyIntegrity, Custody!Verify
  <2> DEFINE rec == [evidence[e] EXCEPT !.integrity = "verified"]
  <2>2. evidence[e] \in EvidenceRecord
    BY <1>0
  <2>3. rec \in EvidenceRecord /\ rec.submittedTo = evidence[e].submittedTo
    BY <2>2 DEF EvidenceRecord
  <2>4. evidence' = [evidence EXCEPT ![e] = rec]
    BY <1>0, <2>1
  <2> HIDE DEF rec
  <2> QED
    BY <2>1, <2>3, <2>4, SameSubmissions
<1>4. CASE Custody!GenerateAuthorityReport \/ Custody!SubmitPackage
  BY <1>4, ReportKeeps DEF Custody!GenerateAuthorityReport, Custody!SubmitPackage,
                          Custody!GenerateSubmissionPackage
<1>5. CASE UNCHANGED custody
  BY <1>5 DEF custody, CustodyInv
<1> QED
  BY <1>1, <1>2, <1>3, <1>4, <1>5 DEF Custody!CustodyNext

-----------------------------------------------------------------------------
(* Court bundles.  A hash binds a content and the signatures hashed after it; *)
(* the signatures of bundle b are its own.                                    *)
HashPart == Contents \cup (Nat \X Nat)
Link == [actor : Handlers, signature : Nat \X Nat, hashBefore : Seq(HashPart)]
Bundle == [content : Contents, chain : Seq(Link), chainHash : Seq(HashPart)]

LinkOf(content, b, i) == [k \in 1..i |-> IF k = 1 THEN content ELSE <<b, k - 1>>]

BundleHolds(x, b) ==
  \A i \in DOMAIN x.chain : x.chain[i].hashBefore = LinkOf(x.content, b, i)

CourtInv ==
  /\ bundles \in Seq(Bundle)
  /\ \A b \in DOMAIN bundles : BundleHolds(bundles[b], b)

LEMMA LinkHashIs ==
  ASSUME NEW content \in Contents, NEW b \in Nat, NEW n \in Nat, NEW i \in 1..(n + 1)
  PROVE  /\ Custody!LinkHash(content, [k \in 1..n |-> <<b, k>>], i) = LinkOf(content, b, i)
         /\ LinkOf(content, b, i) \in Seq(HashPart)
<1> DEFINE sigs == [k \in 1..n |-> <<b, k>>]
           sub == SubSeq(sigs, 1, i - 1)
           h == <<content>> \o sub
<1>1. sigs \in Seq(HashPart) /\ Len(sigs) = n
  <2>1. \A k \in 1..n : <<b, k>> \in HashPart
    BY DEF HashPart
  <2> QED
    BY <2>1
<1>2. sub = [k \in 1..(i - 1) |-> <<b, k>>]
  <2>1. sub = [k \in 1..(i - 1) |-> sigs[k]]
    <3> HIDE DEF sigs
    <3> QED
      BY <1>1
  <2> QED
    BY <2>1
<1>3. sub \in Seq(HashPart) /\ Len(sub) = i - 1
  <2>1. \A k \in 1..(i - 1) : <<b, k>> \in HashPart
    BY DEF HashPart
  <2> HIDE DEF sub
  <2> QED
    BY <1>2, <2>1
<1>4. content \in HashPart
  BY DEF HashPart
<1> HIDE DEF sub
<1>5. /\ h \in Seq(HashPart) /\ Len(h) = i /\ DOMAIN h = 1..i /\ h[1] = content
      /\ \A k \in 2..i : h[k] = sub[k - 1]
  BY <1>3, <1>4
<1>6. \A k \in 2..i : sub[k - 1] = <<b, k - 1>>
  <2>1. \A k \in 2..i : k - 1 \in 1..(i - 1)
    OBVIOUS
  <2> QED
    BY <1>2, <2>1
<1> HIDE DEF h
<1>7. h = LinkOf(content, b, i)
  <2>1. h = [k \in 1..i |-> h[k]]
    BY <1>5
  <2>0. \A k \in 1..i : k = 1 \/ (k # 1 /\ k \in 2..i)
    OBVIOUS
  <2>2. \A k \in 1..i : h[k] = IF k = 1 THEN content ELSE <<b, k - 1>>
    BY <1>5, <1>6, <2>0
  <2> QED
    BY <2>1, <2>2 DEF LinkOf
<1>8. Custody!LinkHash(content, sigs, i) = h
  BY DEF Custody!LinkHash, h, sub
<1> QED
  BY <1>5, <1>7, <1>8

LEMMA CourtSteps ==
  ASSUME CourtInv, Custody!CourtNext \/ UNCHANGED court
  PROVE  CourtInv'
<1>1. CASE Custody!CreateEvidenceBundle
  <2> DEFINE m == Len(bundles)
             b == m + 1
  <2>1. PICK content \in Contents, n \in 1..MaxHandlers : \E actors \in [1..n -> Handlers] :
          bundles' = Append(bundles,
              [content |-> content,
               chain |-> [i \in 1..n |->
                  [actor |-> actors[i], signature |-> [k \in 1..n |-> <<b, k>>][i],
                   hashBefore |-> Custody!LinkHash(content, [k \in 1..n |-> <<b, k>>], i)]],
               chainHash |-> Custody!LinkHash(content, [k \in 1..n |-> <<b, k>>], n + 1)])
    BY <1>1 DEF Custody!CreateEvidenceBundle
  <2>2. PICK actors \in [1..n -> Handlers] :
          bundles' = Append(bundles,
              [content |-> content,
               chain |-> [i \in 1..n |->
                  [actor |-> actors[i], signature |-> [k \in 1..n |-> <<b, k>>][i],
                   hashBefore |-> Custody!LinkHash(content, [k \in 1..n |-> <<b, k>>], i)]],
               chainHash |-> Custody!LinkHash(content, [k \in 1..n |-> <<b, k>>], n + 1)])
    BY <2>1
  <2> DEFINE chain == [i \in 1..n |-> [actor |-> actors[i], signature |-> <<b, i>>,
                                       hashBefore |-> LinkOf(content, b, i)]]
             x == [content |-> content, chain |-> chain,
                   chainHash |-> LinkOf(content, b, n + 1)]
  <2>3. m \in Nat /\ bundles \in Seq(Bundle) /\ DOMAIN bundles = 1..m
    BY DEF CourtInv
  <2> HIDE DEF m
  <2>4. b \in Nat /\ n \in Nat /\ \A i \in 1..n : i \in 1..(n + 1)
    BY <2>3
  <2> HIDE DEF b
  <2>5. \A i \in 1..(n + 1) :
          /\ Custody!LinkHash(content, [k \in 1..n |-> <<b, k>>], i) = LinkOf(content, b, i)
          /\ LinkOf(content, b, i) \in Seq(HashPart)
    BY <2>4, LinkHashIs
  <2>6. bundles' = Append(bundles, x)
    <3>1. \A i \in 1..n : [k \in 1..n |-> <<b, k>>][i] = <<b, i>>
      OBVIOUS
    <3>2. n + 1 \in 1..(n + 1)
      BY <2>4
    <3> QED
      BY <2>2, <2>4, <2>5, <3>1, <3>2
  <2>7. chain \in Seq(Link) /\ DOMAIN chain = 1..n
        /\ \A i \in 1..n : chain[i].hashBefore = LinkOf(content, b, i)
    <3>1. \A i \in 1..n : [actor |-> actors[i], signature |-> <<b, i>>,
                           hashBefore |-> LinkOf(content, b, i)] \in Link
      <4> SUFFICES ASSUME NEW i \in 1..n
                   PROVE  [actor |-> actors[i], signature |-> <<b, i>>,
                           hashBefore |-> LinkOf(content, b, i)] \in Link
        OBVIOUS
      <4>1. actors[i] \in Handlers /\ <<b, i>> \in Nat \X Nat
        BY <2>4
      <4>2. LinkOf(content, b, i) \in Seq(HashPart)
        BY <2>4, <2>5
      <4> QED
        BY <4>1, <4>2 DEF Link
    <3> QED
      BY <2>4, <3>1
  <2> HIDE DEF chain
  <2>8. x \in Bundle /\ BundleHolds(x, b)
    <3>0. n + 1 \in 1..(n + 1)
      BY <2>4
    <3>1. LinkOf(content, b, n + 1) \in Seq(HashPart)
      BY <2>5, <3>0
    <3> QED
      BY <2>7, <3>1 DEF Bundle, BundleHolds
  <2> HIDE DEF x
  <2>9. /\ bundles' \in Seq(Bundle) /\ DOMAIN bundles' = 1..(m + 1) /\ bundles'[m + 1] = x
        /\ \A d \in 1..m : bundles'[d] = bundles[d]
    BY <2>3, <2>6, <2>8 DEF m
  <2>10. ASSUME NEW d \in 1..(m + 1) PROVE BundleHolds(bundles'[d], d)
    <3>1. CASE d = m + 1
      BY <2>8, <2>9, <3>1 DEF b
    <3>2. CASE d # m + 1
      <4>1. d \in 1..m
        BY <2>3, <3>2
      <4> QED
        BY <2>3, <2>9, <4>1 DEF CourtInv
    <3> QED
      BY <3>1, <3>2
  <2> QED
    BY <2>9, <2>10 DEF CourtInv
<1>2. CASE Custody!GenerateCourtReport \/ Custody!ExportCourtReady \/ Custody!EncryptReport
             \/ UNCHANGED court
  BY <1>2 DEF Custody!GenerateCourtReport, Custody!ExportCourtReady, Custody!EncryptReport,
              court, CourtInv
<1> QED
  BY <1>1, <1>2 DEF Custody!CourtNext

LEMMA CourtBinds == CourtInv => Custody!ChainBindsCustody
<1> SUFFICES ASSUME CourtInv, NEW b \in DOMAIN bundles, NEW d \in DOMAIN bundles,
                    NEW i \in DOMAIN bundles[b].chain, NEW j \in DOMAIN bundles[d].chain,
                    bundles[b].chain[i].hashBefore = bundles[d].chain[j].hashBefore
             PROVE  /\ bundles[b].content = bundles[d].content
                    /\ i = j
                    /\ \A k \in 1..(i - 1) : bundles[b].chain[k] = bundles[d].chain[k]
  BY DEF Custody!ChainBindsCustody
<1>1. i \in Nat \ {0} /\ j \in Nat \ {0}
  <2>1. bundles[b] \in Bundle /\ bundles[d] \in Bundle
    BY DEF CourtInv
  <2>2. bundles[b].chain \in Seq(Link) /\ bundles[d].chain \in Seq(Link)
    BY <2>1 DEF Bundle
  <2> DEFINE c1 == bundles[b].chain
             c2 == bundles[d].chain
  <2>3. i \in DOMAIN c1 /\ j \in DOMAIN c2
    OBVIOUS
  <2> HIDE DEF c1, c2
  <2>4. c1 \in Seq(Link) /\ c2 \in Seq(Link)
    BY <2>2 DEF c1, c2
  <2> QED
    BY <2>3, <2>4
<1> DEFINE f == LinkOf(bundles[b].content, b, i)
           g == LinkOf(bundles[d].content, d, j)
<1>2. f = g
  BY DEF CourtInv, BundleHolds
<1>3. DOMAIN f = 1..i /\ DOMAIN g = 1..j
  BY DEF LinkOf
<1>4. i = j
  <2>1. 1..i = 1..j
    BY <1>2, <1>3
  <2>2. i \in 1..i /\ j \in 1..j
    BY <1>1
  <2> QED
    BY <1>1, <2>1, <2>2
<1>5. f[1] = bundles[b].content /\ g[1] = bundles[d].content
  <2>1. 1 \in 1..i /\ 1 \in 1..j
    BY <1>1
  <2> QED
    BY <2>1 DEF LinkOf
<1>6. i > 1 => b = d
  <2> SUFFICES ASSUME i > 1 PROVE b = d
    OBVIOUS
  <2>1. 2 \in 1..i /\ 2 \in 1..j /\ 2 # 1 /\ 2 - 1 = 1
    BY <1>1, <1>4
  <2>2. f[2] = <<b, 1>> /\ g[2] = <<d, 1>>
    BY <2>1 DEF LinkOf
  <2> HIDE DEF f, g
  <2> QED
    BY <1>2, <2>2
<1>7. \A k \in 1..(i - 1) : i > 1
  BY <1>1
<1> QED
  BY <1>2, <1>4, <1>5, <1>6, <1>7

(* A record names an authority once for every time a report to it lists the   *)
(* record, also after requests that failed half-way (core_engine/             *)
(* evidence.py); and the hash of a custody entry binds the chain before it    *)
(* (core_engine/secure_report.py).                                            *)
THEOREM EvidenceStaysSound == DeskSpec => []EvidenceSound
<1>1. DeskInit => CustodyInv /\ CourtInv
  <2> SUFFICES ASSUME DeskInit PROVE CustodyInv /\ CourtInv
    OBVIOUS
  <2>1. evidence = <<>> /\ reports = <<>> /\ bundles = <<>>
    BY DEF DeskInit, Custody!CustodyInit, Custody!CourtInit
  <2>2. \A e \in Nat, a \in Authorities : Listed(<<>>, e, a) = {}
    BY DEF Listed
  <2>3. IsFiniteSet({})
    BY FS_EmptySet
  <2>4. CustodyInv
    <3>1. /\ evidence \in Seq(EvidenceRecord) /\ reports \in Seq(Report)
          /\ DOMAIN evidence = {} /\ DOMAIN reports = {}
      BY <2>1
    <3>2. \A e \in Nat, a \in Authorities : IsFiniteSet(Listed(reports, e, a))
      BY <2>1, <2>2, <2>3
    <3> QED
      BY <3>1, <3>2 DEF CustodyInv
  <2> QED
    BY <2>1, <2>4 DEF CourtInv
<1>2. CustodyInv /\ CourtInv /\ [DeskNext]_deskVars => (CustodyInv /\ CourtInv)'
  BY OneDeskSteps, CustodySteps, CourtSteps
<1>3. CustodyInv /\ CourtInv => EvidenceSound
  <2>1. CustodyInv => Custody!SubmissionsMatchReports
    BY CustodyCounts DEF CustodyInv, Custody!SubmissionsMatchReports
  <2> QED
    BY <2>1, CourtBinds DEF EvidenceSound
<1> QED
  BY <1>1, <1>2, <1>3, PTL DEF DeskSpec

-----------------------------------------------------------------------------
(* The news desk.                                                             *)
People == DOMAIN Founders \cup Members
Message == [id : Nat, channel : {"all", "bridge_net"} \cup OpenChannels, type : AlertTypes,
            recipients : SUBSET People, acks : Seq(Members)]

IntelInv ==
  /\ channels \in [Intel!Channels -> SUBSET People]
  /\ \A c \in Intel!Channels : IsFiniteSet(channels[c])
  /\ sent \in Nat
  /\ alerts \in Seq(Message)
  /\ \A i \in DOMAIN alerts : IsFiniteSet(alerts[i].recipients)
  /\ \A m \in cleared : /\ m \in Message /\ IsFiniteSet(m.recipients)
                        /\ Len(m.acks) >= Cardinality(m.recipients)

LEMMA IntelCounts ==
  /\ \A S : Intel!Cardinality(S) = Cardinality(S)
  /\ \A s, I : Intel!Kept(s, I) = Kept(s, I)
<1>1. \A S : Intel!Cardinality(S) = Cardinality(S)
  BY DEF Intel!Cardinality, Cardinality
<1>2. \A s, I : Intel!Kept(s, I) = Kept(s, I)
  BY DEF Intel!Kept, Kept, Intel!Cardinality, Cardinality
<1> QED
  BY <1>1, <1>2

(* The members of a type's channels are finitely many.                        *)
LEMMA FewRecipients ==
  ASSUME IntelInv, NEW type \in AlertTypes
  PROVE  /\ UNION {channels[c] : c \in Intel!RouteRules[type]} \subseteq People
         /\ IsFiniteSet(UNION {channels[c] : c \in Intel!RouteRules[type]})
<1> DEFINE R == Intel!RouteRules[type]
           C == {channels[c] : c \in R}
<1>1. type \in DOMAIN Intel!RouteRules
  BY NamesAssumption
<1>2. \E x, y, z \in Intel!Channels : R = {x, y, z}
  <2>1. /\ "virus_team" \in Intel!Channels /\ "scam_team" \in Intel!Channels
        /\ "security_team" \in Intel!Channels /\ "research_team" \in Intel!Channels
        /\ "all" \in Intel!Channels
    BY DEF Intel!Channels
  <2> HIDE DEF Intel!Channels
  <2>2. \/ R = {"virus_team", "all", "all"} \/ R = {"scam_team", "all", "all"}
        \/ R = {"security_team", "research_team", "research_team"}
        \/ R = {"research_team", "virus_team", "scam_team"} \/ R = {"all", "all", "all"}
    BY <1>1 DEF Intel!RouteRules
  <2> HIDE DEF R
  <2> QED
    BY <2>1, <2>2
<1> HIDE DEF R
<1>3. PICK x \in Intel!Channels, y \in Intel!Channels, z \in Intel!Channels : R = {x, y, z}
  BY <1>2
<1>4. UNION C = (channels[x] \cup channels[y]) \cup channels[z]
  BY <1>3
<1>5. IsFiniteSet(channels[x]) /\ IsFiniteSet(channels[y]) /\ IsFiniteSet(channels[z])
  BY DEF IntelInv
<1>6. IsFiniteSet((channels[x] \cup channels[y]) \cup channels[z])
  BY <1>5, FS_Union
<1>7. UNION C \subseteq People
  BY <1>4 DEF IntelInv
<1> QED
  BY <1>4, <1>6, <1>7 DEF C, R

LEMMA IntelSteps ==
  ASSUME IntelInv, Intel!Next \/ UNCHANGED intel
  PROVE  IntelInv'
<1>0. /\ channels \in [Intel!Channels -> SUBSET People]
      /\ \A c \in Intel!Channels : IsFiniteSet(channels[c])
      /\ sent \in Nat /\ alerts \in Seq(Message)
      /\ \A i \in DOMAIN alerts : IsFiniteSet(alerts[i].recipients)
  BY DEF IntelInv
<1>1. ASSUME NEW channel \in {"all", "bridge_net"} \cup OpenChannels, NEW type \in AlertTypes,
             Intel!RouteIntel(channel, type)
      PROVE  IntelInv'
  <2> DEFINE to == UNION {channels[c] : c \in Intel!RouteRules[type]}
             m == [id |-> sent + 1, channel |-> channel, type |-> type,
                   recipients |-> to, acks |-> <<>>]
  <2>1. /\ sent' = sent + 1 /\ alerts' = Append(alerts, m) /\ UNCHANGED <<channels, cleared>>
    BY <1>1 DEF Intel!RouteIntel
  <2>2. to \subseteq People /\ IsFiniteSet(to)
    BY FewRecipients
  <2> HIDE DEF to
  <2>3. m \in Message /\ m.recipients = to
    BY <1>0, <2>2 DEF Message
  <2> HIDE DEF m
  <2>4. /\ alerts' \in Seq(Message)
        /\ \A i \in DOMAIN alerts' : (i \in DOMAIN alerts /\ alerts'[i] = alerts[i]) \/ alerts'[i] = m
    BY <1>0, <2>1, <2>3
  <2>5. \A i \in DOMAIN alerts' : IsFiniteSet(alerts'[i].recipients)
    BY <1>0, <2>2, <2>3, <2>4
  <2> QED
    BY <1>0, <2>1, <2>4, <2>5 DEF IntelInv
<1>2. CASE Intel!BroadcastAlert \/ Intel!SendToTeam \/ Intel!SendCriticalAlert
             \/ Intel!BroadcastCrossPlatform
  BY <1>1, <1>2 DEF Intel!BroadcastAlert, Intel!SendToTeam, Intel!SendCriticalAlert,
       Intel!BroadcastCrossPlatform, Intel!Broadcast, Intel!ToTeam, Intel!Critical,
       Intel!CrossPlatform
<1>3. CASE Intel!RegisterMember \/ Intel!Unsubscribe
  <2>1. PICK m \in Members, c \in OpenChannels :
          /\ \/ channels' = [channels EXCEPT ![c] = @ \cup {m}]
             \/ channels' = [channels EXCEPT ![c] = @ \ {m}]
          /\ UNCHANGED <<alerts, sent, cleared>>
    BY <1>3 DEF Intel!RegisterMember, Intel!Unsubscribe, Intel!Subscribe
  <2>2. c \in Intel!Channels /\ m \in People
    BY NamesAssumption DEF People
  <2>3. IsFiniteSet(channels[c] \cup {m}) /\ IsFiniteSet(channels[c] \ {m})
    BY <1>0, <2>2, FS_AddElement, FS_RemoveElement
  <2>4. channels' \in [Intel!Channels -> SUBSET People]
    BY <1>0, <2>1, <2>2
  <2>5. \A x \in Intel!Channels : IsFiniteSet(channels'[x])
    BY <1>0, <2>1, <2>2, <2>3
  <2> QED
    BY <1>0, <2>1, <2>4, <2>5 DEF IntelInv
<1>4. CASE Intel!AcknowledgeMessage
  <2>1. PICK i \in 1..Len(alerts), m \in Members :
          alerts' = [alerts EXCEPT ![i].acks = Append(@, m)] /\ UNCHANGED <<channels, sent, cleared>>
    BY <1>4 DEF Intel!AcknowledgeMessage, Intel!Acknowledge
  <2> DEFINE acks == Append(alerts[i].acks, m)
             a == [alerts[i] EXCEPT !.acks = acks]
  <2>2. alerts[i] \in Message
    BY <1>0
  <2>3. acks \in Seq(Members)
    <3>1. alerts[i].acks \in Seq(Members)
      BY <2>2 DEF Message
    <3> QED
      BY <3>1
  <2>4. alerts' = [alerts EXCEPT ![i] = a]
    BY <1>0, <2>1
  <2> HIDE DEF acks
  <2>5. a \in Message /\ a.recipients = alerts[i].recipients
    BY <2>2, <2>3 DEF Message
  <2> HIDE DEF a
  <2>6. /\ alerts' \in Seq(Message) /\ DOMAIN alerts' = DOMAIN alerts
        /\ \A x \in DOMAIN alerts : alerts'[x].recipients = alerts[x].recipients
    BY <1>0, <2>4, <2>5
  <2> QED
    BY <1>0, <2>1, <2>6 DEF IntelInv
<1>5. CASE Intel!ClearAcknowledged
  <2> DEFINE I == {i \in DOMAIN alerts : Intel!StillPending(alerts[i])}
  <2>1. /\ alerts' = Kept(alerts, I) /\ UNCHANGED <<channels, sent>>
        /\ cleared' = cleared \cup {m \in Intel!ToSet(alerts) : ~Intel!StillPending(m)}
    BY <1>5, IntelCounts DEF Intel!ClearAcknowledged
  <2>2. I \in SUBSET (DOMAIN alerts)
    OBVIOUS
  <2> HIDE DEF I
  \* The messages with finitely many recipients are as good a type.
  <2> DEFINE Whole == {m \in Message : IsFiniteSet(m.recipients)}
  <2>3. alerts \in Seq(Whole)
    <3>1. \A i \in DOMAIN alerts : alerts[i] \in Whole
      BY <1>0
    <3> HIDE DEF Whole
    <3> QED
      BY <1>0, <3>1
  <2>4. Kept(alerts, I) \in Seq(Whole)
    <3> HIDE DEF Whole
    <3>1. I \subseteq 1..Len(alerts)
      BY <2>2, <2>3
    <3> QED
      BY <2>3, <3>1, KeptIsSeq
  <2>5. alerts' \in Seq(Message) /\ \A i \in DOMAIN alerts' : IsFiniteSet(alerts'[i].recipients)
    <3>1. \A i \in DOMAIN alerts' : alerts'[i] \in Whole
      <4> HIDE DEF Whole
      <4> QED
        BY <2>1, <2>4
    <3>2. \E n \in Nat : alerts' \in [1..n -> Whole]
      <4> HIDE DEF Whole
      <4> QED
        BY <2>1, <2>4
    <3> QED
      BY <3>1, <3>2
  <2>6. ASSUME NEW m \in Intel!ToSet(alerts), ~Intel!StillPending(m)
        PROVE  /\ m \in Message /\ IsFiniteSet(m.recipients)
               /\ Len(m.acks) >= Cardinality(m.recipients)
    <3>1. m \in Message /\ IsFiniteSet(m.recipients)
      BY <1>0, <2>6 DEF Intel!ToSet
    <3>2. Len(m.acks) \in Nat /\ Cardinality(m.recipients) \in Nat
      BY <3>1, FS_CardinalityType DEF Message
    <3>3. ~(Len(m.acks) < Cardinality(m.recipients))
      BY <2>6, IntelCounts DEF Intel!StillPending
    <3> QED
      BY <3>1, <3>2, <3>3
  <2>7. \A m \in cleared' : /\ m \in Message /\ IsFiniteSet(m.recipients)
                            /\ Len(m.acks) >= Cardinality(m.recipients)
    BY <2>1, <2>6 DEF IntelInv
  <2> QED
    BY <1>0, <2>1, <2>5, <2>7 DEF IntelInv
<1>6. CASE UNCHANGED intel
  BY <1>6 DEF intel, IntelInv
<1> QED
  BY <1>2, <1>3, <1>4, <1>5, <1>6 DEF Intel!Next

(* As many different readers as recipients, all of them recipients: that is   *)
(* all of them.                                                               *)
LEMMA AllRead ==
  ASSUME NEW R, IsFiniteSet(R), NEW n \in Nat, NEW acks \in [1..n -> R],
         \A i, j \in 1..n : acks[i] = acks[j] => i = j, n >= Cardinality(R)
  PROVE  \A r \in R : \E i \in 1..n : acks[i] = r
<1>1. acks \in Injection(1..n, R)
  BY DEF Injection, IsInjective
<1>2. Cardinality(1..n) = n
  BY FS_Interval
<1>3. Cardinality(1..n) <= Cardinality(R)
      /\ (Cardinality(1..n) = Cardinality(R) <=> acks \in Surjection(1..n, R))
  BY <1>1, FS_Injection
<1>4. Cardinality(R) \in Nat
  BY FS_CardinalityType
<1>5. acks \in Surjection(1..n, R)
  BY <1>2, <1>3, <1>4
<1> QED
  BY <1>5 DEF Surjection

(* As long as each recipient acknowledges once and nobody else does, a        *)
(* message leaves the queue only when every recipient has read it, however    *)
(* members came and went in between (core_engine/intel_network.py).           *)
THEOREM ClearedWasRead == DeskSpec => []NotClearedUnread
<1>1. DeskInit => IntelInv
  <2> SUFFICES ASSUME DeskInit PROVE IntelInv
    OBVIOUS
  <2>1. /\ channels = [c \in Intel!Channels |-> {m \in DOMAIN Founders : Founders[m] = c}]
        /\ alerts = <<>> /\ sent = 0 /\ cleared = {}
    BY DEF DeskInit, Intel!Init, Intel!DefaultMembers
  <2>2. channels \in [Intel!Channels -> SUBSET People]
    BY <2>1 DEF People
  <2>3. ASSUME NEW c \in Intel!Channels PROVE IsFiniteSet(channels[c])
    <3>1. channels[c] \subseteq DOMAIN Founders
      BY <2>1
    <3> QED
      BY <3>1, RosterAssumption, FS_Subset
  <2> QED
    BY <2>1, <2>2, <2>3 DEF IntelInv
<1>2. IntelInv /\ [DeskNext]_deskVars => IntelInv'
  BY OneDeskSteps, IntelSteps
<1>3. IntelInv => NotClearedUnread
  <2> SUFFICES ASSUME IntelInv, NEW m \in cleared, Intel!IsInjective(m.acks),
                      Intel!ToSet(m.acks) \subseteq m.recipients
               PROVE  m.recipients \subseteq Intel!ToSet(m.acks)
    BY DEF NotClearedUnread, Intel!NotClearedUnread
  <2> DEFINE acks == m.acks
             R == m.recipients
             n == Len(acks)
  <2>1. acks \in Seq(Members) /\ IsFiniteSet(R) /\ n >= Cardinality(R)
    BY DEF IntelInv, Message
  <2>2. n \in Nat /\ DOMAIN acks = 1..n
    BY <2>1
  <2>3. /\ \A i \in DOMAIN acks : acks[i] \in R
        /\ \A i, j \in DOMAIN acks : acks[i] = acks[j] => i = j
    BY DEF Intel!ToSet, Intel!IsInjective
  <2> HIDE DEF acks, R, n
  <2>4. acks \in [1..n -> R]
    BY <2>1, <2>2, <2>3 DEF n
  <2>5. \A r \in R : \E i \in 1..n : acks[i] = r
    BY <2>1, <2>2, <2>3, <2>4, AllRead
  <2> QED
    BY <2>2, <2>5 DEF Intel!ToSet, acks, R
<1> QED
  BY <1>1, <1>2, <1>3, PTL DEF DeskSpec

-----------------------------------------------------------------------------
(* Scam assessments.  Finding more only adds to what matches.                 *)
LEMMA ScamCounts ==
  /\ \A S : Scam!Cardinality(S) = Cardinality(S)
  /\ \A S : Scam!IsFiniteSet(S) <=> IsFiniteSet(S)
BY DEF Scam!Cardinality, Cardinality, Scam!IsFiniteSet, IsFiniteSet

LEMMA CountsGrow ==
  ASSUME NEW T, IsFiniteSet(T), NEW S, S \subseteq T
  PROVE  /\ Cardinality(S) \in Nat /\ Cardinality(T) \in Nat
         /\ Cardinality(S) <= Cardinality(T)
BY FS_Subset, FS_CardinalityType

LEMMA LeastIsThere ==
  ASSUME NEW S, S \subseteq Nat, S # {}
  PROVE  Scam!Min(S) \in S /\ \A x \in S : Scam!Min(S) <= x
<1>1. PICK m \in S : \A x \in S : <<x, m>> \notin OpToRel(<, Nat)
  BY NatLessThanWellFounded, WFMin, Zenon
<1>2. \A x \in S : ~(x < m)
  BY <1>1, Zenon DEF OpToRel
<1>3. m \in Nat /\ \A x \in S : x \in Nat
  OBVIOUS
<1>4. \A x \in S : m <= x
  BY <1>2, <1>3
<1> QED
  BY <1>4 DEF Scam!Min

LEMMA MatchesGrow ==
  ASSUME NEW more, IsFiniteSet(more), NEW less, less \subseteq more, NEW t
  PROVE  /\ Scam!Matches(t, less) \in Nat /\ Scam!Matches(t, more) \in Nat
         /\ Scam!Matches(t, less) <= Scam!Matches(t, more)
         /\ Scam!Matches(t, more) <= Cardinality(more)
<1>1. /\ Patterns[t] \cap less \subseteq Patterns[t] \cap more
      /\ Patterns[t] \cap more \subseteq more
  OBVIOUS
<1>2. IsFiniteSet(Patterns[t] \cap more)
  BY <1>1, FS_Subset
<1>3. /\ Cardinality(Patterns[t] \cap less) \in Nat /\ Cardinality(Patterns[t] \cap more) \in Nat
      /\ Cardinality(Patterns[t] \cap less) <= Cardinality(Patterns[t] \cap more)
  BY <1>1, <1>2, CountsGrow
<1>4. Cardinality(Patterns[t] \cap more) <= Cardinality(more)
  BY <1>1, CountsGrow
<1> QED
  BY <1>3, <1>4, ScamCounts DEF Scam!Matches

LEMMA TypesGrow ==
  ASSUME NEW more, IsFiniteSet(more), NEW less, less \subseteq more
  PROVE  /\ Scam!MatchedTypes(less) \subseteq Scam!MatchedTypes(more)
         /\ IsFiniteSet(Scam!MatchedTypes(more)) /\ Scam!MatchedTypes(more) \subseteq Nat
<1> DEFINE n == Len(ScamTypes)
<1>1. DOMAIN ScamTypes = 1..n /\ n \in Nat
  BY ScamTablesAssumption
<1> HIDE DEF n
<1>2. IsFiniteSet(1..n)
  BY <1>1, FS_Interval
<1>3. Scam!MatchedTypes(more) \subseteq 1..n
  BY <1>1 DEF Scam!MatchedTypes
<1>4. \A i \in 1..n : Scam!Matches(ScamTypes[i], less) > 0 => Scam!Matches(ScamTypes[i], more) > 0
  BY MatchesGrow
<1>5. Scam!MatchedTypes(less) \subseteq Scam!MatchedTypes(more)
  BY <1>1, <1>4 DEF Scam!MatchedTypes
<1> QED
  BY <1>1, <1>2, <1>3, <1>5, FS_Subset

(* The primary type is one of those that match best.                          *)
LEMMA PrimaryIsBest ==
  ASSUME NEW text, IsFiniteSet(text), Scam!MatchedTypes(text) # {}
  PROVE  /\ Scam!Primary(text) \in Scam!MatchedTypes(text)
         /\ \A j \in Scam!MatchedTypes(text) :
              Scam!Matches(ScamTypes[j], text)
                <= Scam!Matches(ScamTypes[Scam!Primary(text)], text)
<1> DEFINE T == Scam!MatchedTypes(text)
           v(i) == Scam!Matches(ScamTypes[i], text)
           Best == {i \in T : \A j \in T : v(j) <= v(i)}
           Bounds == {u \in Nat : \A i \in T : v(i) <= u}
<1>1. T \subseteq Nat
  BY TypesGrow
<1>2. \A i : v(i) \in Nat /\ v(i) <= Cardinality(text)
  BY MatchesGrow
<1>3. Scam!Primary(text) = Scam!Min(Best)
  BY DEF Scam!Primary
<1> HIDE DEF v, T
<1>4. Cardinality(text) \in Bounds
  BY <1>2, FS_CardinalityType
<1>5. PICK u \in Bounds : \A x \in Bounds : <<x, u>> \notin OpToRel(<, Nat)
  <2>1. Bounds \subseteq Nat
    OBVIOUS
  <2> HIDE DEF Bounds
  <2> QED
    BY <1>4, <2>1, NatLessThanWellFounded, WFMin, Zenon
<1>6. \A x \in Bounds : ~(x < u)
  <2>1. Bounds \subseteq Nat
    OBVIOUS
  <2> HIDE DEF Bounds
  <2> QED
    BY <1>5, <2>1, Zenon DEF OpToRel
<1>7. PICK i \in T : v(i) = u
  <2> SUFFICES ASSUME \A i \in T : v(i) # u PROVE FALSE
    OBVIOUS
  <2>1. PICK i \in T : TRUE
    BY DEF T
  <2>2. u \in Nat /\ \A j \in T : v(j) \in Nat /\ v(j) <= u /\ v(j) # u
    BY <1>2
  <2>3. u - 1 \in Nat /\ \A j \in T : v(j) <= u - 1
    BY <2>1, <2>2
  <2>4. u - 1 \in Bounds /\ u - 1 < u
    BY <2>2, <2>3
  <2> QED
    BY <1>6, <2>4
<1>8. i \in Best
  BY <1>7
<1>9. Scam!Min(Best) \in Best
  <2>1. Best \subseteq Nat
    BY <1>1
  <2> HIDE DEF Best
  <2> QED
    BY <1>8, <2>1, LeastIsThere
<1> QED
  BY <1>3, <1>9 DEF T, v

(* The confidence in a call is that of the best match, five fifths at most.   *)
Confidence(n) == IF n <= 5 THEN n ELSE 5

LEMMA CallRisk ==
  ASSUME NEW text, IsFiniteSet(text), Scam!MatchedTypes(text) # {}
  PROVE  Scam!AnalyzeCall(text).confidence
           = Confidence(Scam!Matches(ScamTypes[Scam!Primary(text)], text))
<1> DEFINE n == Scam!Matches(ScamTypes[Scam!Primary(text)], text)
<1>1. n \in Nat
  BY MatchesGrow
<1>2. Scam!AnalyzeCall(text).confidence = Scam!Min({n, 5})
  BY DEF Scam!AnalyzeCall
<1> HIDE DEF n
<1>3. Scam!Min({n, 5}) \in {n, 5} /\ Scam!Min({n, 5}) <= n /\ Scam!Min({n, 5}) <= 5
  <2>1. {n, 5} \subseteq Nat /\ {n, 5} # {} /\ n \in {n, 5} /\ 5 \in {n, 5}
    BY <1>1
  <2> QED
    BY <2>1, LeastIsThere
<1> QED
  BY <1>1, <1>2, <1>3 DEF Confidence, n

LEMMA CallsGrow ==
  ASSUME NEW more, IsFiniteSet(more), NEW less, less \subseteq more
  PROVE  /\ Scam!AnalyzeCall(more).confidence >= Scam!AnalyzeCall(less).confidence
         /\ Scam!CategoryRank(Scam!AnalyzeCall(more).category)
              >= Scam!CategoryRank(Scam!AnalyzeCall(less).category)
<1> DEFINE A == Scam!MatchedTypes(less)
           B == Scam!MatchedTypes(more)
<1>0. IsFiniteSet(less)
  BY FS_Subset
<1>1. A \subseteq B /\ IsFiniteSet(B) /\ A \subseteq Nat /\ B \subseteq Nat
  BY TypesGrow
<1>2. /\ Cardinality(A) \in Nat /\ Cardinality(B) \in Nat /\ Cardinality(A) <= Cardinality(B)
  BY <1>1, CountsGrow
<1> DEFINE rank(n) == IF n >= 3 THEN 2 ELSE IF n = 2 THEN 1 ELSE 0
<1>3. \A text : Scam!CategoryRank(Scam!DetermineCategory(text))
                  = rank(Scam!Cardinality(Scam!MatchedTypes(text)))
  BY DEF Scam!CategoryRank, Scam!DetermineCategory
<1>4. Scam!CategoryRank("individual") = 0
  BY DEF Scam!CategoryRank
<1>5. Cardinality({}) = 0
  BY FS_EmptySet
<1>6. /\ Scam!CategoryRank(Scam!AnalyzeCall(less).category) = rank(Cardinality(A))
      /\ Scam!CategoryRank(Scam!AnalyzeCall(more).category) = rank(Cardinality(B))
  BY <1>3, <1>4, <1>5, ScamCounts DEF Scam!AnalyzeCall
<1>7. rank(Cardinality(B)) >= rank(Cardinality(A))
  BY <1>2
<1>8. Scam!AnalyzeCall(more).confidence >= Scam!AnalyzeCall(less).confidence
  <2>1. CASE A = {}
    <3>1. Scam!AnalyzeCall(less).confidence = 0
      BY <2>1 DEF Scam!AnalyzeCall
    <3>2. CASE B = {}
      BY <3>1, <3>2 DEF Scam!AnalyzeCall
    <3>3. CASE B # {}
      <4> DEFINE n == Scam!Matches(ScamTypes[Scam!Primary(more)], more)
      <4>1. n \in Nat
        BY MatchesGrow
      <4>2. Scam!AnalyzeCall(more).confidence = Confidence(n)
        BY <3>3, CallRisk
      <4> QED
        BY <3>1, <4>1, <4>2 DEF Confidence
    <3> QED
      BY <3>2, <3>3
  <2>2. CASE A # {}
    <3>1. B # {}
      BY <1>1, <2>2
    <3> DEFINE p == Scam!Primary(less)
               q == Scam!Primary(more)
               n == Scam!Matches(ScamTypes[p], less)
               l == Scam!Matches(ScamTypes[p], more)
               m == Scam!Matches(ScamTypes[q], more)
    <3>2. p \in A
      BY <1>0, <2>2, PrimaryIsBest
    <3>3. l <= m
      BY <1>1, <3>1, <3>2, PrimaryIsBest
    <3>4. n \in Nat /\ l \in Nat /\ m \in Nat /\ n <= l
      BY MatchesGrow
    <3>5. /\ Scam!AnalyzeCall(less).confidence = Confidence(n)
          /\ Scam!AnalyzeCall(more).confidence = Confidence(m)
      BY <1>0, <2>2, <3>1, CallRisk
    <3> HIDE DEF n, l, m
    <3> QED
      BY <3>3, <3>4, <3>5 DEF Confidence
  <2> QED
    BY <2>1, <2>2
<1> HIDE DEF rank
<1> QED
  BY <1>6, <1>7, <1>8

Risk(p, f) == IF p > 2 \/ f > 2 THEN 2 ELSE IF p > 0 THEN 1 ELSE 0

LEMMA RiskOfCases ==
  ASSUME NEW p \in Nat, NEW f \in Nat
  PROVE  (CASE p > 2 \/ f > 2 -> 2 [] p \in 1..2 /\ f <= 2 -> 1 [] OTHER -> 0) = Risk(p, f)
<1>1. CASE p > 2 \/ f > 2
  BY <1>1 DEF Risk
<1>2. CASE ~(p > 2 \/ f > 2) /\ p > 0
  BY <1>2 DEF Risk
<1>3. CASE ~(p > 2 \/ f > 2) /\ ~(p > 0)
  BY <1>3 DEF Risk
<1> QED
  BY <1>1, <1>2, <1>3

LEMMA SourcesGrow ==
  ASSUME NEW more, IsFiniteSet(more), NEW less, less \subseteq more
  PROVE  Scam!AttributionRisk(more) >= Scam!AttributionRisk(less)
<1>1. ASSUME NEW table, IsFiniteSet(DOMAIN table)
      PROVE  /\ Cardinality(Scam!Entries(table, less)) \in Nat
             /\ Cardinality(Scam!Entries(table, more)) \in Nat
             /\ Cardinality(Scam!Entries(table, less)) <= Cardinality(Scam!Entries(table, more))
  <2>1. IsFiniteSet((DOMAIN table) \X more)
    BY <1>1, FS_Product
  <2>2. /\ Scam!Entries(table, more) \subseteq (DOMAIN table) \X more
        /\ Scam!Entries(table, less) \subseteq Scam!Entries(table, more)
    BY DEF Scam!Entries
  <2>3. IsFiniteSet(Scam!Entries(table, more))
    BY <2>1, <2>2, FS_Subset
  <2> QED
    BY <2>2, <2>3, CountsGrow
<1> DEFINE p(S) == Cardinality(Scam!Entries(Indicators, S))
           f(S) == Cardinality(Scam!Entries(IntelPatterns, S))
<1>2. /\ p(less) \in Nat /\ p(more) \in Nat /\ p(less) <= p(more)
      /\ f(less) \in Nat /\ f(more) \in Nat /\ f(less) <= f(more)
  BY <1>1, ScamTablesAssumption
<1>3. \A S : Scam!AttributionRisk(S)
               = CASE p(S) > 2 \/ f(S) > 2 -> 2 [] p(S) \in 1..2 /\ f(S) <= 2 -> 1 [] OTHER -> 0
  BY ScamCounts DEF Scam!AttributionRisk
<1> HIDE DEF p, f
<1>4. /\ Scam!AttributionRisk(less) = Risk(p(less), f(less))
      /\ Scam!AttributionRisk(more) = Risk(p(more), f(more))
  BY <1>2, <1>3, RiskOfCases
<1> QED
  BY <1>2, <1>4 DEF Risk

LEMMA MailsGrow ==
  ASSUME NEW more, IsFiniteSet(more), NEW less, less \subseteq more
  PROVE  Scam!AnalyzeEmail(more) >= Scam!AnalyzeEmail(less)
<1> DEFINE m(S) == Cardinality(S \cap Scam!MailMarks)
           c(S) == Cardinality(S \cap ContentPhrases)
<1>1. m(less) \in Nat /\ m(more) \in Nat /\ m(less) <= m(more)
  <2>1. less \cap Scam!MailMarks \subseteq more \cap Scam!MailMarks
    OBVIOUS
  <2>2. IsFiniteSet(more \cap Scam!MailMarks)
    BY FS_Subset
  <2> QED
    BY <2>1, <2>2, CountsGrow
<1>2. c(less) \in Nat /\ c(more) \in Nat /\ c(less) <= c(more)
  <2>1. less \cap ContentPhrases \subseteq more \cap ContentPhrases
    OBVIOUS
  <2>2. IsFiniteSet(more \cap ContentPhrases)
    BY FS_Subset
  <2> QED
    BY <2>1, <2>2, CountsGrow
<1>3. \A S : Scam!AnalyzeEmail(S) = m(S) + IF c(S) > 3 THEN 1 ELSE 0
  BY ScamCounts DEF Scam!AnalyzeEmail
<1> HIDE DEF m, c
<1> QED
  BY <1>1, <1>2, <1>3

Points(mark, n, marks) == IF mark \in marks THEN n ELSE 0

LEMMA PointsGrow ==
  ASSUME NEW mark, NEW n \in Nat, NEW more, NEW less, less \subseteq more
  PROVE  /\ Points(mark, n, less) \in Nat /\ Points(mark, n, more) \in Nat
         /\ Points(mark, n, less) <= Points(mark, n, more)
<1>1. CASE mark \in less
  BY <1>1 DEF Points
<1>2. CASE mark \notin less /\ mark \in more
  BY <1>2 DEF Points
<1>3. CASE mark \notin less /\ mark \notin more
  BY <1>3 DEF Points
<1> QED
  BY <1>1, <1>2, <1>3

Level(n) == IF n > 50 THEN 2 ELSE IF n > 25 THEN 1 ELSE 0

LEMMA LevelOfCases ==
  ASSUME NEW n \in Nat
  PROVE  (CASE n > 50 -> 2 [] n \in 26..50 -> 1 [] OTHER -> 0) = Level(n)
<1>1. CASE n > 50
  BY <1>1 DEF Level
<1>2. CASE ~(n > 50) /\ n > 25
  BY <1>2 DEF Level
<1>3. CASE ~(n > 50) /\ ~(n > 25)
  BY <1>3 DEF Level
<1> QED
  BY <1>1, <1>2, <1>3

LEMMA SitesGrow ==
  ASSUME NEW more, NEW less, less \subseteq more
  PROVE  Scam!AnalyzeWebsite(more) >= Scam!AnalyzeWebsite(less)
<1> DEFINE score(S) == Points("bait in domain", 30, S) + Points("long domain", 20, S)
                       + Points("suspicious tld", 40, S)
<1>1. /\ score(less) \in Nat /\ score(more) \in Nat /\ score(less) <= score(more)
  <2> DEFINE grows(mark, n) ==
               /\ Points(mark, n, less) \in Nat /\ Points(mark, n, more) \in Nat
               /\ Points(mark, n, less) <= Points(mark, n, more)
  <2>1. \A mark : \A n \in Nat : grows(mark, n)
    BY PointsGrow
  <2>2. /\ grows("bait in domain", 30) /\ grows("long domain", 20)
        /\ grows("suspicious tld", 40)
    BY <2>1
  <2>3. \A a1, a2, a3, b1, b2, b3 \in Nat :
          a1 <= b1 /\ a2 <= b2 /\ a3 <= b3
            => a1 + a2 + a3 \in Nat /\ b1 + b2 + b3 \in Nat /\ a1 + a2 + a3 <= b1 + b2 + b3
    OBVIOUS
  <2> QED
    BY <2>2, <2>3, ZenonT(30)
<1>2. \A S : Scam!AnalyzeWebsite(S)
               = CASE score(S) > 50 -> 2 [] score(S) \in 26..50 -> 1 [] OTHER -> 0
  BY DEF Scam!AnalyzeWebsite, Points
<1> HIDE DEF score
<1>3. /\ Scam!AnalyzeWebsite(less) = Level(score(less))
      /\ Scam!AnalyzeWebsite(more) = Level(score(more))
  BY <1>1, <1>2, LevelOfCases
<1> QED
  BY <1>1, <1>3 DEF Level

(* The set of marks stays finite, and the case stays about what it was.       *)
Kinds == {"call", "phone", "site", "mail", "source"}

CaseInv == IsFiniteSet(known) /\ kind \in Kinds

LEMMA CaseStart == DeskInit => CaseInv
BY FS_EmptySet DEF DeskInit, Scam!Init, CaseInv, Kinds

LEMMA CaseStep ==
  ASSUME CaseInv, [DeskNext]_deskVars
  PROVE  CaseInv' /\ kind' = kind /\ known \subseteq known'
<1>1. Scam!Next \/ UNCHANGED scam
  BY OneDeskSteps
<1>2. CASE UNCHANGED scam
  BY <1>2 DEF scam, CaseInv
<1>3. CASE Scam!FindMore
  <2>1. PICK mark : known' = known \cup {mark} /\ kind' = kind
    BY <1>3 DEF Scam!FindMore
  <2>2. IsFiniteSet(known \cup {mark})
    BY FS_AddElement DEF CaseInv
  <2> QED
    BY <2>1, <2>2 DEF CaseInv
<1>4. CASE Scam!GenerateAuthorityReport
  BY <1>4 DEF Scam!GenerateAuthorityReport, CaseInv
<1> QED
  BY <1>1, <1>2, <1>3, <1>4 DEF Scam!Next

LEMMA AssessmentsGrow ==
  ASSUME kind \in Kinds, NEW more, IsFiniteSet(more), NEW less, less \subseteq more
  PROVE  /\ Scam!Assess(more).risk >= Scam!Assess(less).risk
         /\ Scam!Assess(more).category >= Scam!Assess(less).category
<1>1. CASE kind = "call"
  <2>1. \A marks : /\ Scam!Assess(marks).risk = Scam!AnalyzeCall(marks).confidence
                   /\ Scam!Assess(marks).category
                        = Scam!CategoryRank(Scam!AnalyzeCall(marks).category)
    BY <1>1 DEF Scam!Assess
  <2> QED
    BY <2>1, CallsGrow
<1>2. CASE kind = "phone"
  <2>1. \A marks : /\ Scam!Assess(marks).risk = IF marks = {} THEN 0 ELSE 1
                   /\ Scam!Assess(marks).category = 0
    BY <1>2 DEF Scam!Assess, Scam!AnalyzePhoneNumber
  <2>2. more = {} => less = {}
    OBVIOUS
  <2> QED
    BY <2>1, <2>2
<1>3. CASE kind = "site"
  <2>1. \A marks : /\ Scam!Assess(marks).risk = Scam!AnalyzeWebsite(marks)
                   /\ Scam!Assess(marks).category = 0
    BY <1>3 DEF Scam!Assess
  <2> QED
    BY <2>1, SitesGrow
<1>4. CASE kind = "mail"
  <2>1. \A marks : /\ Scam!Assess(marks).risk = Scam!AnalyzeEmail(marks)
                   /\ Scam!Assess(marks).category = 0
    BY <1>4 DEF Scam!Assess
  <2> QED
    BY <2>1, MailsGrow
<1>5. CASE kind = "source"
  <2>1. \A marks : /\ Scam!Assess(marks).risk = Scam!AttributionRisk(marks)
                   /\ Scam!Assess(marks).category = 0
    BY <1>5 DEF Scam!Assess
  <2> QED
    BY <2>1, SourcesGrow
<1> QED
  BY <1>1, <1>2, <1>3, <1>4, <1>5 DEF Kinds

(* Finding more never calms an assessment down, although the best matching    *)
(* scam type may change on the way (core_engine/scam_fighter.py,              *)
(* core_engine/virus_guard.py).                                               *)
THEOREM MoreNeverCalmsDown == DeskSpec => MoreNeverCalms
<1>1. DeskInit => CaseInv
  BY CaseStart
<1>2. CaseInv /\ [DeskNext]_deskVars => CaseInv'
  BY CaseStep
<1>3. CaseInv /\ CaseInv' /\ [DeskNext]_deskVars
        => [/\ Scam!Assess(known').risk >= Scam!Assess(known).risk
            /\ Scam!Assess(known').category >= Scam!Assess(known).category]_(Scam!scamVars)
  <2> SUFFICES ASSUME CaseInv, CaseInv', [DeskNext]_deskVars
               PROVE  /\ Scam!Assess(known').risk >= Scam!Assess(known).risk
                      /\ Scam!Assess(known').category >= Scam!Assess(known).category
    OBVIOUS
  <2>1. IsFiniteSet(known') /\ known \subseteq known' /\ kind \in Kinds
    BY CaseStep DEF CaseInv
  <2> QED
    BY <2>1, AssessmentsGrow
<1> QED
  BY <1>1, <1>2, <1>3, PTL DEF DeskSpec, MoreNeverCalms, Scam!MoreNeverCalms
=============================================================================

----------------------------- MODULE RequestGate -----------------------------
(* What a request passes before a handler of the gateway sees it: the        *)
(* middlewares of gateway/middleware/auth.py and                             *)
(* core_engine/security/advanced.py in the order gateway/app.py stacks them  *)
(* (the last one added is the first one met): request signature, API key,    *)
(* rate limit, fingerprint, CSRF.  Time is counted in steps of 30 seconds.   *)
EXTENDS Integers, Sequences, FiniteSets

CONSTANTS Clients,
          Messages,     \* signed messages: [ts, form], ts the signer's clock
          Requests,     \* RateLimiter.requests
          Window,       \* RateLimiter.window
          Tolerance,    \* verify_request's tolerance
          NonceTTL,     \* RequestSigner.nonce_ttl
          MaxTime       \* bound: the clock stops here

Absent == -1

ASSUME LimitsAssumption ==
  /\ Requests \in Nat \ {0} /\ Window \in Nat \ {0}
  /\ Tolerance \in Nat /\ NonceTTL \in Nat /\ MaxTime \in Nat
ASSUME TTLAssumption == NonceTTL >= 2 * Tolerance
ASSUME MessagesAssumption ==
  Messages \subseteq [ts : Nat, form : {"sign_request", "verify_request"}]

VARIABLES env,       \* ENABLE_REQUEST_SIGNING and the CSRF middleware: on or off
          now,
          bucket,    \* RateLimiter._buckets: client -> times of its requests
          nonces,    \* RequestSigner.nonce_store: message -> time, or Absent
          admitted,  \* observation: client -> times the limiter let it pass
          verified,  \* observation: message -> times it was verified
          answer     \* what the last request met

gateVars == <<env, now, bucket, nonces, admitted, verified, answer>>

Init ==
  /\ env \in [signing : BOOLEAN, csrf : BOOLEAN]
  /\ now = 0
  /\ bucket = [c \in Clients |-> <<>>]
  /\ nonces = [m \in Messages |-> Absent]
  /\ admitted = [c \in Clients |-> <<>>]
  /\ verified = [m \in Messages |-> 0]
  /\ answer = "none"

---------------------------------------------------------------------------
\* What a sequence has at the positions I, in its order.
Kept(s, I) == [n \in 1..Cardinality(I) |->
                 s[CHOOSE i \in I : Cardinality({j \in I : j <= i}) = n]]

Recent_Variant(c) ==
  \* A bug: calls are forgotten one unit before they leave the window.
  Kept(bucket[c], {i \in DOMAIN bucket[c] : bucket[c][i] > now - Window + 1})

(* check drops the calls that left the window, and counts the rest.          *)
Recent(c) == Kept(bucket[c], {i \in DOMAIN bucket[c] : bucket[c][i] > now - Window})

(* RateLimiter.check: a rejected call prunes the bucket, and is not put in.  *)
Check(c) ==
  IF Len(Recent(c)) >= Requests
    THEN /\ bucket' = [bucket EXCEPT ![c] = Recent(c)]
         /\ UNCHANGED admitted
    ELSE /\ bucket' = [bucket EXCEPT ![c] = Append(Recent(c), now)]
         /\ admitted' = [admitted EXCEPT ![c] = Append(@, now)]

(* BotScorer.score in tenths: no request carries a timing score or mouse     *)
(* movements, so the highest score is 7, below the block threshold of 8.     *)
BotScore(knownAgent, noLanguage) ==
  (IF knownAgent THEN 4 ELSE 0) + (IF noLanguage THEN 2 ELSE 0) + 1

(* CSRFMiddleware verifies with a CSRFToken made for the request, whose      *)
(* secret is random: no token, generated before, is equal to the expected.   *)
CSRFVerifies == FALSE

(* The middlewares inside the rate limit, and what the request meets there.  *)
Inner(knownAgent, noLanguage, unsafe) ==
  IF BotScore(knownAgent, noLanguage) >= 8 THEN "fingerprint"
  ELSE IF env.csrf /\ unsafe /\ ~CSRFVerifies THEN "csrf"
  ELSE "handler"

(* AuthMiddleware turns nobody away, and the exempt paths skip the rest but  *)
(* the stateless fingerprint.                                                *)
ExemptPath ==
  \E a, l \in BOOLEAN :
    /\ answer' = Inner(a, l, FALSE)
    /\ UNCHANGED <<env, now, bucket, nonces, admitted, verified>>

PassLimit(c) ==
  /\ Check(c)
  /\ \E a, l, unsafe \in BOOLEAN :
       answer' = IF Len(Recent(c)) >= Requests THEN "rate limit"
                 ELSE Inner(a, l, unsafe)

UnsignedRequest ==
  \E c \in Clients :
    /\ IF env.signing
         THEN answer' = "missing signature" /\ UNCHANGED <<bucket, admitted>>
         ELSE PassLimit(c)
    /\ UNCHANGED <<env, now, nonces, verified>>

---------------------------------------------------------------------------
Fresh(m) == now - m.ts <= Tolerance /\ m.ts - now <= Tolerance

(* _cleanup_old_nonces, after the nonce of m was stored.                     *)
Remember_Variant(m) ==
  \* A bug: a nonce is forgotten once its age reaches the ttl.
  [x \in Messages |->
     IF x = m THEN now
     ELSE IF nonces[x] # Absent /\ nonces[x] <= now - NonceTTL THEN Absent
     ELSE nonces[x]]

Remember(m) ==
  [x \in Messages |->
     IF x = m THEN now
     ELSE IF nonces[x] # Absent /\ nonces[x] < now - NonceTTL THEN Absent
     ELSE nonces[x]]

(* sign_request writes "<ts>.<hmac>" with a float's own dot in ts, which     *)
(* verify_request splits at the first dot; and what it verifies is           *)
(* "<float(ts)>.<payload>", which is not what was signed for an integer ts.  *)
(* A header verifies when it was made the way verify_request reads it, and   *)
(* when the body reached the gateway as it was signed.                       *)
HMACMatches(m, intact) == m.form = "verify_request" /\ intact

(* RequestSigner.verify_request: the nonce is stored before the HMAC is      *)
(* compared, also for a message that then does not verify.                   *)
Verifies(m, intact) == Fresh(m) /\ nonces[m] = Absent /\ HMACMatches(m, intact)

VerifyRequest(m, intact) ==
  /\ nonces' = IF Fresh(m) /\ nonces[m] = Absent THEN Remember(m) ELSE nonces
  /\ verified' = IF Verifies(m, intact)
                   THEN [verified EXCEPT ![m] = @ + 1] ELSE verified

(* A message may be sent again, late, early or with its body damaged.        *)
SignedRequest ==
  \E c \in Clients, m \in Messages, intact \in BOOLEAN :
    /\ env.signing
    /\ VerifyRequest(m, intact)
    /\ IF Verifies(m, intact)
         THEN PassLimit(c)
         ELSE answer' = "bad signature" /\ UNCHANGED <<bucket, admitted>>
    /\ UNCHANGED <<env, now>>

Tick ==
  /\ now < MaxTime
  /\ now' = now + 1
  /\ UNCHANGED <<env, bucket, nonces, admitted, verified, answer>>

Next ==
  \/ ExemptPath
  \/ UnsignedRequest
  \/ SignedRequest
  \/ Tick

Spec == Init /\ [][Next]_gateVars

---------------------------------------------------------------------------
(* No window of time, wherever it starts, holds more requests of a client    *)
(* than the limit: the request that comes the limit's number of requests     *)
(* after another comes at least a window later, however rejected calls and   *)
(* pruning alternate.                                                        *)
NoWindowOverLimit ==
  \A c \in Clients :
    \A i, j \in DOMAIN admitted[c] :
      j = i + Requests => admitted[c][j] >= admitted[c][i] + Window

(* A signed message is verified once at most, however late it is repeated:   *)
(* when its nonce is forgotten its timestamp is out of tolerance, also for a *)
(* signer whose clock runs ahead.                                            *)
VerifiedOnce == \A m \in Messages : verified[m] <= 1
=============================================================================

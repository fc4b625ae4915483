------------------------- MODULE TranslationRegistry -------------------------
(* TranslationRegistry.translate of core_engine/translation/registry.py:      *)
(* concurrent requests for the same text share one backend call through the   *)
(* map of in-flight futures; a bulkhead that never queues limits the requests *)
(* that call backends; backends are tried in the order of their priority.     *)
EXTENDS Integers, FiniteSets, FiniteSetsExt

CONSTANTS
    Requests,       \* the calls of translate, each made once
    Keys,           \* cache_key: text, source and target language
    KeyOf,          \* the key each request asks for
    Backends,       \* number of backends, 1 is tried first
    Swallowing,     \* backends whose translate_raw returns a result of confidence
                    \* 0 where it fails (MTranServer, LibreTranslate); the others raise
    MaxConcurrent,  \* bulkhead_max
    None

ASSUME RegistryAssumption ==
    /\ IsFiniteSet(Requests) /\ KeyOf \in [Requests -> Keys]
    /\ Backends \in Nat \ {0} /\ Swallowing \subseteq 1..Backends
    /\ MaxConcurrent \in Nat \ {0}
    /\ None \notin Requests

VARIABLES
    cache,      \* keys the cache manager has a translation for
    in_flight,  \* _in_flight: the request whose future is registered for a key
    fut,        \* fut[r]: the future that r made as a leader
    pc,         \* pc[r]: "new", "lookup" (awaits the cache), "follow" (awaits
                \*        another's future), "call" (awaits a backend), "store"
                \*        (awaits cache.set), "done"
    follows,    \* follows[r]: whose future r awaits
    backend,    \* backend[r]: the backend r is trying
    out,        \* out[r]: what translate gave r
    slots,      \* free permits of the bulkhead
    enabled     \* backends whose config is enabled

vars == <<cache, in_flight, fut, pc, follows, backend, out, slots, enabled>>

Key(r) == KeyOf[r]
Leading == {r \in Requests : pc[r] \in {"call", "store"}}

Init == /\ cache = {}
        /\ in_flight = [k \in Keys |-> None]
        /\ fut = [r \in Requests |-> "none"]
        /\ pc = [r \in Requests |-> "new"]
        /\ follows = [r \in Requests |-> None]
        /\ backend = [r \in Requests |-> 0]
        /\ out = [r \in Requests |-> "none"]
        /\ slots = MaxConcurrent
        /\ enabled = 1..Backends

Ends(r, o) == /\ pc' = [pc EXCEPT ![r] = "done"]
              /\ out' = [out EXCEPT ![r] = o]

-----------------------------------------------------------------------------
(* The cache and the in-flight map.                                           *)

LookUp(r) ==
    /\ pc[r] = "new"
    /\ pc' = [pc EXCEPT ![r] = "lookup"]
    /\ UNCHANGED <<cache, in_flight, fut, follows, backend, out, slots, enabled>>

CacheHit(r) ==
    /\ pc[r] = "lookup"
    /\ Key(r) \in cache
    /\ Ends(r, "good")
    /\ UNCHANGED <<cache, in_flight, fut, follows, backend, slots, enabled>>

\* The key is not cached; from here to the next await is one step.
Missed(r) == pc[r] = "lookup" /\ Key(r) \notin cache

Follow(r) ==
    /\ Missed(r)
    /\ in_flight[Key(r)] # None
    /\ follows' = [follows EXCEPT ![r] = in_flight[Key(r)]]
    /\ pc' = [pc EXCEPT ![r] = "follow"]
    /\ UNCHANGED <<cache, in_flight, fut, backend, out, slots, enabled>>

\* A bug: the map is not looked at before the future is registered.
Unclaimed_Unchecked(r) == TRUE
Unclaimed(r) == in_flight[Key(r)] = None

\* Future() is made and registered, before the bulkhead is asked.
Register(r) == /\ Missed(r)
               /\ Unclaimed(r)
               /\ in_flight' = [in_flight EXCEPT ![Key(r)] = r]

\* "Translation bulkhead full" is raised before the try: the future stays
\* registered and unresolved.
RejectedFull(r) ==
    /\ Register(r)
    /\ slots = 0
    /\ fut' = [fut EXCEPT ![r] = "pending"]
    /\ Ends(r, "error")
    /\ UNCHANGED <<cache, follows, backend, slots, enabled>>

\* The enabled backend after b in the order of priority, 0 if there is none.
NextBackend(b) ==
    LET later == {x \in enabled : x > b} IN IF later = {} THEN 0 ELSE Min(later)

\* The first enabled backend is called.
Lead(r) ==
    /\ Register(r)
    /\ slots > 0 /\ NextBackend(0) # 0
    /\ slots' = slots - 1
    /\ fut' = [fut EXCEPT ![r] = "pending"]
    /\ backend' = [backend EXCEPT ![r] = NextBackend(0)]
    /\ pc' = [pc EXCEPT ![r] = "call"]
    /\ UNCHANGED <<cache, follows, out, enabled>>

\* Every backend is disabled: RuntimeError, slot and map entry taken and given
\* back within the step.
NoBackend(r) ==
    /\ Missed(r) /\ Unclaimed(r)
    /\ slots > 0 /\ NextBackend(0) = 0
    /\ fut' = [fut EXCEPT ![r] = "error"]
    /\ Ends(r, "error")
    /\ UNCHANGED <<cache, in_flight, follows, backend, slots, enabled>>

-----------------------------------------------------------------------------
(* The leader.                                                                *)

\* The finally block.
CleanUp(r) ==
    /\ slots' = slots + 1
    /\ in_flight' = [in_flight EXCEPT ![Key(r)] = None]

\* A bug: the result is returned and the future left as it is.
Resolve_Never(r, o) == UNCHANGED fut
\* `if not future.done()`: a follower may have cancelled it
Resolve(r, o) == fut' = [fut EXCEPT ![r] = IF @ = "pending" THEN o ELSE @]

\* The leader is through: future, slot, map entry, return value.
Settle(r, o) == Resolve(r, o) /\ CleanUp(r) /\ Ends(r, o)

\* A result of confidence > 0 is cached before anyone gets it.
BackendAnswers(r) ==
    /\ pc[r] = "call"
    /\ pc' = [pc EXCEPT ![r] = "store"]
    /\ UNCHANGED <<cache, in_flight, fut, follows, backend, out, slots, enabled>>

Stored(r) ==
    /\ pc[r] = "store"
    /\ cache' = cache \cup {Key(r)}
    /\ Settle(r, "good")
    /\ UNCHANGED <<follows, backend, enabled>>

\* A bug: the followers get the exception of the first backend that raises.
Raised_Early(r) ==
    LET b == NextBackend(backend[r]) IN
    IF b # 0
    THEN /\ backend' = [backend EXCEPT ![r] = b]
         /\ pc' = [pc EXCEPT ![r] = "call"]
         /\ Resolve(r, "error")
         /\ UNCHANGED <<in_flight, out, slots>>
    ELSE /\ Settle(r, "error")
         /\ UNCHANGED backend
\* An exception moves the leader on to the next backend or ends it.
Raised(r) ==
    LET b == NextBackend(backend[r]) IN
    IF b # 0
    THEN /\ backend' = [backend EXCEPT ![r] = b]
         /\ pc' = [pc EXCEPT ![r] = "call"]
         /\ UNCHANGED <<in_flight, fut, out, slots>>
    ELSE /\ Settle(r, "error")
         /\ UNCHANGED backend

StoreRaises(r) ==
    /\ pc[r] = "store"
    /\ Raised(r)
    /\ UNCHANGED <<cache, follows, enabled>>

BackendRaises(r) ==
    /\ pc[r] = "call"
    /\ backend[r] \notin Swallowing
    /\ Raised(r)
    /\ UNCHANGED <<cache, follows, enabled>>

\* The backend failed and says so only by a confidence of 0: returned, not cached.
BackendSwallows(r) ==
    /\ pc[r] = "call"
    /\ backend[r] \in Swallowing
    /\ Settle(r, "empty")
    /\ UNCHANGED <<cache, follows, backend, enabled>>

\* CancelledError is no Exception: only the finally block sees it.
LeaderCancelled(r) ==
    /\ pc[r] \in {"call", "store"}
    /\ CleanUp(r)
    /\ Ends(r, "cancelled")
    /\ UNCHANGED <<cache, fut, follows, backend, enabled>>

-----------------------------------------------------------------------------
(* Followers, and the rest of the program.                                    *)

FollowerWakes(r) ==
    /\ pc[r] = "follow"
    /\ fut[follows[r]] # "pending"
    /\ Ends(r, fut[follows[r]])
    /\ UNCHANGED <<cache, in_flight, fut, follows, backend, slots, enabled>>

\* Cancelling a task cancels the future it awaits, which others may share.
FollowerCancelled(r) ==
    /\ pc[r] = "follow"
    /\ fut[follows[r]] = "pending"
    /\ fut' = [fut EXCEPT ![follows[r]] = "cancelled"]
    /\ Ends(r, "cancelled")
    /\ UNCHANGED <<cache, in_flight, follows, backend, slots, enabled>>

\* The cache's TTL, or its eviction
Expire(k) ==
    /\ k \in cache
    /\ cache' = cache \ {k}
    /\ UNCHANGED <<in_flight, fut, pc, follows, backend, out, slots, enabled>>

\* enable_backend
EnableBackend(b, on) ==
    /\ enabled' = IF on THEN enabled \cup {b} ELSE enabled \ {b}
    /\ UNCHANGED <<cache, in_flight, fut, pc, follows, backend, out, slots>>

Begin(r) == \/ CacheHit(r) \/ Follow(r) \/ RejectedFull(r) \/ Lead(r) \/ NoBackend(r)
Answer(r) == BackendAnswers(r) \/ BackendRaises(r) \/ BackendSwallows(r)
Store(r) == Stored(r) \/ StoreRaises(r)
Cancelled(r) == LeaderCancelled(r) \/ FollowerCancelled(r)

Serve == \/ \E r \in Requests : \/ LookUp(r) \/ Begin(r) \/ Answer(r) \/ Store(r)
                                \/ FollowerWakes(r)
         \/ \E k \in Keys : Expire(k)
         \/ \E b \in 1..Backends, on \in BOOLEAN : EnableBackend(b, on)

Next == Serve \/ \E r \in Requests : Cancelled(r)

(* Cache and backends answer (the HTTP ones have timeouts), woken tasks run.  *)
Fairness == \A r \in Requests : /\ WF_vars(LookUp(r)) /\ WF_vars(Begin(r))
                                /\ WF_vars(Answer(r)) /\ WF_vars(Store(r))
                                /\ WF_vars(FollowerWakes(r))

Spec == Init /\ [][Next]_vars
FairSpec == Spec /\ Fairness
-----------------------------------------------------------------------------
Outcome == {"good", "empty", "error", "cancelled"}

\* Every variable keeps its type; in particular slots are never over-released.
TypeOK ==
    /\ cache \subseteq Keys
    /\ in_flight \in [Keys -> Requests \cup {None}]
    /\ fut \in [Requests -> Outcome \cup {"none", "pending"}]
    /\ pc \in [Requests -> {"new", "lookup", "follow", "call", "store", "done"}]
    /\ follows \in [Requests -> Requests \cup {None}]
    /\ backend \in [Requests -> 0..Backends]
    /\ out \in [Requests -> Outcome \cup {"none"}]
    /\ slots \in 0..MaxConcurrent
    /\ enabled \subseteq 1..Backends

\* "Ensure bulkhead slot is released once per request": on every way out.
SlotsConserved == slots + Cardinality(Leading) = MaxConcurrent

\* A text is being translated at most once at a time, and the map knows by whom:
\* whoever asks meanwhile finds that leader.
OneLeaderPerKey ==
    \A r \in Leading : in_flight[Key(r)] = r

(* What holds between any two steps, whoever is rejected, cancelled or fails: *)
(* the variables are well typed, no slot leaks, and a text has one leader,    *)
(* the one the map names.                                                     *)
Consistent == TypeOK /\ SlotsConserved /\ OneLeaderPerKey

\* What a follower is given is what its leader's call gave: never an outcome of
\* another text, an earlier call, or a call that was still running.
FollowersGetLeadersOutcome ==
    \A r \in Requests : follows[r] # None =>
      /\ Key(follows[r]) = Key(r)
      /\ out[r] \in {"good", "empty", "error"} =>
           fut[follows[r]] = out[r] /\ out[follows[r]] = out[r]

\* The leader of r never got to a backend, or was cancelled on its way.
Orphaned(r) == \E l \in Requests :
                 follows[r] = l /\ (backend[l] = 0 \/ out[l] = "cancelled")

\* Every follower is answered, whatever backends and cache do and however often
\* backends are switched on and off, unless its leader was rejected by the
\* bulkhead or cancelled: those leave the future unresolved.
FollowersAreAnswered ==
    \A r \in Requests : pc[r] = "follow" ~> pc[r] = "done" \/ Orphaned(r)

\* translate: "Clean up in-flight map after resolution".  A future in the map
\* belongs to a request that is being served and will resolve it.
InFlightIsServed ==
    \A k \in Keys : in_flight[k] # None => in_flight[k] \in Leading

=============================================================================

------------------------------ MODULE Observers -------------------------------
(* core_engine/telemetry: spans keep the current span and trace in one place    *)
(* per thread, so all requests of the event loop share it and may leave their   *)
(* spans in any order; histograms keep a bounded number of samples; components  *)
(* report their health.                                                         *)
EXTENDS Naturals, Sequences, FiniteSets, SequencesExt

CONSTANTS Requests,     \* each runs in one span
          Readings,     \* what histograms record
          MaxSamples,   \* 1000 in the code
          MaxRecorded,  \* bound
          Components

VARIABLES span,      \* _local.span_id, or "none" where there is no attribute
          trace,     \* _local.trace_id, likewise
          request,   \* request -> [pc, old], old: the span it found
          samples,   \* _histograms[key]
          recorded,  \* observation: every value recorded, in order
          sorted,    \* observation: histogram_stats has sorted the samples
          health     \* component -> "healthy", "degraded", or "none" before register

telemetryVars == <<span, trace, request, samples, recorded, sorted, health>>

TelemetryInit ==
  /\ span = "none" /\ trace = "none"
  /\ request = [r \in Requests |-> [pc |-> "new", old |-> "none"]]
  /\ samples = <<>> /\ recorded = <<>> /\ sorted = FALSE
  /\ health = [c \in Components |-> "none"]

SpanStart(r) ==
  /\ request[r].pc = "new"
  /\ request' = [request EXCEPT ![r] = [pc |-> "inside", old |-> span]]
  /\ span' = r
  /\ trace' = IF trace = "none" THEN r ELSE trace
  /\ UNCHANGED <<samples, recorded, sorted, health>>

SpanEnd_Variant(r) ==
  \* A bug: the attribute is deleted whether or not there was one before.
  /\ request[r].pc = "inside"
  /\ request' = [request EXCEPT ![r].pc = IF span = "none" THEN "raised" ELSE "done"]
  /\ span' = "none"
  /\ UNCHANGED <<trace, samples, recorded, sorted, health>>

(* What the span found is put back, even where that span has ended meanwhile;   *)
(* where it found none, delattr raises if there is none now.  The trace id of   *)
(* the first span stays for good.                                               *)
SpanEnd(r) ==
  /\ request[r].pc = "inside"
  /\ IF request[r].old # "none"
       THEN span' = request[r].old /\ request' = [request EXCEPT ![r].pc = "done"]
       ELSE /\ span' = "none"
            /\ request' = [request EXCEPT ![r].pc = IF span = "none" THEN "raised" ELSE "done"]
  /\ UNCHANGED <<trace, samples, recorded, sorted, health>>

(* The first sample is dropped, which after a sort is the smallest one.         *)
RecordHistogram(v) ==
  /\ Len(recorded) < MaxRecorded
  /\ recorded' = Append(recorded, v)
  /\ LET all == Append(samples, v)
     IN samples' = IF Len(all) > MaxSamples THEN Tail(all) ELSE all
  /\ UNCHANGED <<span, trace, request, sorted, health>>

HistogramStats ==
  /\ samples # <<>>
  /\ \E order \in Bijection(DOMAIN samples, DOMAIN samples) :
       /\ \A i, j \in DOMAIN samples : i < j => samples[order[i]] <= samples[order[j]]
       /\ samples' = [i \in DOMAIN samples |-> samples[order[i]]]
  /\ sorted' = TRUE
  /\ UNCHANGED <<span, trace, request, recorded, health>>

Update(c, state) ==
  /\ health' = [health EXCEPT ![c] = state]
  /\ UNCHANGED <<span, trace, request, samples, recorded, sorted>>

Clear ==
  /\ samples' = <<>> /\ recorded' = <<>> /\ sorted' = FALSE
  /\ UNCHANGED <<span, trace, request, health>>

TelemetryNext ==
  \/ \E r \in Requests : SpanStart(r) \/ SpanEnd(r)
  \/ \E v \in Readings : RecordHistogram(v)
  \/ \E c \in Components, state \in {"healthy", "degraded"} : Update(c, state)
  \/ HistogramStats \/ Clear

---------------------------------------------------------------------------
Smaller(a, b) == IF a < b THEN a ELSE b

(* However the requests of one event loop interleave, no span ends with an      *)
(* AttributeError in place of the request's own outcome; a histogram holds as   *)
(* many samples as were recorded, up to its limit, and these are the last ones  *)
(* as long as nobody has asked for its statistics.                              *)
SpansEndCleanly ==
  /\ \A r \in Requests : request[r].pc # "raised"
  /\ Len(samples) = Smaller(Len(recorded), MaxSamples)
  /\ ~sorted => IsSuffix(samples, recorded)

---------------------------------------------------------------------------
(* core_engine/integrity.py: each ecosystem is checked for what it needs;       *)
(* functions of the core may be replaced by bundled fallbacks.                  *)

CONSTANTS Critical,    \* functions of core_engine, in the order they are checked
          Fallbacks,   \* functions with a bundled fallback
          Needed,      \* other ecosystem -> modules, files and settings it needs
          MaxChecks    \* bound

VARIABLES missing,   \* what cannot be imported, opened or parsed now
          checks,    \* IntegrityGuard.checks: sequence of [item, status]
          overall,   \* "unknown", then the verdict of verify_all_ecosystems
          seen       \* observation: missing when that verdict was given

guardVars == <<missing, checks, overall, seen>>

Items == Range(Critical) \cup UNION Range(Needed)

GuardInit ==
  /\ missing = {} /\ checks = <<>> /\ overall = "unknown" /\ seen = {}

Changes(item) ==
  /\ missing' = IF item \in missing THEN missing \ {item} ELSE missing \cup {item}
  /\ UNCHANGED <<checks, overall, seen>>

(* verify_and_get: the function, its fallback, or RuntimeError.                 *)
Outcome(f) ==
  CASE f \notin missing -> "ok"
    [] f \in missing \cap Fallbacks -> "degraded"
    [] OTHER -> "failed"

VerifyAndGet(f) ==
  /\ Len(checks) < MaxChecks
  /\ checks' = Append(checks, [item |-> f, status |-> Outcome(f)])
  /\ UNCHANGED <<missing, overall, seen>>

(* _check_core_engine sees only the RuntimeError; the other checks import, and  *)
(* for skills ask for fallbacks that were never registered.                     *)
CoreFails == \E f \in Range(Critical) : Outcome(f) = "failed"
EcosystemFails(e) == Needed[e] \cap missing # {}

VerifyAllEcosystems ==
  /\ Len(checks) + Len(Critical) <= MaxChecks
  /\ checks' = checks \o [i \in DOMAIN Critical |->
                            [item |-> Critical[i], status |-> Outcome(Critical[i])]]
  /\ overall' = IF CoreFails \/ \E e \in DOMAIN Needed : EcosystemFails(e)
                  THEN "failed" ELSE "ok"
  /\ seen' = missing
  /\ UNCHANGED missing

GuardNext ==
  \/ \E item \in Items : Changes(item)
  \/ \E f \in Range(Critical) : VerifyAndGet(f)
  \/ VerifyAllEcosystems

---------------------------------------------------------------------------
(* The verdict is "ok" only where everything that was missing has a fallback,   *)
(* and then every fallback in use stands in the list of checks as degraded,     *)
(* although the verdict does not tell.                                          *)
VerdictTrue ==
  /\ overall = "ok" => seen \subseteq Fallbacks \cap Range(Critical)
  /\ overall = "failed" => ~(seen \subseteq Fallbacks)
  /\ overall # "unknown" =>
       \A f \in seen \cap Range(Critical) :
         \E i \in DOMAIN checks : checks[i].item = f /\ checks[i].status # "ok"
===============================================================================

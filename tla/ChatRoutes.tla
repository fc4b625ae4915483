----------------------------- MODULE ChatRoutes -----------------------------
(* gateway/routes/chat.py with the AnomalyDetector of core_engine/security/  *)
(* validator.py.  The hypervector pipeline is async but never suspends, so a *)
(* request is one step; only a Qwen backend suspends, after all that changes *)
(* state was done.  Time is in minutes.                                      *)
EXTENDS Integers, Sequences, FiniteSets, SequencesExt

CONSTANTS Sizes,         \* sizes of questions
          MinSample,     \* requests check_anomaly needs
          MaxRequests,   \* bound: requests the detector sees
          MaxMinutes     \* bound: the clock stops here

VARIABLES minute,
          window,    \* the detector's request_times and request_sizes
          flagged,   \* its anomaly_count
          headers,   \* answers that carried X-Anomaly
          asked      \* observation: every request it recorded

chatVars == <<minute, window, flagged, headers, asked>>

Init ==
  minute = 0 /\ window = <<>> /\ flagged = 0 /\ headers = 0 /\ asked = <<>>

---------------------------------------------------------------------------
(* |size - mean| / std > 3, in integers.                                     *)
FarFromMean(size, sizes) ==
  LET n == Len(sizes)
      sum == FoldSeq(LAMBDA s, acc : s + acc, 0, sizes)
      squares == FoldSeq(LAMBDA s, acc : s * s + acc, 0, sizes)
      variance == n * squares - sum * sum
  IN /\ variance > 0
     /\ (size * n - sum) * (size * n - sum) > 9 * variance

Deviates(size, sizes) == Len(sizes) >= MinSample /\ FarFromMean(size, sizes)

SizesOf(requests) == [i \in DOMAIN requests |-> requests[i].size]

Trimmed_Variant(requests) ==
  \* A bug: only one old request is dropped at a time.
  IF requests # <<>> /\ Head(requests).t < minute - 1 THEN Tail(requests) ELSE requests

(* record_request drops requests from the head while they are older than a   *)
(* minute.                                                                   *)
Trimmed(requests) ==
  LET old(i) == requests[i].t < minute - 1
      n == CHOOSE n \in 0..Len(requests) :
             /\ \A i \in 1..n : old(i)
             /\ n < Len(requests) => ~old(n + 1)
  IN SubSeq(requests, n + 1, Len(requests))

(* check_anomaly, then record_request: a request is not compared with itself.*)
Observe(size) ==
  LET request == [t |-> minute, size |-> size]
  IN /\ flagged' = flagged + IF Deviates(size, SizesOf(window)) THEN 1 ELSE 0
     /\ window' = Trimmed(Append(window, request))
     /\ asked' = Append(asked, request)

(* simple_chat and chat_completions observe a request before they know       *)
(* whether they can answer it: the model may be unknown or not there (400),  *)
(* inference or the knowledge file may fail (500), and then no header tells. *)
Answer ==
  \E size \in Sizes, answered \in BOOLEAN :
    /\ Len(asked) < MaxRequests
    /\ Observe(size)
    /\ headers' = headers + IF answered THEN flagged' - flagged ELSE 0
    /\ UNCHANGED minute

Tick ==
  /\ minute < MaxMinutes
  /\ minute' = minute + 1
  /\ UNCHANGED <<window, flagged, headers, asked>>

Next ==
  \/ Answer
  \/ Tick

Spec == Init /\ [][Next]_chatVars

---------------------------------------------------------------------------
\* What a sequence has at the positions I, in its order.
Kept(s, I) == [n \in 1..Cardinality(I) |->
                 s[CHOOSE i \in I : Cardinality({j \in I : j <= i}) = n]]

(* What request i is compared with: the requests of the minute before the    *)
(* request that came before it.                                              *)
Baseline(i) ==
  Kept(asked, {j \in 1..(i - 1) : asked[j].t >= asked[i - 1].t - 1})

(* The anomalies counted are the requests that deviate from the last minute  *)
(* of requests as it was when the request before them came: a burst after a  *)
(* silence is compared with one minute of the past, not with all of it.  No  *)
(* answer is marked that was not counted.                                    *)
AnomaliesOfAMinute ==
  /\ headers <= flagged
  /\ flagged = Cardinality({i \in 2..Len(asked) :
                              Deviates(asked[i].size, SizesOf(Baseline(i)))})
=============================================================================

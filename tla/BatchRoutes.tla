---------------------------- MODULE BatchRoutes -----------------------------
(* gateway/routes/batch.py.  A batch of chats never suspends and is one step;*)
(* a batch of translations runs its items concurrently behind a semaphore    *)
(* and gathers them.                                                         *)
EXTENDS Naturals, Sequences, FiniteSets

CONSTANTS Items,         \* bound: items of a batch
          Concurrency,   \* the semaphore of batch_translate
          MaxChats       \* operations a batch of chats may have

VARIABLE batch           \* the batch under way, or answered

NoBatch == [kind |-> "none", size |-> 0, continue |-> TRUE, op |-> <<>>,
            results |-> <<>>, success |-> 0, error |-> 0, answer |-> "none"]

Init == batch = NoBatch

---------------------------------------------------------------------------
(* No item of the last batch runs any more.                                  *)
Idle ==
  /\ batch.answer # "open"
  /\ \A i \in DOMAIN batch.op : batch.op[i] \in {"done", "failed"}

Refused(kind, n) == n = 0 \/ (kind = "chat" /\ n > MaxChats)

(* batch_chat: items one after the other, each fine or failing; the first    *)
(* failure ends the batch unless it is to continue.                          *)
BatchChat ==
  \E n \in 0..Items, continue \in BOOLEAN :
    \E fine \in [1..n -> BOOLEAN] :
      /\ Idle
      /\ batch' =
           [kind |-> "chat", size |-> n, continue |-> continue,
            op |-> [i \in 1..n |-> IF fine[i] THEN "done" ELSE "failed"],
            results |-> IF Refused("chat", n) THEN <<>>
                        ELSE [i \in 1..n |-> [item |-> i, ok |-> fine[i]]],
            success |-> Cardinality({i \in 1..n : fine[i]}),
            error |-> Cardinality({i \in 1..n : ~fine[i]}),
            answer |-> CASE Refused("chat", n) -> "refused"
                         [] /\ ~Refused("chat", n) /\ ~continue
                            /\ \E i \in 1..n : ~fine[i] -> "failed"
                         [] OTHER -> "whole"]

StartBatch ==
  \E n \in 0..Items, continue \in BOOLEAN :
    /\ Idle
    /\ batch' = [NoBatch EXCEPT !.kind = "translate", !.size = n,
                   !.continue = continue,
                   !.op = [i \in 1..n |-> "waiting"],
                   !.answer = IF Refused("translate", n) THEN "refused" ELSE "open"]

Thinking == {i \in DOMAIN batch.op : batch.op[i] = "thinking"}

(* The semaphore serves the items in the order gather started them.          *)
TakeSlot ==
  \E i \in DOMAIN batch.op :
    /\ batch.op[i] = "waiting"
    /\ \A j \in 1..(i - 1) : batch.op[j] # "waiting"
    /\ Cardinality(Thinking) < Concurrency
    /\ batch' = [batch EXCEPT !.op[i] = "thinking"]

ThoughtFine ==
  \E i \in Thinking :
    /\ batch' = [batch EXCEPT !.op[i] = "done",
                   !.results = Append(@, [item |-> i, ok |-> TRUE]),
                   !.success = @ + 1]

(* Without continue_on_error the exception reaches gather, which fails the   *)
(* request with the first one and leaves the other items running.            *)
ThoughtFailed_Variant ==
  \* A bug: the item's error is answered, but its result is not kept.
  \E i \in Thinking :
    /\ batch' = IF batch.continue
                  THEN [batch EXCEPT !.op[i] = "failed", !.error = @ + 1]
                  ELSE [batch EXCEPT !.op[i] = "failed", !.answer = "failed"]

ThoughtFailed ==
  \E i \in Thinking :
    /\ batch' = IF batch.continue
                  THEN [batch EXCEPT !.op[i] = "failed",
                          !.results = Append(@, [item |-> i, ok |-> FALSE]),
                          !.error = @ + 1]
                  ELSE [batch EXCEPT !.op[i] = "failed", !.answer = "failed"]

AnswerBatch ==
  /\ batch.answer = "open"
  /\ \A i \in DOMAIN batch.op : batch.op[i] \in {"done", "failed"}
  /\ batch' = [batch EXCEPT !.answer = "whole"]

Next ==
  \/ BatchChat
  \/ StartBatch
  \/ TakeSlot
  \/ ThoughtFine
  \/ ThoughtFailed
  \/ AnswerBatch

Spec == Init /\ [][Next]_batch

---------------------------------------------------------------------------
(* A batch that is answered tells of every item once, and as it ended; its   *)
(* counts are those of its results; and no batch has more translations under *)
(* way than the semaphore lets in, also while the rest of a failed batch     *)
(* runs on.                                                                  *)
BatchAccounts ==
  /\ batch.kind = "translate" => Cardinality(Thinking) <= Concurrency
  /\ batch.answer = "whole" =>
       /\ Len(batch.results) = batch.size
       /\ batch.success + batch.error = batch.size
       /\ \A i \in 1..batch.size :
            \E k \in DOMAIN batch.results :
              batch.results[k] = [item |-> i, ok |-> batch.op[i] = "done"]
       /\ batch.success = Cardinality({k \in DOMAIN batch.results : batch.results[k].ok})
=============================================================================

------------------------- MODULE BatcherRefinement -------------------------
(* The batcher keeps the promise of module ProviderQueue. *)
EXTENDS Batcher

\* What has become of an item: where its ack is, or else its DLQ record.
Fate(x) ==
  CASE x \in accepted -> "accepted"
    [] x \in unacked  -> "unacked"
    [] x \in rejected -> IF x \in unparked THEN "lost" ELSE "rejected"
    [] x \in dropped  -> "dropped"
    [] x \notin issued -> "new"
    [] OTHER -> IF x \in parked THEN "recorded"
                ELSE IF x \in unparked THEN "unrecorded" ELSE "held"

Promise ==
  INSTANCE ProviderQueue WITH
    fate <- [x \in Items |-> Fate(x)],
    mode <- IF returned THEN "closed" ELSE IF closing THEN "closing" ELSE "open"

\* Every step of the queue, the run loop, the concurrent flushes, the retry
\* timers and Close is a step a promised batcher may take: nothing is acked
\* before the DLQ had its chance, nothing is let go before Close, and nothing
\* touches the WAL or the DLQ after it.
PromiseKept == Promise!PQSpec
=============================================================================

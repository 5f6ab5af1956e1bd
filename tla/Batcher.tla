------------------------------ MODULE Batcher ------------------------------
(***************************************************************************)
(* One provider's batcher, internal/batcher: the bounded queue, the run    *)
(* loop that cuts batches by size or by linger time, up to MaxInFlight     *)
(* concurrent flushes, retries on timers, hand-over to the DLQ and the     *)
(* WAL, and Close.                                                         *)
(*                                                                         *)
(* An item is one call of Enqueue.  What the provider makes of it (accept, *)
(* reject, ask for a retry) is chosen when the flush comes to the item; an *)
(* encode error and a failed Send choose the same for a whole batch, which *)
(* is one of those choices.  Of the time since an item was first queued    *)
(* only one thing matters: whether it has reached MaxElapsed.              *)
(***************************************************************************)
EXTENDS Integers, Sequences, FiniteSets

CONSTANTS
  Items,        \* calls of Enqueue
  Cap,          \* capacity of b.in (1024)
  MaxBatch,     \* Adapter.MaxBatchSize()
  MaxInFlight,  \* defaultMaxInFlight
  Errors        \* calls that may fail: a subset of {"put", "ack"}

ASSUME BatcherAssumption ==
  /\ IsFiniteSet(Items)
  /\ Cap \in Nat \ {0} /\ MaxBatch \in Nat \ {0} /\ MaxInFlight \in Nat \ {0}
  /\ Errors \subseteq {"put", "ack"}

VARIABLES
  issued,    \* items Enqueue was called for
  entering,  \* goroutines that are in enqueue's select, by item
  in,        \* b.in
  run,       \* where the run loop is, see Stops
  pending,   \* run's pending slice
  flights,   \* the holders of sem: what each still has to resolve
  timers,    \* items that wait in time.AfterFunc
  expired,   \* items in the batcher first queued at least MaxElapsed ago
  closing,   \* closeCh is closed
  returned,  \* Close has returned
  accepted,  \* items whose Ok was acked
  rejected,  \* items whose DeadLetter was acked
  unacked,   \* items whose ack failed: the WAL keeps them
  parked,    \* items for which DLQ.Put succeeded
  unparked,  \* items for which it failed
  dropped    \* items that enqueue gave up because of Close

queueVars == <<entering, in, timers, dropped>>
runVars   == <<run, pending>>
timeVars  == <<issued, expired>>
closeVars == <<closing, returned>>
ackVars   == <<accepted, rejected, unacked>>
dlqVars   == <<parked, unparked>>
vars == <<queueVars, runVars, flights, timeVars, closeVars, ackVars, dlqVars>>

\* acquire: in flush, waiting for sem; drain, last: the same after closeCh.
Stops == {"select", "acquire", "drain", "last", "done"}

Slots == 1..MaxInFlight
Free == [stage |-> "free", todo |-> <<>>]

Init ==
  /\ issued = {} /\ entering = {} /\ in = <<>>
  /\ run = "select" /\ pending = <<>>
  /\ flights = [s \in Slots |-> Free]
  /\ timers = {} /\ expired = {} /\ closing = FALSE /\ returned = FALSE
  /\ accepted = {} /\ rejected = {} /\ unacked = {}
  /\ parked = {} /\ unparked = {} /\ dropped = {}

-----------------------------------------------------------------------------
(* Enqueue. *)

Enqueue(x) ==
  /\ x \notin issued
  /\ issued' = issued \cup {x}
  /\ entering' = entering \cup {x}
  /\ UNCHANGED <<in, timers, dropped, expired, runVars, flights, closeVars,
                 ackVars, dlqVars>>

\* Mutated: a full queue drops the item.
Enter_DropsWhenFull(x) ==
  /\ x \in entering
  /\ entering' = entering \ {x}
  /\ in' = IF Len(in) < Cap THEN Append(in, x) ELSE in
  /\ UNCHANGED <<timers, dropped, runVars, flights, timeVars, closeVars,
                 ackVars, dlqVars>>

\* case b.in <- q.  This can happen even after run has returned.
Enter(x) ==
  /\ x \in entering /\ Len(in) < Cap
  /\ entering' = entering \ {x}
  /\ in' = Append(in, x)
  /\ UNCHANGED <<timers, dropped, runVars, flights, timeVars, closeVars,
                 ackVars, dlqVars>>

\* case <-b.closeCh.
GiveUp(x) ==
  /\ x \in entering /\ closing
  /\ entering' = entering \ {x}
  /\ dropped' = dropped \cup {x}
  /\ expired' = expired \ {x}
  /\ UNCHANGED <<in, timers, runVars, flights, issued, closeVars, ackVars,
                 dlqVars>>

-----------------------------------------------------------------------------
(* The run loop. *)

\* Mutated: the batch is cut one item too late.
Receive_Late ==
  /\ run = "select" /\ in # <<>>
  /\ pending' = Append(pending, Head(in)) /\ in' = Tail(in)
  /\ run' = IF Len(pending') > MaxBatch THEN "acquire" ELSE "select"
  /\ UNCHANGED <<entering, timers, dropped, flights, timeVars, closeVars,
                 ackVars, dlqVars>>

Receive ==
  /\ run = "select" /\ in # <<>>
  /\ pending' = Append(pending, Head(in)) /\ in' = Tail(in)
  /\ run' = IF Len(pending') >= MaxBatch THEN "acquire" ELSE "select"
  /\ UNCHANGED <<entering, timers, dropped, flights, timeVars, closeVars,
                 ackVars, dlqVars>>

\* case <-timer.C: flush, which does nothing if nothing is pending; either way
\* the timer starts over, so it goes on firing.  A timer that fires while run is
\* waiting for sem is stopped and drained before the next select.
Linger ==
  /\ run = "select" /\ pending # <<>>
  /\ run' = "acquire"
  /\ UNCHANGED <<queueVars, pending, flights, timeVars, closeVars, ackVars,
                 dlqVars>>

\* sem <- struct{}{}, then the flush goroutine starts with the whole batch.
StartFlush(s) ==
  /\ run \in {"acquire", "last"} /\ flights[s] = Free
  /\ flights' = [flights EXCEPT ![s] = [stage |-> "resolve", todo |-> pending]]
  /\ pending' = <<>>
  /\ run' = IF run = "acquire" THEN "select" ELSE "done"
  /\ UNCHANGED <<queueVars, timeVars, closeVars, ackVars, dlqVars>>

SeeClose ==
  /\ run = "select" /\ closing
  /\ run' = "drain"
  /\ UNCHANGED <<queueVars, pending, flights, timeVars, closeVars, ackVars,
                 dlqVars>>

\* The inner loop after closeCh: it takes whatever is queued, without cutting
\* batches, until it finds the channel empty.
Drain ==
  /\ run = "drain"
  /\ IF in # <<>>
       THEN /\ pending' = Append(pending, Head(in)) /\ in' = Tail(in)
            /\ UNCHANGED run
       ELSE /\ run' = IF pending = <<>> THEN "done" ELSE "last"
            /\ UNCHANGED <<pending, in>>
  /\ UNCHANGED <<entering, timers, dropped, flights, timeVars, closeVars,
                 ackVars, dlqVars>>

-----------------------------------------------------------------------------
(* The flush goroutines. *)

\* A flush sends its batch and, once Adapter.Send has returned, at the latest
\* when its 30 s context ends, resolves one item after the other.
Current(s) == Head(flights[s].todo)

\* Mutated: a flush that is done does not leave sem.
Advance_HoldsSem(s) ==
  flights' = [flights EXCEPT ![s] =
                IF Len(@.todo) = 1 THEN [stage |-> "over", todo |-> <<>>]
                ELSE [stage |-> "resolve", todo |-> Tail(@.todo)]]

\* The flush is done with its current item; after the last it leaves sem.
Advance(s) ==
  flights' = [flights EXCEPT ![s] =
                IF Len(@.todo) = 1 THEN Free
                ELSE [stage |-> "resolve", todo |-> Tail(@.todo)]]

\* ack with adapter.Ok.  A failed ack is only logged.
Accept(s) ==
  /\ flights[s].stage = "resolve"
  /\ \/ accepted' = accepted \cup {Current(s)} /\ UNCHANGED unacked
     \/ "ack" \in Errors
        /\ unacked' = unacked \cup {Current(s)} /\ UNCHANGED accepted
  /\ expired' = expired \ {Current(s)}
  /\ Advance(s)
  /\ UNCHANGED <<queueVars, runVars, issued, closeVars, rejected, dlqVars>>

\* Mutated: the ack is written before the DLQ record.
DeadLetter_AckFirst(s) ==
  /\ flights[s].stage = "resolve"
  /\ rejected' = rejected \cup {Current(s)}
  /\ flights' = [flights EXCEPT ![s].stage = "ack"]
  /\ UNCHANGED <<queueVars, runVars, timeVars, closeVars, accepted, unacked,
                 dlqVars>>

\* deadLetter: DLQ.Put, whose failure is only logged, and then the ack.  The
\* provider may reject any item; one that has expired is never retried.
DeadLetter(s) ==
  /\ flights[s].stage = "resolve"
  /\ \/ parked' = parked \cup {Current(s)} /\ UNCHANGED unparked
     \/ "put" \in Errors
        /\ unparked' = unparked \cup {Current(s)} /\ UNCHANGED parked
  /\ flights' = [flights EXCEPT ![s].stage = "ack"]
  /\ UNCHANGED <<queueVars, runVars, timeVars, closeVars, ackVars>>

AckDeadLetter(s) ==
  /\ flights[s].stage = "ack"
  /\ \/ rejected' = rejected \cup {Current(s)} /\ UNCHANGED unacked
     \/ "ack" \in Errors
        /\ unacked' = unacked \cup {Current(s)} /\ UNCHANGED rejected
  /\ expired' = expired \ {Current(s)}
  /\ Advance(s)
  /\ UNCHANGED <<queueVars, runVars, issued, closeVars, accepted, dlqVars>>

\* Mutated: the retry budget is never looked at.
scheduleRetry_Forever(s) ==
  /\ flights[s].stage = "resolve"
  /\ timers' = timers \cup {Current(s)}
  /\ Advance(s)
  /\ UNCHANGED <<entering, in, dropped, runVars, timeVars, closeVars, ackVars,
                 dlqVars>>

scheduleRetry(s) ==
  /\ flights[s].stage = "resolve" /\ Current(s) \notin expired
  /\ timers' = timers \cup {Current(s)}
  /\ Advance(s)
  /\ UNCHANGED <<entering, in, dropped, runVars, timeVars, closeVars, ackVars,
                 dlqVars>>

\* The backoff is over: AfterFunc calls enqueue from a goroutine of its own.
RetryFires(x) ==
  /\ x \in timers
  /\ timers' = timers \ {x}
  /\ entering' = entering \cup {x}
  /\ UNCHANGED <<in, dropped, runVars, flights, timeVars, closeVars, ackVars,
                 dlqVars>>

Finished == accepted \cup rejected \cup unacked \cup dropped

\* MaxElapsed has passed since the item was first queued.
Expire(x) ==
  /\ x \in issued \ (Finished \cup expired)
  /\ expired' = expired \cup {x}
  /\ UNCHANGED <<issued, queueVars, runVars, flights, closeVars, ackVars,
                 dlqVars>>

-----------------------------------------------------------------------------
(* Close. *)

Close ==
  /\ ~closing
  /\ closing' = TRUE
  /\ UNCHANGED <<returned, queueVars, runVars, flights, timeVars, ackVars,
                 dlqVars>>

\* Mutated: Close waits for the run loop only.
CloseReturns_Early ==
  /\ closing /\ ~returned /\ run = "done"
  /\ returned' = TRUE
  /\ UNCHANGED <<closing, queueVars, runVars, flights, timeVars, ackVars,
                 dlqVars>>

\* b.wg.Wait() and b.flushWG.Wait().
CloseReturns ==
  /\ closing /\ ~returned
  /\ run = "done" /\ \A s \in Slots : flights[s] = Free
  /\ returned' = TRUE
  /\ UNCHANGED <<closing, queueVars, runVars, flights, timeVars, ackVars,
                 dlqVars>>

-----------------------------------------------------------------------------

Acquire == \E s \in Slots : StartFlush(s)

Flush(s) ==
  \/ Accept(s) \/ DeadLetter(s) \/ AckDeadLetter(s) \/ scheduleRetry(s)

Next ==
  \/ \E x \in Items : \/ Enqueue(x) \/ Enter(x) \/ GiveUp(x)
                      \/ RetryFires(x) \/ Expire(x)
  \/ Receive \/ Linger \/ Acquire \/ SeeClose \/ Drain
  \/ \E s \in Slots : Flush(s)
  \/ Close
  \/ CloseReturns

Spec == Init /\ [][Next]_vars

\* A select with several ready cases chooses at random, and blocked senders are
\* served in order: strong fairness for each.  Timers fire, Send is bounded by
\* its context, and the other steps are plain code: weak fairness.  Nothing
\* makes anyone call Enqueue or Close.
FairSpec ==
  /\ Spec
  /\ SF_vars(Receive) /\ SF_vars(SeeClose)
  /\ WF_vars(Linger) /\ WF_vars(Acquire) /\ WF_vars(Drain)
  /\ WF_vars(CloseReturns)
  /\ \A s \in Slots : WF_vars(Flush(s))
  /\ \A x \in Items : SF_vars(Enter(x)) /\ WF_vars(RetryFires(x))
                      /\ WF_vars(Expire(x))

-----------------------------------------------------------------------------
(* Properties. *)

TypeOK ==
  /\ issued \subseteq Items /\ entering \subseteq Items /\ in \in Seq(Items)
  /\ run \in Stops /\ pending \in Seq(Items) 
  /\ flights \in [Slots -> [stage : {"free", "resolve", "ack"},
                            todo : Seq(Items)]]
  /\ timers \subseteq Items /\ expired \subseteq Items
  /\ closing \in BOOLEAN /\ returned \in BOOLEAN
  /\ accepted \subseteq Items /\ rejected \subseteq Items
  /\ unacked \subseteq Items /\ parked \subseteq Items
  /\ unparked \subseteq Items /\ dropped \subseteq Items

\* The places an item is at.
Spots(x) ==
  {<<"in", k>> : k \in {j \in DOMAIN in : in[j] = x}} \cup
  {<<"pending", k>> : k \in {j \in DOMAIN pending : pending[j] = x}} \cup
  (UNION {{<<"flight", s, k>> : k \in {j \in DOMAIN flights[s].todo :
                                         flights[s].todo[j] = x}} : s \in Slots}) \cup
  {<<name>> : name \in {n \in {"entering", "timer", "accepted", "rejected",
                               "unacked", "dropped"} :
     CASE n = "entering" -> x \in entering [] n = "timer" -> x \in timers
       [] n = "accepted" -> x \in accepted [] n = "rejected" -> x \in rejected
       [] n = "unacked"  -> x \in unacked  [] n = "dropped"  -> x \in dropped}}

\* No item is lost or doubled on its way through the queue, the batches, the
\* concurrent flushes and the retry timers, nor by Close.
NothingLost == \A x \in issued : Cardinality(Spots(x)) = 1

\* MaxBatchSize: "the maximum number of events this provider accepts in a single
\* batch request".
BatchFits == \A s \in Slots : Len(flights[s].todo) <= MaxBatch

\* Until Close, whatever the timers and the retries do, no batch is too large.
BatchFitsUntilClose == ~closing => BatchFits

\* Close: "waits for every in-flight flush": once it has returned, nothing uses
\* the DLQ and the WAL, which the pipeline closes next.
CloseIsFinal == [][returned => UNCHANGED <<ackVars, dlqVars>>]_vars

\* Every event is resolved within its retry budget: it never gets stuck behind a
\* full queue, an armed timer or a saturated provider, unless Close comes first.
EventuallyResolved ==
  \A x \in Items :
    x \in issued ~> (x \in Finished \/ closing)

\* Close returns, even if it finds the queue and all flushes full.
CloseTerminates == closing ~> returned
=============================================================================

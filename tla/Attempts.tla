------------------------------ MODULE Attempts ------------------------------
(***************************************************************************)
(* The time line of events at one provider: how long a batcher goes on     *)
(* with an event (RetryPolicy, flush, resolve, scheduleRetry), what the    *)
(* Metronome adapter makes of an answer, and how often the provider, which *)
(* ignores an event ID only for as long as its dedup window lasts, counts  *)
(* an event.  How batches are cut and how flushes run concurrently is in   *)
(* module Batcher; here it only matters that an item waits for its Send at *)
(* most MaxWait.                                                           *)
(*                                                                         *)
(* A life of an event is one Enqueue: by a request, by ReplayPending after *)
(* a restart, or by a replay of the DLQ.  There is no clock: what has      *)
(* happened has an age, what is due has a time to wait, and Tick changes   *)
(* them all.                                                               *)
(***************************************************************************)
EXTENDS Integers, FiniteSets, Functions

CONSTANTS
  Events,
  Invalid,      \* events the provider will not take
  Settings,     \* provider sections of config files, 0 where a field is unset
  InitialBackoff, DefaultBackoff, DefaultElapsed, DefaultLinger, DefaultEvents,
  HardLimit,    \* metronome.MaxBatchSize
  QueueTime,    \* longest time in the queue, besides the linger time
  SendTimeout,  \* of the context of Send
  Late,         \* longest time from Send to the provider's taking the batch in
  Window,       \* the provider's dedup window
  MaxLives,     \* bound: lives of an event
  MaxEnqueues,  \* bound: lives of all events together
  MaxAttempts   \* bound: attempts in one life

VARIABLES
  up,      \* the process runs
  cfg,     \* its provider section, defaults applied
  item,    \* the state of each event, see Items
  life,    \* lives of each event so far
  wire,    \* what the provider may still take in
  seen,    \* age of the provider's record of each event, or None
  counts   \* history: how often it has counted each life of an event

vars == <<up, cfg, item, life, wire, seen, counts>>

-----------------------------------------------------------------------------
(* Configuration. *)

Times == [linger : Nat, maxEvents : Nat, maxElapsed : Nat, maxInterval : Nat]

\* Mutated: zero counts as set.
Default_KeepsZero(v, d) == IF v < 0 THEN d ELSE v

Default(v, d) == IF v <= 0 THEN d ELSE v

applyDefaults(s) ==
  [linger      |-> Default(s.linger, DefaultLinger),
   maxEvents   |-> Default(s.maxEvents, DefaultEvents),
   maxElapsed  |-> Default(s.maxElapsed, DefaultElapsed),
   maxInterval |-> Default(s.maxInterval, DefaultBackoff)]

\* buildAdapter and Adapter.MaxBatchSize.
MaxBatchSize(c) ==
  IF c.maxEvents <= 0 \/ c.maxEvents > HardLimit THEN HardLimit ELSE c.maxEvents

\* From (re-)entering the queue to Send.
MaxWait(c) == QueueTime + c.linger

\* The oldest an event can be at its last Send.
LastSend(c) == c.maxElapsed - 1 + c.maxInterval + MaxWait(c)

\* The dedup window has to cover all of a life, not just max_elapsed.
ASSUME AttemptsAssumption ==
  /\ IsFiniteSet(Events) /\ Invalid \subseteq Events
  /\ Settings \subseteq Times
  /\ InitialBackoff \in Nat \ {0} /\ DefaultBackoff \in Nat \ {0}
  /\ DefaultElapsed \in Nat \ {0} /\ DefaultLinger \in Nat \ {0}
  /\ DefaultEvents \in Nat \ {0} /\ HardLimit \in Nat \ {0}
  /\ QueueTime \in Nat /\ SendTimeout \in Nat /\ Late \in Nat
  /\ MaxLives \in Nat /\ MaxEnqueues \in Nat /\ MaxAttempts \in Nat
  /\ Window \in Nat
  /\ \A s \in Settings : LastSend(applyDefaults(s)) + Late <= Window

-----------------------------------------------------------------------------
(* Items. *)

None == -1

\* In the batcher, an item is queued, sending, or resting until its next try.
Active == {"queued", "sending", "resting"}
Stages == Active \cup {"new", "stored", "accepted", "rejected", "exhausted"}

\* age: time.Since(firstQueue).  wait: until the latest time for Send, the end of
\* its context, or the firing of the timer.  batch: what the item is sent with.
Items == [stage : Stages, age : Nat, attempt : Nat, wait : Nat,
          batch : SUBSET Events]

\* An item that no batcher holds.
Outside(stage) ==
  [stage |-> stage, age |-> 0, attempt |-> 0, wait |-> 0, batch |-> {}]

In(stage) == {e \in Events : item[e].stage = stage}

Init ==
  /\ up = FALSE /\ cfg \in {applyDefaults(s) : s \in Settings}
  /\ item = [e \in Events |-> Outside("new")] /\ life = [e \in Events |-> 0]
  /\ wire = {} /\ seen = [e \in Events |-> None]
  /\ counts = [e \in Events |-> [n \in 1..MaxLives |-> 0]]

Start(s) ==
  /\ ~up
  /\ up' = TRUE /\ cfg' = applyDefaults(s)
  /\ UNCHANGED <<item, life, wire, seen, counts>>

\* Everything the process had in memory is gone; the WAL keeps the events.
Crash ==
  /\ up
  /\ up' = FALSE
  /\ item' = [e \in Events |-> IF item[e].stage \in Active
                                 THEN Outside("stored") ELSE item[e]]
  /\ UNCHANGED <<cfg, life, wire, seen, counts>>

\* Batcher.Enqueue: a new event, one that ReplayPending found in the WAL, or one
\* that an operator takes out of the DLQ.
Enqueue(e) ==
  /\ up /\ life[e] < MaxLives /\ FoldFunction(+, 0, life) < MaxEnqueues
  /\ item[e].stage \in {"new", "stored", "rejected", "exhausted"}
  /\ item' = [item EXCEPT ![e] =
       [Outside("queued") EXCEPT !.wait = MaxWait(cfg)]]
  /\ life' = [life EXCEPT ![e] = @ + 1]
  /\ UNCHANGED <<up, cfg, wire, seen, counts>>

-----------------------------------------------------------------------------
(* Attempts. *)

\* The provider refuses a batch as a whole.
Takes(B) == B \cap Invalid = {} /\ Cardinality(B) <= HardLimit

\* born: the age of its life.
Message(e) == [event |-> e, life |-> life[e], attempt |-> item[e].attempt,
               born |-> item[e].age, sent |-> 0]

\* flush, up to Adapter.Send.
Send(B) ==
  /\ B # {} /\ B \subseteq In("queued") /\ Cardinality(B) <= MaxBatchSize(cfg)
  /\ item' = [e \in Events |->
       IF e \in B THEN [item[e] EXCEPT !.stage = "sending", !.batch = B,
                                       !.wait = SendTimeout]
       ELSE item[e]]
  /\ wire' = IF Takes(B) THEN wire \cup {Message(e) : e \in B} ELSE wire
  /\ UNCHANGED <<up, cfg, life, seen, counts>>

\* The provider takes an event in, and counts it unless its record of the ID is
\* still in the window.
Ingest(m) ==
  /\ m \in wire
  /\ wire' = wire \ {m}
  /\ IF seen[m.event] = None
       THEN /\ seen' = [seen EXCEPT ![m.event] = 0]
            /\ counts' = [counts EXCEPT ![m.event][m.life] = @ + 1]
       ELSE UNCHANGED <<seen, counts>>
  /\ UNCHANGED <<up, cfg, item, life>>

\* none: no answer at all, or none in time.
Answers == {"2xx", "3xx", "4xx", "429", "5xx", "none"}

\* Send returns an error for anything but 2xx, and Classify makes of it:
Classify(answer) ==
  CASE answer \in {"429", "5xx"} -> "Retry"
    [] answer = "4xx" -> "DeadLetter"
    [] OTHER -> "Retry"

\* Mutated: the delay is not cut at MaxBackoff.
backoff_Uncapped(attempt) ==
  LET d[i \in 1..attempt] ==
        IF i = 1 THEN InitialBackoff
        ELSE IF d[i - 1] < cfg.maxInterval THEN 2 * d[i - 1] ELSE d[i - 1]
  IN  0..d[attempt]

\* The delays the jitter can choose before the given attempt: from 0 to d, but
\* to MaxBackoff if d has grown beyond that.
backoff(attempt) ==
  LET d[i \in 1..attempt] ==
        IF i = 1 THEN InitialBackoff
        ELSE IF d[i - 1] < cfg.maxInterval THEN 2 * d[i - 1] ELSE d[i - 1]
  IN  {t \in 0..cfg.maxInterval : t <= d[attempt]}

\* Mutated: a retry is enqueued like a new event, with a new firstQueue.
scheduleRetry_Afresh(q, delay) ==
  [q EXCEPT !.stage = "resting", !.attempt = @ + 1, !.wait = delay,
            !.batch = {}, !.age = 0]

scheduleRetry(q, delay) ==
  [q EXCEPT !.stage = "resting", !.attempt = @ + 1, !.wait = delay,
            !.batch = {}]

\* What resolve makes of an item.
resolve(q, disposition, delay) ==
  CASE disposition = "Ok" -> Outside("accepted")
    [] disposition = "DeadLetter" -> Outside("rejected")
    [] OTHER -> IF q.age >= cfg.maxElapsed
                  THEN Outside("exhausted")
                  ELSE scheduleRetry(q, delay)

\* What the provider can have answered to batch B.
Possible(B, answer) ==
  CASE answer = "2xx" -> Takes(B) /\ ~\E m \in wire :
                           /\ m.event \in B /\ m.life = life[m.event]
                           /\ m.attempt = item[m.event].attempt
    [] answer = "4xx" -> ~Takes(B)
    [] OTHER -> TRUE

\* Send has returned: all of the batch is resolved alike.
Return(B, answer) ==
  /\ B # {} /\ \A e \in B : item[e].stage = "sending" /\ item[e].batch = B
  /\ Possible(B, answer)
  /\ \A e \in B : item[e].attempt < MaxAttempts
  /\ LET disposition == IF answer = "2xx" THEN "Ok" ELSE Classify(answer)
     IN  \E delay \in [B -> UNION {backoff(item[e].attempt + 1) : e \in B}] :
           /\ \A e \in B : delay[e] \in backoff(item[e].attempt + 1)
           /\ item' = [e \in Events |->
                IF e \in B THEN resolve(item[e], disposition, delay[e]) ELSE item[e]]
  /\ UNCHANGED <<up, cfg, life, wire, seen, counts>>

RetryFires(e) ==
  /\ item[e].stage = "resting" /\ item[e].wait = 0
  /\ item' = [item EXCEPT ![e].stage = "queued", ![e].wait = MaxWait(cfg)]
  /\ UNCHANGED <<up, cfg, life, wire, seen, counts>>

-----------------------------------------------------------------------------

\* Time passes, but not beyond what the queue, the timers and the context of
\* Send allow.  What the provider has not taken in by then, it never will, and a
\* record as old as the window is dropped.
Tick ==
  /\ \A e \in Events : item[e].stage \in Active => item[e].wait > 0
  /\ item' = [e \in Events |->
       IF item[e].stage \in Active
         THEN [item[e] EXCEPT !.age = @ + 1, !.wait = @ - 1] ELSE item[e]]
  /\ wire' = {[m EXCEPT !.born = @ + 1, !.sent = @ + 1] :
                 m \in {k \in wire : k.sent < Late}}
  /\ seen' = [e \in Events |->
       IF seen[e] \in {None, Window} THEN None ELSE seen[e] + 1]
  /\ UNCHANGED <<up, cfg, life, counts>>

Next ==
  \/ Tick \/ Crash \/ \E s \in Settings : Start(s)
  \/ \E e \in Events : Enqueue(e) \/ RetryFires(e)
  \/ \E B \in SUBSET Events : Send(B) \/ \E answer \in Answers : Return(B, answer)
  \/ \E m \in wire : Ingest(m)

Spec == Init /\ [][Next]_vars

-----------------------------------------------------------------------------
(* Properties. *)

TypeOK ==
  /\ up \in BOOLEAN
  /\ cfg \in Times /\ \A f \in DOMAIN cfg : cfg[f] > 0
  /\ item \in [Events -> Items] /\ life \in [Events -> Nat]
  /\ wire \subseteq [event : Events, life : 1..MaxLives, attempt : Nat,
                     born : Nat, sent : Nat]
  /\ seen \in [Events -> Nat \cup {None}]
  /\ counts \in [Events -> [1..MaxLives -> Nat]]

\* RetryPolicy "caps total retry duration".  The cap is not MaxElapsed: an item
\* that has not quite used it up rests and queues once more, and is then sent
\* once more.  But that is all, whatever the answers and the jitter.
ResolvedInTime ==
  \A e \in Events :
    item[e].stage \in Active => item[e].age <= LastSend(cfg) + SendTimeout

\* RetryPolicy: "below the provider's dedup window so a redelivered event can
\* never double-count".  Within one life this is so, if the window covers it.
CountedOncePerLife ==
  \A e \in Events, n \in 1..MaxLives : counts[e][n] <= 1

\* The same without the restriction to one life.  Every restart and every replay
\* starts the budget anew, so it fails for an event that waits long enough.
NeverDoubleCounted ==
  \A e \in Events, n, k \in 1..MaxLives :
    counts[e][n] > 0 /\ counts[e][k] > 0 => n = k

\* Disposition: "DeadLetter means the event cannot succeed on retry".  It fails
\* for an event that shares its batch with an invalid one.
RejectedForCause == \A e \in In("rejected") : e \in Invalid
=============================================================================

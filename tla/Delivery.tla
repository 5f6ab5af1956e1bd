------------------------------ MODULE Delivery ------------------------------
(***************************************************************************)
(* The daemon as a whole: requests come in through the receiver, are made  *)
(* durable by the WAL, fanned out by the dispatcher to one batcher per     *)
(* provider, and end at the provider or in the DLQ, from where the replay  *)
(* endpoint can bring them back.  The process crashes, shuts down and is   *)
(* started again, possibly with another configuration.                     *)
(*                                                                         *)
(* The components appear as what they promise: the WAL is the table of     *)
(* module DurableLog, the DLQ keeps an event until Remove (module DLQ),    *)
(* and a batcher loses nothing and resolves every item (module Batcher).   *)
(* What is left is how they are put together.                              *)
(*                                                                         *)
(* A pair <<e, p>> is event e as far as provider p is concerned.  A ticket *)
(* is one Enqueue of a pair, wherever it is in p's batcher.                *)
(***************************************************************************)
EXTENDS Integers, FiniteSets, SequencesExt, Intake

CONSTANTS
  Requests,    \* what clients send, by HTTP or gRPC
  Configs,     \* the configurations the daemon is started with
  Handlers,    \* goroutines that serve requests
  Cap,         \* tickets that a batcher takes before Enqueue blocks
  MaxCalls,    \* bound: requests served in one behaviour
  MaxRejects,  \* bound: how often a provider turns a pair down
  MaxStarts,   \* bound: starts of the process
  Env          \* what may happen, see Mishaps

\* crash: the process dies; stop: it is told to shut down; replay: an operator
\* replays the DLQ; full, ack, put, remove: WAL.Append, WAL.Ack, DLQ.Put or
\* DLQ.Remove fails.
Mishaps == {"crash", "stop", "replay", "full", "ack", "put", "remove"}

ASSUME DeliveryAssumption ==
  /\ IsFiniteSet(Events) /\ IsFiniteSet(Providers)
  /\ Requests \subseteq WireRequests /\ Configs \subseteq ConfigFiles
  /\ Cap \in Nat \ {0}
  /\ MaxCalls \in Nat /\ MaxRejects \in Nat /\ MaxStarts \in Nat
  /\ Env \subseteq Mishaps

Pairs == Events \X Providers

Loaded == {applyDefaults(c) : c \in Configs}

VARIABLES
  index,      \* the WAL: the providers each event still waits for
  parked,     \* the DLQ: number of a pair's latest record, 0 if it has none
  phase,      \* of the process, see Phases
  cfg,        \* its configuration, defaults applied
  boot,       \* pairs that ReplayPending has yet to enqueue
  handler,    \* what each goroutine that serves a request is at
  queued,     \* tickets a batcher holds, in its queue or in a batch
  resting,    \* tickets that wait for a retry
  acking,     \* tickets that are resolved and not yet acked in the WAL
  shut,       \* batchers that Close was called for
  delivered,  \* pairs the provider has accepted
  accepted,   \* history: pairs a client got 202 for
  rejects,    \* how often a pair was dead-lettered
  lost,       \* history: pairs given up without a record, see DeadLetter
  raced,      \* history: pairs that had to be shared, see Races
  calls, starts

diskVars   == <<index, parked>>
ticketVars == <<queued, resting, acking>>
procVars   == <<phase, cfg, boot, shut, starts>>
outVars    == <<delivered, accepted, rejects, lost, raced>>
vars == <<diskVars, ticketVars, procVars, handler, outVars, calls>>

Phases == {"down", "booting", "serving", "stopping", "draining", "closed"}
Up == Phases \ {"down"}

known == Known(cfg)

Idle == [kind |-> "idle"]

None == [x \in Pairs |-> 0]
Plus(f, x, d) == [f EXCEPT ![x] = @ + d]

\* Mutated: an event keeps its place in the queue while it waits for a retry.
Load_CountsResting(p) ==
  FoldFunctionOnSet(+, 0, queued, Events \X {p})
    + FoldFunctionOnSet(+, 0, resting, Events \X {p})

\* Tickets in p's batcher that take up room.
Load(p) == FoldFunctionOnSet(+, 0, queued, Events \X {p})

\* The pairs that entries stand for.
PairsOf(entries) ==
  {x \in Pairs : \E k \in DOMAIN entries :
                   x[1] = entries[k].event /\ x[2] \in Range(entries[k].route)}

Init ==
  /\ index = [e \in Events |-> {}] /\ parked = None
  /\ phase = "down" /\ cfg = NoConfig /\ boot = {} /\ shut = {}
  /\ handler = [h \in Handlers |-> Idle]
  /\ queued = None /\ resting = None /\ acking = None
  /\ delivered = {} /\ accepted = {} /\ rejects = None
  /\ lost = {} /\ raced = {}
  /\ calls = 0 /\ starts = 0

LoseMemory ==
  /\ phase' = "down" /\ cfg' = NoConfig /\ boot' = {} /\ shut' = {}
  /\ handler' = [h \in Handlers |-> Idle]
  /\ queued' = None /\ resting' = None /\ acking' = None

-----------------------------------------------------------------------------
(* Start: pipeline.Build.  A start that fails leaves everything as it was. *)

Pending == {x \in Pairs : x[2] \in index[x[1]]}

\* Mutated: the defaults are applied to a copy of the configuration.
Start_RawConfig(config) ==
  /\ phase = "down" /\ starts < MaxStarts /\ Builds(applyDefaults(config))
  /\ phase' = "booting" /\ cfg' = config /\ boot' = Pending
  /\ starts' = starts + 1
  /\ UNCHANGED <<diskVars, ticketVars, shut, handler, outVars, calls>>

\* Mutated: unresolved pairs are not enqueued again.
Start_NoReplay(config) ==
  /\ phase = "down" /\ starts < MaxStarts /\ Builds(applyDefaults(config))
  /\ phase' = "booting" /\ cfg' = applyDefaults(config) /\ boot' = {}
  /\ starts' = starts + 1
  /\ UNCHANGED <<diskVars, ticketVars, shut, handler, outVars, calls>>

Start(config) ==
  /\ phase = "down" /\ starts < MaxStarts /\ Builds(applyDefaults(config))
  /\ phase' = "booting" /\ cfg' = applyDefaults(config) /\ boot' = Pending
  /\ starts' = starts + 1
  /\ UNCHANGED <<diskVars, ticketVars, shut, handler, outVars, calls>>

\* Mutated: a provider that is no longer configured stops the replay.
ReplayPending_Wedges(x) ==
  /\ phase = "booting" /\ x \in boot
  /\ x[2] \in known
  /\ Load(x[2]) < Cap /\ queued' = Plus(queued, x, 1)
  /\ boot' = boot \ {x}
  /\ UNCHANGED <<diskVars, resting, acking, phase, cfg, shut, starts, handler,
                 outVars, calls>>

\* An unresolved pair is enqueued again; one whose provider is no longer
\* configured is left alone.  Enqueue blocks while the batcher is full.
ReplayPending(x) ==
  /\ phase = "booting" /\ x \in boot
  /\ IF x[2] \in known
       THEN Load(x[2]) < Cap /\ queued' = Plus(queued, x, 1)
       ELSE UNCHANGED queued
  /\ boot' = boot \ {x}
  /\ UNCHANGED <<diskVars, resting, acking, phase, cfg, shut, starts, handler,
                 outVars, calls>>

\* Mutated: the listeners are opened while the replay is still going on.
Serve_Early ==
  /\ phase = "booting"
  /\ phase' = "serving"
  /\ UNCHANGED <<diskVars, ticketVars, cfg, boot, shut, starts, handler,
                 outVars, calls>>

\* The listeners are opened once Build has returned.
Serve ==
  /\ phase = "booting" /\ boot = {}
  /\ phase' = "serving"
  /\ UNCHANGED <<diskVars, ticketVars, cfg, boot, shut, starts, handler,
                 outVars, calls>>

-----------------------------------------------------------------------------
(* Requests: Receiver.Ingest, the replay handler, and the sink they share. *)

\* The gRPC server, if there is one, is stopped after the HTTP server.
Listening(via) ==
  IF via = "http" THEN phase = "serving"
                  ELSE cfg.grpc /\ phase \in {"serving", "stopping"}

\* A request that is refused changes nothing.
Ingest(h, r) ==
  /\ Listening(r.via) /\ handler[h] = Idle /\ calls < MaxCalls
  /\ Admissible(cfg, r)
  /\ handler' = [handler EXCEPT ![h] =
       [kind |-> r.via, todo |-> Handed(cfg, r), left |-> <<>>, done |-> <<>>]]
  /\ calls' = calls + 1
  /\ UNCHANGED <<diskVars, ticketVars, procVars, outVars>>

\* POST /v1/dlq/replay: list p's records, all of them or the ones that are not
\* poisoned.  The records are remembered by number for the sake of a property.
ListRecords(h, p) ==
  /\ phase = "serving" /\ handler[h] = Idle /\ calls < MaxCalls
  /\ "replay" \in Env /\ p \in known
  /\ \E E \in SUBSET {e \in Events : parked[<<e, p>>] > 0} :
     \E order \in SetToSeqs(E) :
       handler' = [handler EXCEPT ![h] =
         [kind |-> "replay", left |-> <<>>, done |-> <<>>,
          todo |-> [k \in DOMAIN order |->
                      [event |-> order[k], route |-> <<p>>, encodes |-> TRUE,
                       record |-> parked[<<order[k], p>>]]]]]
  /\ calls' = calls + 1
  /\ UNCHANGED <<diskVars, ticketVars, procVars, outVars>>

Busy(h) == phase \in Up /\ handler[h] # Idle

\* What storing x has to share.  It displaces the providers that the event waits
\* for and that x does not name.  And a ticket of a replayed pair may still be
\* about, whose ack will count for the new entry as well.
Races(x, kind) ==
  {y \in Pending : y[1] = x.event /\ y[2] \notin Range(x.route)} \cup
  {y \in {<<x.event, p>> : p \in Range(x.route)} :
     kind = "replay" /\ queued[y] + resting[y] + acking[y] > 0}

\* walDispatchSink.Append, first half: the WAL entry, which replaces what the
\* event was still waiting for.  A pair that was given up is back in the WAL, unless
\* the ack that gives it up is still to come.
SinkAppend(h) ==
  /\ Busy(h) /\ phase # "closed"
  /\ handler[h].todo # <<>> /\ handler[h].left = <<>>
  /\ LET x == Head(handler[h].todo)
     IN  /\ x.encodes
         /\ index' = [index EXCEPT ![x.event] = Range(x.route)]
         /\ handler' = [handler EXCEPT ![h].left = x.route]
         /\ raced' = raced \cup Races(x, handler[h].kind)
         /\ lost' = {y \in lost : y \notin PairsOf(<<x>>) \/ acking[y] > 0}
  /\ UNCHANGED <<parked, ticketVars, procVars, delivered, accepted, rejects,
                 calls>>

\* Mutated: a record whose append failed is counted as replayed.
SinkAppendFails_Counts(h) ==
  /\ Busy(h) /\ handler[h].todo # <<>> /\ handler[h].left = <<>>
  /\ "full" \in Env \/ phase = "closed" \/ ~Head(handler[h].todo).encodes
  /\ handler' = [handler EXCEPT ![h] =
                   IF @.kind # "replay" THEN Idle
                   ELSE [@ EXCEPT !.todo = Tail(@),
                                  !.done = Append(@, Head(handler[h].todo))]]
  /\ UNCHANGED <<diskVars, ticketVars, procVars, outVars, calls>>

\* WAL.Append fails, because it is full or closed, or because the event cannot be
\* encoded.  Ingest gives up, with a prefix of the request stored; the
\* replay handler goes on to its next record.
SinkAppendFails(h) ==
  /\ Busy(h) /\ handler[h].todo # <<>> /\ handler[h].left = <<>>
  /\ "full" \in Env \/ phase = "closed" \/ ~Head(handler[h].todo).encodes
  /\ handler' = [handler EXCEPT ![h] =
                   IF handler[h].kind # "replay" THEN Idle
                   ELSE [handler[h] EXCEPT !.todo = Tail(handler[h].todo)]]
  /\ UNCHANGED <<diskVars, ticketVars, procVars, outVars, calls>>

\* Second half: Dispatch enqueues to one provider after the other.  A batcher
\* that was closed lets the ticket go.
Dispatch(h) ==
  /\ Busy(h) /\ handler[h].left # <<>>
  /\ LET job == handler[h]
         x == Head(job.todo)
         p == Head(job.left)
         rest == Tail(job.left)
     IN  /\ IF p \in shut
              THEN UNCHANGED queued
              ELSE Load(p) < Cap /\ queued' = Plus(queued, <<x.event, p>>, 1)
         /\ handler' = [handler EXCEPT ![h] =
              IF rest # <<>> THEN [job EXCEPT !.left = rest]
              ELSE [kind |-> job.kind, left |-> <<>>, todo |-> Tail(job.todo),
                    done |-> Append(job.done, x)]]
  /\ UNCHANGED <<diskVars, resting, acking, procVars, outVars, calls>>

\* Every entry is stored and dispatched: 202.
Accepted(h) ==
  /\ Busy(h) /\ handler[h].kind # "replay" /\ handler[h].todo = <<>>
  /\ accepted' = accepted \cup PairsOf(handler[h].done)
  /\ handler' = [handler EXCEPT ![h] = Idle]
  /\ UNCHANGED <<diskVars, ticketVars, procVars, delivered, rejects, lost, raced,
                 calls>>

\* The replay handler removes, by event ID, the records of what it re-appended.  A
\* Remove that fails may have rewritten one of the two files already.
RemoveRecords(h) ==
  /\ Busy(h) /\ handler[h].kind = "replay" /\ handler[h].todo = <<>>
  /\ \E gone \in SUBSET PairsOf(handler[h].done) :
       /\ gone = PairsOf(handler[h].done) \/ "remove" \in Env
       /\ parked' = [x \in Pairs |-> IF x \in gone THEN 0 ELSE parked[x]]
  /\ handler' = [handler EXCEPT ![h] = Idle]
  /\ UNCHANGED <<index, ticketVars, procVars, outVars, calls>>

-----------------------------------------------------------------------------
(* The batchers. *)

\* Send succeeds for the pair.
Deliver(x) ==
  /\ queued[x] > 0
  /\ delivered' = delivered \cup {x}
  /\ queued' = Plus(queued, x, -1) /\ acking' = Plus(acking, x, 1)
  /\ UNCHANGED <<diskVars, resting, procVars, handler, accepted, rejects, lost,
                 raced, calls>>

\* Mutated: the pair is acked although it has to be sent again.
Retry_Acks(x) ==
  /\ queued[x] > 0
  /\ delivered' \in {delivered, delivered \cup {x}}
  /\ queued' = Plus(queued, x, -1) /\ resting' = Plus(resting, x, 1)
  /\ acking' = Plus(acking, x, 1)
  /\ UNCHANGED <<diskVars, procVars, handler, accepted, rejects, lost, raced,
                 calls>>

\* Send asks for a retry; the provider may have taken the event all the same.
Retry(x) ==
  /\ queued[x] > 0
  /\ delivered' \in {delivered, delivered \cup {x}}
  /\ queued' = Plus(queued, x, -1) /\ resting' = Plus(resting, x, 1)
  /\ UNCHANGED <<diskVars, acking, procVars, handler, accepted, rejects, lost,
                 raced, calls>>

RetryFires(x) ==
  /\ resting[x] > 0 /\ x[2] \notin shut /\ Load(x[2]) < Cap
  /\ resting' = Plus(resting, x, -1) /\ queued' = Plus(queued, x, 1)
  /\ UNCHANGED <<diskVars, acking, procVars, handler, outVars, calls>>

\* A replay has listed the pair and not yet removed its record.
Held(x) ==
  \E h \in Handlers : /\ handler[h] # Idle /\ handler[h].kind = "replay"
                      /\ x \in PairsOf(handler[h].todo \o handler[h].done)

\* Rejected, or out of retry budget: DLQ.Put, and then the ack, even if the Put has
\* failed.  A failed Put may have purged the earlier record of the pair before; one
\* that wrote the line and could not sync it has left a record.
DeadLetter(x) ==
  /\ queued[x] > 0 /\ rejects[x] < MaxRejects
  /\ rejects' = Plus(rejects, x, 1)
  /\ \/ parked' = [parked EXCEPT ![x] = rejects[x] + 1] /\ UNCHANGED lost
     \/ /\ "put" \in Env /\ lost' = lost \cup {x}
        /\ parked' \in {parked, [parked EXCEPT ![x] = 0]}
  /\ queued' = Plus(queued, x, -1) /\ acking' = Plus(acking, x, 1)
  /\ raced' = IF Held(x) THEN raced \cup {x} ELSE raced
  /\ UNCHANGED <<index, resting, procVars, handler, delivered, accepted, calls>>

\* Mutated: an ack resolves the event for all its providers.
Ack_ForAll(x) ==
  /\ acking[x] > 0
  /\ index' = [index EXCEPT ![x[1]] = {}]
  /\ acking' = Plus(acking, x, -1)
  /\ UNCHANGED <<parked, queued, resting, procVars, handler, outVars, calls>>

\* An ack that fails is only logged; the pair stays in the WAL.
Ack(x) ==
  /\ acking[x] > 0
  /\ \/ index' = [index EXCEPT ![x[1]] = @ \ {x[2]}]
     \/ "ack" \in Env /\ UNCHANGED index
  /\ acking' = Plus(acking, x, -1)
  /\ UNCHANGED <<parked, queued, resting, procVars, handler, outVars, calls>>

-----------------------------------------------------------------------------
(* The end of the process. *)

\* A signal: the HTTP server stops listening.
Stop ==
  /\ "stop" \in Env /\ phase = "serving" /\ starts < MaxStarts
  /\ phase' = "stopping"
  /\ UNCHANGED <<diskVars, ticketVars, cfg, boot, shut, starts, handler,
                 outVars, calls>>

\* Its requests are done, or their 15 s are over and they go on unattended; now
\* the gRPC server takes no more requests either.
Drain ==
  /\ phase = "stopping"
  /\ phase' = "draining"
  /\ UNCHANGED <<diskVars, ticketVars, cfg, boot, shut, starts, handler,
                 outVars, calls>>

\* Mutated: a batcher is not closed before its retries are over.
Quiet_NoRetries(p) ==
  \A x \in Pairs : x[2] = p => queued[x] + acking[x] + resting[x] = 0

\* A closed batcher has nothing left that could touch the DLQ or the WAL.
Quiet(p) == \A x \in Pairs : x[2] = p => queued[x] = 0 /\ acking[x] = 0

\* GracefulStop has waited for the gRPC requests, however long they take.
\* Pipeline.Close: the batchers one by one, in the order of a map.
CloseBatcher(p) ==
  /\ phase = "draining" /\ p \in known \ shut
  /\ \A h \in Handlers : handler[h].kind # "grpc"
  /\ \A q \in shut : Quiet(q)
  /\ shut' = shut \cup {p}
  /\ UNCHANGED <<diskVars, ticketVars, phase, cfg, boot, starts, handler,
                 outVars, calls>>

\* Then the DLQ and the WAL.
CloseStores ==
  /\ phase = "draining" /\ shut = known /\ \A q \in known : Quiet(q)
  /\ phase' = "closed"
  /\ UNCHANGED <<diskVars, ticketVars, cfg, boot, shut, starts, handler,
                 outVars, calls>>

Exit ==
  /\ phase = "closed"
  /\ LoseMemory
  /\ UNCHANGED <<diskVars, starts, outVars, calls>>

\* The process dies, or returns from run because a server failed.
Crash ==
  /\ "crash" \in Env /\ phase \in Up /\ starts < MaxStarts
  /\ LoseMemory
  /\ UNCHANGED <<diskVars, starts, outVars, calls>>

-----------------------------------------------------------------------------

Resolve(x) == Deliver(x) \/ DeadLetter(x)

Handle(h) ==
  SinkAppend(h) \/ SinkAppendFails(h) \/ Dispatch(h) \/ Accepted(h)
    \/ RemoveRecords(h)

Next ==
  \/ \E config \in Configs : Start(config)
  \/ \E x \in Pairs : \/ ReplayPending(x) \/ Resolve(x) \/ Retry(x)
                      \/ RetryFires(x) \/ Ack(x)
  \/ Serve
  \/ \E h \in Handlers : \/ Handle(h)
                         \/ \E r \in Requests : Ingest(h, r)
                         \/ \E p \in Providers : ListRecords(h, p)
  \/ Stop \/ Drain \/ \E p \in Providers : CloseBatcher(p)
  \/ CloseStores \/ Exit \/ Crash

Spec == Init /\ [][Next]_vars

ShutDown == Drain \/ (\E p \in Providers : CloseBatcher(p)) \/ CloseStores \/ Exit

\* The main goroutine; whoever supervises the process starts it again.
Main == (\E config \in Configs : Start(config)) \/ Serve \/ ShutDown

\* A step after which the pair is nearer to its end; a retry is not one.
Progress(x) == ReplayPending(x) \/ Resolve(x) \/ Ack(x)

\* Channels serve blocked senders in turn and a batcher resolves what it was
\* given, as module Batcher shows: strong fairness.  That is so for each pair, but
\* it is enough here that some pair gets on, as there are only so many tickets.
\* Requests, signals and crashes are up to others.
FairSpec ==
  /\ Spec
  /\ WF_vars(Main)
  /\ SF_vars(\E x \in Pairs : Progress(x))
  /\ SF_vars(\E x \in Pairs : RetryFires(x))
  /\ \A h \in Handlers : SF_vars(Handle(h))

-----------------------------------------------------------------------------
(* Properties. *)

TypeOK ==
  /\ index \in [Events -> SUBSET Providers] /\ parked \in [Pairs -> Nat]
  /\ phase \in Phases /\ cfg \in {NoConfig} \cup Loaded /\ boot \subseteq Pairs
  /\ queued \in [Pairs -> Nat] /\ resting \in [Pairs -> Nat]
  /\ acking \in [Pairs -> Nat] /\ shut \subseteq known
  /\ delivered \subseteq Pairs /\ accepted \subseteq Pairs
  /\ rejects \in [Pairs -> Nat] /\ lost \subseteq Pairs /\ raced \subseteq Pairs

Resolved == delivered \cup {x \in Pairs : parked[x] > 0}

\* An event that a client got 202 for is in the WAL for every provider it was
\* routed to until that provider has it or the DLQ has: through retried and
\* half-stored requests, crashes, shutdowns and restarts.  The one exception is the
\* one that deadLetter documents, a DLQ record that could not be written.  It fails
\* for an event that is sent again and routed otherwise, as the router may after a
\* restart.
Custody == accepted \subseteq Resolved \cup Pending \cup lost

\* The same when events are routed anew and when an operator replays the DLQ, with
\* appends, acks, records and removals that fail and crashes in the middle of it,
\* for every pair that was not displaced, whose replay found no other ticket of it
\* about, and which did not fail again before the replay was done.
CustodyUnlessRaced == accepted \ raced \subseteq Resolved \cup Pending \cup lost

\* Whatever is unresolved is on its way: in a batcher, or in the hands of a
\* request that has yet to dispatch it.  Otherwise it waits for a restart.
NoOrphan ==
  phase = "serving" =>
    \A x \in Pending :
      \/ x[2] \notin known
      \/ queued[x] + resting[x] + acking[x] > 0
      \/ \E h \in Handlers : /\ handler[h] # Idle /\ handler[h].left # <<>>
                             /\ Head(handler[h].todo).event = x[1]
                             /\ x[2] \in Range(handler[h].left)

\* "an event is only garbage-collected once every target provider has acked or
\* dead-lettered it", with a record in the DLQ or after a Put that failed.
ForgottenOnlyWhenResolved ==
  [][Pending \ Pending' \subseteq Resolved \cup lost]_vars

\* "if it fails again, it'll produce a brand new DLQ record": a replay removes
\* no record that is younger than the one it has replayed.
ReplayRemovesOnlyItsOwn ==
  [][\A h \in Handlers :
       RemoveRecords(h) =>
         \A x \in Pairs : parked[x] > 0 /\ parked'[x] = 0 =>
           \E k \in DOMAIN handler[h].done :
             /\ handler[h].done[k].event = x[1]
             /\ handler[h].done[k].record = parked[x]]_vars

\* "a slow or failing provider can never head-of-line-block delivery to a
\* healthy one": a request never waits for one provider with another one, who
\* has room, still to be served.
NoHeadOfLineBlocking ==
  \A h \in Handlers :
    handler[h] # Idle /\ handler[h].left # <<>> =>
      LET p == Head(handler[h].left)
      IN  p \in known \ shut /\ Load(p) >= Cap =>
            \A q \in Range(handler[h].left) : Load(q) >= Cap

\* ReplayPending: "so nothing acked to a caller before a crash is ever silently
\* dropped".  An accepted event is delivered or parked in the end, unless its
\* DLQ record cannot be written, its provider has left the configuration, or it had
\* to be shared.
AcceptedIsResolved ==
  \A x \in Pairs :
    x \in accepted ~>
      \/ x \in Resolved \cup lost \cup raced
      \/ phase = "serving" /\ x[2] \notin known

\* ReplayPending: entries for a provider that is no longer configured do not
\* "wedge the daemon permanently across every restart".
BootCompletes == phase = "booting" ~> phase = "serving"

\* KnownProviders: an event for a provider that does not exist would be "leaving a
\* pending entry nothing can ever resolve".  Whatever clients ask for and however
\* the configuration has changed, the WAL never comes to wait for a provider
\* without a batcher.
StoredIsRoutable == [][\A x \in Pending' \ Pending : x[2] \in known]_vars

\* UnavailableError: "the caller should retry as-is".  It fails for an event that
\* the checks let through and the WAL cannot encode.
RetryCanHelp ==
  \A h \in Handlers : handler[h] # Idle =>
    \A k \in DOMAIN handler[h].todo : handler[h].todo[k].encodes

\* Every request comes to its end, with the queues it has to enter full of events
\* that are being retried, and with the daemon shutting down around it.
RequestsReturn == \A h \in Handlers : handler[h] # Idle ~> handler[h] = Idle

\* A daemon that is told to stop does so, although gRPC requests are waited for
\* without a limit, and retries are pending.
ShutdownCompletes == phase = "stopping" ~> phase = "down"
=============================================================================

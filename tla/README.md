# tallyd in TLA+

Specifications of the tallyd daemon, the TLC configurations that check them on
small instances, and TLAPS proofs of the properties that hold for every
instance. `PROJECT.json` lists components, runs, mutants, the source lines each
definition stands for, findings, hazards and theorems.

Run a configuration with `tlc -config WALCrash.cfg MCWAL`, check the proofs of
a module with `tlapm WALProofs.tla` (likewise `LogProofs`, `DLQProofs`,
`BatcherProofs`, `AttemptsProofs`, `DeliveryProofs` and `RoutingProofs`).

## The system

tallyd takes usage events over HTTP or gRPC, stores them in a write-ahead log,
forwards each to the billing providers it is routed to, and parks what a
provider will not take in a dead-letter queue.

    client -> receiver -> walDispatchSink -> WAL (fsync)
                               |
                               v
                          dispatcher -> batcher per provider -> adapter -> provider
                                             |  \
                                    retry timer  DLQ (per provider) <- replay endpoint
                                             |                              |
                                          WAL.Ack                 walDispatchSink (again)

| Component | State | Operations | Hard part |
|---|---|---|---|
| `internal/wal` | segment files; index of unresolved events; reference count and size per segment; request channel | `Append`, `Ack`, `Pending`, `TotalBytes`, `Close`; writer goroutine with group commit, rotation, reclamation; `replay` | a crash or a failing system call between any two disk operations; records and acks in different segments |
| `internal/dlq` | regular and poison file per provider; depth; attempt counts | `Open`, `Put`, `Remove`, `List`, `Depth`, `Close` | purge and append are two disk operations; memory is rebuilt from disk |
| `internal/batcher` | queue, pending batch, linger timer, up to 4 flushes, retry timers | `Enqueue`, `Close`; run loop, `flush`, `resolve`, `scheduleRetry` | everything is concurrent; retries come back through the bounded queue; Close |
| `internal/dispatcher` | none | `Dispatch`, `ReplayPending` | blocks on full queues; providers that left the configuration |
| `internal/dlqreplay` | none | list, re-append, remove | not atomic with the batchers' dead-lettering and acks |
| `internal/receiver`, `grpcserver` | none | decoding, `validate`, the router, `Ingest` | part of a request may be stored when it fails; clients retry, and may be routed otherwise the next time; two transports |
| `internal/pipeline`, `cmd/tallyd` | configuration; the composition | `LoadConfig`, `Build`, `Close`, `run` | order of start and shutdown; a changed configuration |
| `adapter/*` | none | `Encode`, `Send`, `Classify`, `MaxBatchSize` | outcomes are up to the provider, answers are lost or late |
| `status`, `dlqshow` | none | reading both DLQ files | not under one lock |
| `metrics`, `grpcapi` | counters; none | gauges; generated code | |

What makes each correct: the WAL never loses what it has accepted and never
brings back what is resolved, answers only what is durable and keeps no segment
it does not need; the DLQ keeps what it was given, in one file, with counts that
match the disk; a batcher neither loses nor doubles an item and resolves each;
the whole keeps an accepted event in the WAL until the provider or the DLQ has
it, stores nothing that cannot be resolved, and the provider counts an event
once.

## Modules

| Module | What it is |
|---|---|
| `WAL` | `internal/wal`: writer, rotation, reclamation, replay, callers, crashes and I/O errors |
| `DurableLog` | what the WAL promises: a table with atomic calls |
| `WALRefinement` | the mapping from `WAL` to `DurableLog` |
| `WALProofs` | theorems about `WAL`: types, durability of answers, reference counts |
| `LogProofs` | theorems about `WAL`: what the records say and what the index holds; extends `WALProofs` |
| `DLQ`, `DLQProofs` | `internal/dlq` for one provider, and theorems about it |
| `Batcher` | `internal/batcher` for one provider |
| `ProviderQueue` | what a batcher promises: a fate for each item |
| `BatcherRefinement` | the mapping from `Batcher` to `ProviderQueue` |
| `BatcherProofs` | theorems about `Batcher`, and that it implements `ProviderQueue` |
| `Attempts` | the attempts to deliver events to one provider, in time: retry policy, Metronome adapter, dedup window |
| `AttemptsProofs` | theorems about `Attempts` |
| `Intake` | configuration, transports, validation and routing, as operators |
| `Delivery` | the daemon: receiver, sink, dispatcher, replay endpoint, start, shutdown; extends `Intake`, the components above as what they promise |
| `DeliveryProofs`, `RoutingProofs` | theorems about `Delivery`: types and custody; routing and orphans |
| `MCWAL`, `MCDLQ`, `MCBatcher`, `MCAttempts`, `MCDelivery` | constants for TLC |

Operators named `Def_Something` are mutants: `Def` with a plausible mistake in
it. `PROJECT.json` pairs each property with the mutant that breaks it.

### WAL

A segment's bytes are a set of *frames*, each with its segment, its kind, its
event and providers and its position `at`. Positions stand for (segment,
offset). A partly written frame has kind `torn`; `Decoded` is what
`decodeRecords` returns, everything before the first torn frame of each file
(not modelled: a tail of zeroes, for which it does not stop but panics, because
eight zero bytes are an empty body with a matching checksum, record.go:69).
`synced` is the position up to which a power loss takes nothing. The index
`w.index` is `pending` and `segSeq`; an entry exists when `pending[e]` is not
empty, because the code deletes an entry with its last provider and the
receiver refuses events without a provider.

`commitBatch` holds `w.mu`, so nobody sees its steps, but a crash can come
between them: one action per frame (`WriteFrame`, with the rotation it may
need), `RotateFails`, `FinalSync`, one per applied request (`ApplyRequest`), one
per reclaimed segment (`GcSegment`), `EndBatch`. `replay` is `Open`, one
`ReplayRecord` per record, `CountReferences`, `ReclaimAtStart`, `StartWriter`.
A caller is `CallAppend` or `CallAck`, then `Send`, then waits. `nextSeq` is
not a variable: the code keeps it one above the active segment. `DrainBatch`
takes what is in the channel at once; the code takes requests one by one and
catches those that are sent meanwhile (wal.go:397), so that its batches can be
longer than the channel. The model has those that fit.

`Env` names what may go wrong. A power loss keeps some prefix of the unsynced
frames (in order; no reordering of writes within a file), a kill keeps the page
cache. The sync in `Close` may fail like any other (wal.go:372), and `WriterExits`
then leaves frames in the page cache only. `owed` is a history variable: what callers were promised by a nil return
and nobody has since asked to clear. `handed` is the environment of the WAL:
batchers ack only what they were given.

### DLQ

A file is a set of lines, a line an event and an attempt number. `op` is the
`Put` or `Remove` that holds `d.mu`, cut into steps where the disk changes. An
undecodable line puts its file in `torn`. A line that lacks only its newline is
counted as torn at once, although the code notices at the next append.
`AttemptsCoverDisk` is what justifies sets: no line is ever written twice.

`reader` is a request that reads both files, as the DLQ page, the status page
and a replay with `include_poison` do: `List`, then `ListPoison`, with anything
in between. `due` remembers what was parked at both times.

### Batcher

An item is one `Enqueue`. `run` is where the run loop is, `flights` the holders
of the semaphore with what they still have to resolve. The outcome of `Send` is
chosen item by item, which includes the code's three cases (encode error, failed
send, per-event results). Of time only `expired` is kept. Timers are Go 1.23
timers (go.mod asks for 1.26): `Stop` on a fired timer drains its channel, so
the `<-timer.C` at batcher.go:212 does not block. The linger timer may fire in
any select with something pending.

`ProviderQueue` gives each item a fate. Its `Settle` lists the ways an item may
go, with the DLQ record before the ack; `lost` can only follow a failed `Put`.

### Attempts

Here time is explicit, and the queue is not. There is no clock: an item has an
age (`time.Since(firstQueue)`) and a time to wait for its next step, a message
to the provider the age of its life and the time since it was sent, the
provider's record of an event ID its age. `Tick` changes all of them and cannot
pass a deadline, so an item that is due is dealt with first. The assumptions
about durations are constants: an item is sent at most `QueueTime` plus the
linger time after it entered the queue, `Send` returns within `SendTimeout`, and
the provider takes a batch in at most `Late` after it was sent, which may be
after `Send` gave up. A life is one `Enqueue`. The provider (`Takes`, `Ingest`,
`Possible`) is external: it refuses a batch as a whole, answers what it likes,
and counts an event it has no record of.

### Intake

A configuration is a record of what `Build` looks at, a request a transport and
a sequence of events. Names, IDs and customers are abstracted to whether all are
there, timestamps to the cases `validate` and the encodings tell apart:
`absent`, `past`, `future`, and `ancient`, a time before the year 0, which a
protobuf timestamp can express and `time.Time.MarshalJSON` refuses. On this
abstraction `toEvents` and `decodeEvents` are the same function, apart from the
bodies that JSON cannot express (`Decodes`); that both transports let the same
requests in is therefore part of the model and not a result.

### Delivery

A pair is an event as far as one provider is concerned, a ticket one `Enqueue`
of it. The WAL is the table `index` (justified by `ImplementsDurableLog`), the
DLQ the number of each pair's latest record, a batcher the counts `queued`,
`resting` (retry timers) and `acking` (resolved, ack not yet durable; justified
by `PromiseKept`).

`DLQ.Put` may fail, and `deadLetter` acks the event all the same: "a failed DLQ
write isn't fatal" (batcher.go:321-324). `lost` collects the pairs given up that way,
which the WAL is about to forget with no record in the DLQ, until the event is
stored anew. `Custody`, `CustodyUnlessRaced`, `ForgottenOnlyWhenResolved` and
`AcceptedIsResolved` allow for these pairs; `PromiseKept` says of the batcher that
an item is given up so only after its `Put` has failed.

Requests and replays share the steps of `walDispatchSink.Append`: `SinkAppend`, then
`Dispatch` once per provider. `Dispatch`'s error for an unknown provider cannot
occur, because `Ingest` and the replay handler check first and the configuration
does not change while the process runs. A batcher that is being closed drops
tickets (`shut`); entering its queue before the drain is the same as entering it
before `Close`.

A request that is refused changes nothing and is no step. `Start` takes any of
`Configs` that `Builds`; a start that fails leaves everything as it was. A
signal stops the HTTP server (`Stop`); while its requests have their 15 s the
gRPC server still listens; then (`Drain`) it takes no more, and the batchers are
closed once its requests are done, with HTTP requests possibly still about.
`raced` collects the pairs whose custody a replay or a resend puts at risk
(`Races`, `Held`), in the ways listed under further deviations.

## Runs

Passing:

| Run | Shows |
|---|---|
| `wal_crash` | with clean restarts and power losses at every step: accepted events survive, counts are exact, the index is what a restart would rebuild, the oldest file is one that a restart needs; `WAL` implements `DurableLog` |
| `wal_errors` | failing fsync (that of `Close` too), write, rotation, unlink, with power losses and no clean restarts: nothing is answered that is not durable, nothing accepted is lost |
| `wal_live` | every fault, torn frames and kills included: replay agrees with the readable records; a queued request is answered, by the drain of `Close` if need be |
| `dlq_faults` | crashes, torn lines and I/O errors: parked events stay, one home per event, counters cover the disk, a reader of both files misses nothing |
| `batcher` | nothing lost or doubled, batches fit, Close is final; every item is resolved, Close returns; `Batcher` implements `ProviderQueue` |
| `attempts` | a life ends within `LastSend` plus `SendTimeout`, and is counted once if the dedup window covers it; defaults leave no duration at zero |
| `delivery_crash` | custody of accepted events end to end with two concurrent requests, a full WAL and DLQ records that cannot be written; no orphans, nothing forgotten before it is resolved or given up, nothing stored for a provider without a batcher |
| `delivery_replay` | two events through a queue of one, replayed one or both at a time, with everything that can fail: custody of every pair that did not have to be shared; accepted events are resolved or given up in the end, requests return, no shutdown gets stuck, and no start, although the queue is too small for what it replays or the provider is gone |

Violations, each with a finding in `PROJECT.json`:

| Run | What the code does |
|---|---|
| `wal_torn` | appends after a torn frame, so later accepted events cannot be read back |
| `dlq_torn` | one torn line and the daemon no longer starts |
| `delivery_displaced` | a replay for one provider drops the event's entry for another |
| `delivery_fresh_record` | a replay's Remove deletes the record of a newer failure |

### Further deviations

The following statements of the code's comments are also refuted by TLC, with
the property as the only one of the named configuration and the constants
changed as given. They are not runs of their own, because each has a narrower
effect than the four above. The MC modules keep the environments they need.

| Property | Where | Constants | What the code does |
|---|---|---|---|
| `AcceptedSurvives` | `WALTorn.cfg` | `Env <- KillEnv` | a killed process leaves a superseding record or an ack unsynced; `replay` removes the older segment because of it (wal.go:214) and a power loss then takes the newer one; wal.go:2-4 promises that an accepted event survives |
| `AcceptedSurvives` | `WALTorn.cfg` | `Env <- CloseEnv` | the same after an orderly shutdown whose last sync failed (wal.go:372): `Close` returns the error and main.go:266 exits with it, and the next start reclaims all the same |
| `IndexMatchesLog` | `WALTorn.cfg` | `Env <- UnlinkEnv` | `gcSegments` goes on after a failed `os.Remove` (wal.go:527) and deletes the segment with the ack, so a resolved event comes back; wal.go:513-515 says the two go together |
| `TotalBytesExact` | `WALTorn.cfg` | `Env <- RestartEnv` | rotated segments count as empty after a restart (wal.go:201), so `max_bytes` admits too much; wal.go:287-289 says "across every segment" |
| `DepthExact` | `DLQFaults.cfg` | `Env <- SyncEnv` | a line whose fsync failed stays in the file and is not counted (dlq.go:184); it holds with `Env <- CrashEnv` |
| `AttemptsCumulative` | `DLQFaults.cfg` | `Env <- NoEnv` | `Remove` takes the only record of an event's attempts with it (dlq.go:95), so a replayed event that fails after a restart is counted from zero; dlq.go:38-41 says "across the DLQ's whole history" |
| `BatchFits` | `Batcher.cfg` | | the drain at Close makes one batch of everything (batcher.go:223) |
| `Custody` | `DeliveryFreshRecord.cfg` | `MaxStarts = 2`, `Env <- CrashReplayEnv` | a replay between the DLQ record and the ack of the old failure has its new WAL entry resolved by that ack (batcher.go:329) |
| `Custody` | `DeliveryCrash.cfg` | `Requests <- Dual` | an event is accepted for two providers, the daemon is restarted with rules that route it to one, and the client sends it again: the new WAL entry replaces the old one (wal.go:280) and the other provider is forgotten, although its entry was to stay pending (dispatcher.go:60-62); receiver.go:133-135 calls sending again safe |
| `RetryCanHelp` | `DeliveryCrash.cfg` | | a gRPC event with a timestamp before the year 0 passes `validate` and cannot be encoded by `WAL.Append` (wal.go:250), so the client is told `Unavailable` for ever; receiver.go:76-77 says "transient" |
| `NeverDoubleCounted` | `Attempts.cfg` | | `firstQueue` is set at every start and every replay (batcher.go:143), so an event is still being sent after the dedup window of its first attempt has passed; batcher.go:49-51 says it "can never double-count" |
| `RejectedForCause` | `Attempts.cfg` | | a 4xx answer to a batch dead-letters all of it as permanent failures (metronome.go:163), the valid events too; replayed in one batch, they become poison; adapter.go:16 says such an event "cannot succeed on retry" |
| `NoHeadOfLineBlocking` | `DeliveryDisplaced.cfg` | `Cap = 1`, `Env <- NoEnv` | a full queue of the first provider holds up the ones after it (dispatcher.go:45); dispatcher.go:1-3 says it never does |

`SoftCap` (racing appends overshoot `max_bytes` by less than one event per
further caller) holds with `Env <- NoEnv`, `Routes <- OneRoute`, `MaxBytes = 5`
and six frames, and fails with restarts because of the `TotalBytes` deviation.
`OldestFileIsNeeded` does not hold where unlinking fails or frames are torn: a
file that could not be removed, or that nothing can be read from, stays until
the next start. The code does not promise more (wal.go:527).

### Bounds

- WAL: 2 events, 2 providers, 2 callers, 4 frames (3 in `wal_live`). A segment holds an event
  and an ack or less (3 bytes; an event frame has 2, an ack 1), so four frames
  make up to three segments: enough for an event, its ack and a superseding
  record in different segments and for a middle segment that could be freed out
  of order. Batches of two already rotate half-way. Symmetry in all three sets,
  except in `wal_live`, which checks liveness; there the channel holds one
  request and the cap refuses a third event.
- DLQ: 2 events, 4 puts each, the code's thresholds; each event passes both.
- Batcher: 3 items, a queue of 1, batches and slots of 2: the queue is full
  with a flush under way, two flushes and a retry run at once, and the drain
  finds more than a batch.
- Attempts: 2 events, one of which the provider will not take, 2 lives each (3
  in all), 2 attempts in a life, all durations 1 or 2, and a dedup window of 5,
  exactly what the longer of the two configurations needs.
- Delivery: queues of 1, so that requests, retries and the replay at start block
  on each other. `delivery_crash` has 2 events, 2 providers, 2 handlers and 2
  calls, and no shutdowns. `delivery_replay` checks liveness, which is the costly
  part: 2 events for one provider and one handler, so that a request and a replay
  take turns while the batcher runs; a replay of two records stores both, one or
  none of them, and is the request that outlives the HTTP server. The
  configurations of `delivery_crash` are a full one, one that has lost a provider
  and its rule, and four that `Build` refuses, for each of its reasons; in
  `delivery_replay` there is one provider or none. The requests include, between
  the runs, one for each reason to refuse it. Two starts make one crash or
  shutdown, followed by everything a fresh process can do. `CustodyUnlessRaced`
  alone was also checked on a larger instance, in which an event fails a second
  time while the replay of the other goes on, or is sent again for another
  provider: `SPECIFICATION Spec`, `Providers = {p1, p2}`, `Handlers = {h1, h2}`,
  `Requests <- Rerouted`, `Configs <- AnyConfig` and `MaxRejects = 2` (3.6
  million states).

`CHECK_DEADLOCK FALSE` is set where a behaviour may end: a bound is used up, the
cap refuses everything, the process was closed for good, or the DLQ cannot be
opened.

### Fairness

- WAL: weak fairness of the writer goroutine, which is sequential code. Nothing
  is assumed of callers, of Close, of the environment or of a restart.
- DLQ (`dlq_torn`): the daemon is restarted when it is down, and the operation
  that holds the lock goes on.
- Batcher: a select with several ready cases chooses at random, and blocked
  senders are served in order, hence strong fairness for the receiving cases and
  each sender; timers fire and `Send` is bounded by its context, hence weak
  fairness for the rest.
- Delivery: weak fairness of the main goroutine, of its being restarted included
  (with a configuration that builds); strong fairness of handlers, of retries
  coming back, and of progress (`Progress`: a pair is enqueued at start,
  resolved or acked). `batcher` shows as much for each item; for all of them
  together is weaker, and enough as long as `MaxCalls` and `MaxStarts` bound the
  tickets. Requests, signals and crashes are up to others.

## Proofs

The theorems hold for all values of the constants that satisfy the named
assumptions and, where no hypothesis says otherwise, for every `Env`. Each rests
on an inductive invariant; TLC checked those on the instances of the runs before
they were proved.

### WAL (`WALProofs`, `LogProofs`)

- `TypeCorrect`: `TypeOK`. It needs `CallersOK` and `BatchOK`: a caller
  that is not idle has a request, and the batch consists of such callers,
  otherwise `commitBatch` could be at no request at all.
- `DurableAnswers`: `AnsweredOnlyWhenDurable`. `DurableInv` adds that every
  position in the batch is at most `tail` (so that a sync, which moves `synced`
  to `tail`, covers it) and speaks of the write loop too, where a rotation
  settles earlier frames.
- `CountsExact`: `RefCountExact`. `SegmentsInv` adds that frames are in files
  that exist, that an entry's segment is tracked or older than every tracked
  one, and that nothing is above the active segment, so that the segment a
  rotation creates is new and starts at zero.
- `ReplayIsExact`: `ReplayExact`. `OrderInv` says that positions are distinct and
  follow the order of the segments, `ReplayInv` that the index is what the
  records read so far say (`Indexed`). `Indexed` also says that an entry refers to
  the segment of the last event record of its event. Two lemmas carry the
  argument here and in the theorems below: a record after all others changes the
  index as `apply` does (`IndexedAdd`), and the oldest segment can go once no entry
  refers to it (`IndexedDrop`), because the records that the deleted ones would
  clear are older still, hence in the same segment.
- `AcceptedSurvive`: `AcceptedSurvives`, if nothing is torn; if there are not both
  kills and power losses; and if there are not clean restarts, failing syncs and
  power losses all at once. Failing writes, rotations and removals are allowed in
  any case. `OwedInv` says that what is owed to a provider is in a record that no
  later record clears, that no power loss can take away, and that pins its
  segment. It needs `ClaimInv` (no call in flight would clear what is owed),
  `BatchInv` (a slot that did not fail has its frame in the log, and the frames
  after it belong to later slots, so that applying an older slot promises nothing
  that a newer frame has already cleared) and `SyncedInv` (a process that is gone
  left nothing unsynced that a power loss can take once the next one has read
  it). The code needs all three hypotheses: `wal_torn` and the first two rows of
  the deviations refute the property without them.
- `IndexMatches`: `IndexMatchesLog`, with restarts, kills and power losses but no
  I/O errors. `AppliedInv` says that the index is what the applied records say, and
  that the positions of the slots still to be applied increase and come after
  those. With I/O errors the property is false, see the deviations.
- `OldestNeeded`: `OldestFileIsNeeded`, in the same environments. The reference
  counts say which entries an old segment pins (`CountsExact`), `AppliedInv` that
  such an entry stands for an unresolved record in that segment, and since it is
  the last event record of its event, without the file the event would be
  resolved.

### DLQ (`DLQProofs`)

- `TypeCorrect`: `TypeOK`.
- `SoleHome`, `CountsCoverDisk`: `PoisonIsSoleHome` and `AttemptsCoverDisk`.
  `HomeInv` says that poison lines have at least `PermanentThreshold`
  attempts, that a running `Put` carries a higher number than any line of its
  event, and that a poisoned one has purged the regular file before it appends.
  The assumption that the thresholds differ by at most one is needed: with a
  larger gap an event that was poisoned by a permanent failure could be filed as
  a regular one by an exhausted retry.
- `ParkedKept`: `ParkedIsKept`. `ParkedInv` adds that what a running
  `Remove` takes away is not parked, and that an event whose `Put` is under way
  is not parked either, so that a purge is no loss.
- `ReaderComplete`: `ReaderMissesNothing`. `ReaderInv` says what a reader can
  count on after its first read for every event that was parked and not in the
  regular file: it has reached `PermanentThreshold`, hence a `Put` that runs for
  it goes to the poison file, and as long as it is parked it has a poison line.
  This is why the order of the two reads matters: an event only ever moves from
  the regular to the poison file.

### Batcher (`BatcherProofs`)

- `TypeCorrect`, `BatchesFit` and `CloseIsFinalHolds`: `TypeOK`,
  `BatchFitsUntilClose` and the action property `CloseIsFinal`. `ShapeInv` says how
  full the batch is where the run loop is, that a holder of the semaphore has
  something left to resolve, and that once Close has returned nobody is left.
- `NothingLostHolds`: `NothingLost`. `PlaceInv` says that an item that was
  enqueued is in exactly one place and there once. Every step moves one item from
  one place to another, or a whole batch from the pending list to a free flight.
- `PromiseHolds`: the batcher implements `ProviderQueue`. `Recorded` says that an
  item has a DLQ record, or failed to get one, exactly from its `Put` to its ack;
  with it the fate of an item determines which steps the promise allows.

### Attempts (`AttemptsProofs`)

- `TypeCorrect`: `TypeOK`; in particular no duration in use is zero.
- `ResolvedInTimeHolds`: `ResolvedInTime`. The bound itself is not inductive, as
  the budget is looked at only when an attempt has failed. `OnTime` gives each
  stage its own deadline: for the timer, the start of Send and its end.
- `CountedOnceHolds`: `CountedOncePerLife`. `Counted` says that while anything of a
  counted life can still arrive, the provider has its record, and that is no older
  than the life; `WireInTime` bounds how late a batch arrives. The assumption on
  `Window` is that it covers the last Send of every configuration and the delay of
  a late batch. batcher.go:49-51 asks for a retry duration below the window; the
  duration that counts is `LastSend`, somewhat more than `max_elapsed`.

### Delivery (`DeliveryProofs`, `RoutingProofs`)

- `TypeCorrect`: `TypeOK`, with `HandlersOK` and `ProcessOK`.
- `CustodyHolds`: `CustodyUnlessRaced`. `Kept` says of each pair that nothing
  raced with: it is in safe hands as soon as a request has stored it, not only when
  the client is answered; it is resolved, or given up with a failed `Put`, before
  its ack; and for a replay, which will remove the DLQ record, that record does
  not count. A pair that was given up and is stored anew is no longer `lost`,
  except while the ack that gives it up is still to come.
- `RoutableHolds`: the action property `StoredIsRoutable`. `RoutesInv`: what a
  request still has to store is for providers of the running configuration.
- `NothingOrphaned`: `NoOrphan`, if no ack fails (an entry whose ack failed waits
  for the next start; batcher.go:311 only logs it). `OrphanInv` adds the pairs that wait
  for `ReplayPending` during boot.
- `CustodyWhenRoutedAlike`, `ForgottenWhenRoutedAlike`: `Custody` and the action
  property `ForgottenOnlyWhenResolved`, if the DLQ is not replayed and every
  configuration routes an event to the same providers. Then no pair is ever raced
  (`AlikeInv`), and a `Put` that fails is the only way to lose one. The instance of `delivery_crash` satisfies both hypotheses; the
  deviations and `delivery_displaced` show that neither can be left out.

### Only model-checked

`ImplementsDurableLog`: a crash of `DurableLog` applies the calls it cuts off in
some order, a fold over a sequence of any length, about which the prover would
need induction over data. Everything about liveness, because fairness is out of
the prover's reach: `QueuedIsAnswered`, `EventuallyResolved`,
`CloseTerminates`, `AcceptedIsResolved`, `BootCompletes`, `RequestsReturn` and
`ShutdownCompletes`. The violated properties are counterexamples, not
theorems.

## Not modelled

Formats and checksums beyond "intact or not", YAML parsing, the adapters' wire
formats and the stdout adapter, metrics and gauges, the command-line clients,
generated code. Directory entries are durable at once, and a failed fsync leaves
the data in the page cache; what file systems do differs. Hazards without a
property carry a note in `PROJECT.json`.

## Plan

1. Done: `WAL` with `DurableLog`, `DLQ` with its readers, `Batcher` with
   `ProviderQueue`, `Attempts`, `Intake` and `Delivery`; theorems for every
   invariant and every safety action property that a passing run checks, and for
   the refinement of `Batcher`.
2. The refinement of `DurableLog`, if its crash can be stated without a fold; the
   steps other than a crash should follow from `ReplayIsExact` and `IndexMatches`.
3. An abstract DLQ that `DLQ` implements, so that all three stores and queues of
   `Delivery` are justified alike.

-------------------------------- MODULE WAL --------------------------------
(***************************************************************************)
(* The segmented write-ahead log of internal/wal: the group-commit writer, *)
(* segment rotation and in-order reclamation, per-provider acks, replay at *)
(* start-up, and the crashes and I/O errors they have to cope with.        *)
(*                                                                         *)
(* The bytes of a segment file are abstracted to a set of FRAMES.  A frame *)
(* carries the segment it is in and its append position `at', which stands *)
(* for (segment, offset): positions only grow, and a newer segment holds   *)
(* only larger positions.  A frame that was only partly written is kept    *)
(* with kind "torn"; decodeRecords stops at the first of those in a file.  *)
(*                                                                         *)
(* commitBatch runs under w.mu, so no other goroutine sees its steps; they *)
(* are separate actions because the process can die between any two.       *)
(***************************************************************************)
EXTENDS Integers, Sequences, FiniteSets

LOCAL INSTANCE Functions

CONSTANTS
  Events,           \* event IDs
  Providers,        \* provider names
  Routes,           \* the provider sets an Append may name
  Callers,          \* goroutines that call Append or Ack
  EventBytes,       \* length of an event frame
  AckBytes,         \* length of an ack frame
  MaxSegmentBytes,  \* rotation threshold (w.maxSegmentBytes)
  MaxBytes,         \* size cap (w.maxBytes); 0 means unlimited
  ChanCap,          \* capacity of w.writeCh (256 in Open)
  MaxFrames,        \* bound: frames written in one behaviour
  Env               \* what the environment may do to the log, see Hazards

(***************************************************************************)
(* restart   the process is started again after a clean Close              *)
(* powerloss unsynced frames are lost from some point on; the rest is safe *)
(* kill      the process dies; its unsynced writes stay in the page cache  *)
(* tear      a failed write or a power loss leaves a partial frame behind  *)
(* sync, rotate, write, unlink: the system call fails                      *)
(***************************************************************************)
Hazards == {"restart", "powerloss", "kill", "tear",
            "sync", "rotate", "write", "unlink"}

ASSUME WALAssumption ==
  /\ Routes \subseteq (SUBSET Providers) \ {{}}
  /\ IsFiniteSet(Events)
  /\ EventBytes \in Nat \ {0} /\ AckBytes \in Nat \ {0}
  /\ MaxSegmentBytes \in Nat /\ MaxBytes \in Nat
  /\ ChanCap \in Nat \ {0} /\ MaxFrames \in Nat
  /\ Env \subseteq Hazards

VARIABLES
  frames,    \* every frame in the segment files, page cache included
  files,     \* sequence numbers of the segment files that exist
  tail,      \* append position of the last frame ever written
  synced,    \* frames up to this position are on stable storage
  pc,        \* where the process is, see Phases
  pos,       \* replay: position of the last frame replayed
  pending,   \* w.index: the providers that have not resolved an event
  segSeq,    \* w.index: the segment that holds an unresolved event's frame
  segments,  \* w.segments: the segments this process tracks
  active,    \* the last of them
  size,      \* segment.size
  refCount,  \* segment.refCount
  open,      \* the active segment's file handle is usable
  st,        \* how far each caller is in submit
  req,       \* the request it submits
  writeCh,   \* w.writeCh
  closed,    \* w.closed
  batch,     \* commitBatch: the callers whose requests are being committed
  slot,      \* commitBatch: writeErrs, synced and segSeqs of the batch
  i,         \* commitBatch: index of the request being handled
  handed,    \* event/provider pairs the dispatcher has enqueued
  owed       \* history: what the callers have been promised, see Submit

diskVars   == <<frames, files, tail, synced>>
indexVars  == <<pending, segSeq>>
segVars    == <<segments, active, size, refCount, open>>
callVars   == <<st, req, writeCh, closed>>
commitVars == <<batch, slot, i>>
envVars    == <<handed, owed>>
vars == <<diskVars, pc, pos, indexVars, segVars, callVars, commitVars, envVars>>

-----------------------------------------------------------------------------
(* Data. *)

\* An ack names one provider; an event names the providers it is routed to.
Requests ==
  [kind : {"event"}, event : Events, providers : Routes] \cup
  [kind : {"ack"}, event : Events, providers : {{p} : p \in Providers}]

Frames == [at : Nat, seg : Nat, kind : {"event", "ack", "torn"},
           event : Events, providers : SUBSET Providers]

Phases == {"down", "replay", "reclaim", "idle", "write", "apply", "exited"}
Running == {"idle", "write", "apply"}

NoRequest == [kind |-> "none"]

Bytes(kind) == IF kind = "event" THEN EventBytes ELSE AckBytes

\* After this request or frame, provider p no longer waits for its event: an
\* ack of p, or an event record that supersedes the entry without naming p.
Clears(r, p) == IF r.kind = "event" THEN p \notin r.providers
                                    ELSE p \in r.providers

\* The records decodeRecords returns, over all segments: in each file, what
\* comes before the first frame whose length or checksum does not match.
Decoded ==
  {f \in frames : /\ f.kind # "torn"
                  /\ \A g \in frames :
                       g.kind = "torn" /\ g.seg = f.seg => f.at < g.at}

\* Mutated: a duplicate event record adds to the entry it should replace.
PendingAfter_Merges(r) ==
  [pending EXCEPT ![r.event] = IF r.kind = "event" THEN @ \cup r.providers
                                                   ELSE @ \ r.providers]

\* The same step on w.index as replay takes it and as req.apply takes it.
PendingAfter(r) ==
  [pending EXCEPT ![r.event] = IF r.kind = "event" THEN r.providers
                                                   ELSE @ \ r.providers]

SegSeqAfter(r, seg) ==
  [segSeq EXCEPT ![r.event] = IF r.kind = "event" THEN seg ELSE @]

\* Unresolved entries whose event record is in segment s.
Pinned(s) == {e \in Events : pending[e] # {} /\ segSeq[e] = s}

\* increfSegment and decrefSegment: no effect if the segment is not tracked.
Adjust(rc, s, d) == [t \in DOMAIN rc |-> IF t = s THEN rc[t] + d ELSE rc[t]]
increfSegment(rc, s) == Adjust(rc, s, 1)
decrefSegment(rc, s) == Adjust(rc, s, -1)

\* What req.apply does to the counts, for a frame that landed in segment seg: a
\* superseded entry and a resolved one release the segment of their record.
RefCountAfter_Pins(r, seg) ==   \* Mutated: a superseded entry is not released.
  IF r.kind = "event" THEN increfSegment(refCount, seg)
  ELSE IF pending[r.event] # {} /\ pending[r.event] \subseteq r.providers
         THEN decrefSegment(refCount, segSeq[r.event])
         ELSE refCount

\* Mutated: the first provider's ack releases the segment for all of them.
RefCountAfter_FirstAck(r, seg) ==
  LET rc == IF pending[r.event] # {} THEN decrefSegment(refCount, segSeq[r.event])
                                     ELSE refCount
  IN  IF r.kind = "event" THEN increfSegment(rc, seg) ELSE rc

RefCountAfter(r, seg) ==
  LET released == /\ pending[r.event] # {}
                  /\ r.kind = "event" \/ pending[r.event] \subseteq r.providers
      rc == IF released THEN decrefSegment(refCount, segSeq[r.event])
                        ELSE refCount
  IN  IF r.kind = "event" THEN increfSegment(rc, seg) ELSE rc

\* Mutated: any segment that pins no event may go, whatever its position.
Reclaimable_AnyOrder(seg) == seg \in segments \ {active} /\ refCount[seg] = 0

\* seg is the first in w.segments, is not the active one and pins no event.
Reclaimable(seg) ==
  /\ seg \in segments \ {active}
  /\ \A t \in segments : seg <= t
  /\ refCount[seg] = 0

\* Mutated: the bookkeeping of a reclaimed segment is kept.
Untrack_KeepsCounts(seg) ==
  /\ segments' = segments \ {seg}
  /\ UNCHANGED <<refCount, size>>

Untrack(seg) ==
  /\ segments' = segments \ {seg}
  /\ refCount' = [t \in segments \ {seg} |-> refCount[t]]
  /\ size' = [t \in segments \ {seg} |-> size[t]]

Unlink(seg) ==
  /\ files' = files \ {seg}
  /\ frames' = {f \in frames : f.seg # seg}

-----------------------------------------------------------------------------
(* Start-up: Open and replay. *)

Init ==
  /\ frames = {} /\ files = {} /\ tail = 0 /\ synced = 0
  /\ pc = "down" /\ pos = 0
  /\ pending = [e \in Events |-> {}] /\ segSeq = [e \in Events |-> 0]
  /\ segments = {} /\ active = 0 /\ open = FALSE
  /\ size = [s \in {} |-> 0] /\ refCount = [s \in {} |-> 0]
  /\ st = [c \in Callers |-> "idle"] /\ req = [c \in Callers |-> NoRequest]
  /\ writeCh = <<>> /\ closed = FALSE
  /\ batch = <<>> /\ slot = <<>> /\ i = 1
  /\ handed = {} /\ owed = [e \in Events |-> {}]

\* The process ends and takes its memory with it.
LoseMemory ==
  /\ pos' = 0
  /\ pending' = [e \in Events |-> {}] /\ segSeq' = [e \in Events |-> 0]
  /\ segments' = {} /\ active' = 0 /\ open' = FALSE
  /\ size' = [s \in {} |-> 0] /\ refCount' = [s \in {} |-> 0]
  /\ st' = [c \in Callers |-> "idle"] /\ req' = [c \in Callers |-> NoRequest]
  /\ writeCh' = <<>> /\ closed' = FALSE
  /\ batch' = <<>> /\ slot' = <<>> /\ i' = 1
  /\ handed' = {}

Open ==
  /\ pc = "down" \/ (pc = "exited" /\ "restart" \in Env)
  /\ pc' = "replay"
  /\ LoseMemory
  /\ UNCHANGED <<diskVars, owed>>

\* Mutated: the segments are read in whatever order the directory lists them.
ReplayRecord_AnyOrder(f) ==
  /\ pc = "replay"
  /\ f \in Decoded /\ pos < f.at
  /\ pending' = PendingAfter(f)
  /\ segSeq' = SegSeqAfter(f, f.seg)
  /\ pos' = f.at
  /\ UNCHANGED <<diskVars, pc, segVars, callVars, commitVars, envVars>>

\* One iteration of replay's loop over the records of all segments.
ReplayRecord(f) ==
  /\ pc = "replay"
  /\ f \in Decoded /\ pos < f.at
  /\ \A g \in Decoded : pos < g.at => f.at <= g.at
  /\ pending' = PendingAfter(f)
  /\ segSeq' = SegSeqAfter(f, f.seg)
  /\ pos' = f.at
  /\ UNCHANGED <<diskVars, pc, segVars, callVars, commitVars, envVars>>

\* Mutated: every event record counts, even one whose acks came later.
CountReferences_IgnoresAcks ==
  /\ pc = "replay"
  /\ \A f \in Decoded : f.at <= pos
  /\ pc' = "reclaim"
  /\ segments' = files
  /\ refCount' = [s \in files |-> Cardinality({f \in Decoded :
                                             f.kind = "event" /\ f.seg = s})]
  /\ size' = [s \in files |-> 0]
  /\ IF files = {} THEN active' = 0
                   ELSE active' \in files /\ \A s \in files : s <= active'
  /\ UNCHANGED <<diskVars, pos, indexVars, open, callVars, commitVars, envVars>>

\* The reference counts are computed once the acks of every segment have been
\* seen.  The size of a segment other than the active one is left at zero.
CountReferences ==
  /\ pc = "replay"
  /\ \A f \in Decoded : f.at <= pos
  /\ pc' = "reclaim"
  /\ segments' = files
  /\ refCount' = [s \in files |-> Cardinality(Pinned(s))]
  /\ size' = [s \in files |-> 0]
  /\ IF files = {} THEN active' = 0
                   ELSE active' \in files /\ \A s \in files : s <= active'
  /\ UNCHANGED <<diskVars, pos, indexVars, open, callVars, commitVars, envVars>>

\* replay removes fully resolved segments from the front, as gcSegments does.
ReclaimAtStart(seg) ==
  /\ pc = "reclaim"
  /\ Reclaimable(seg)
  /\ Untrack(seg)
  /\ Unlink(seg)
  /\ UNCHANGED <<tail, synced, pc, pos, indexVars, active, open, callVars,
                 commitVars, envVars>>

\* Unlike gcSegments, replay gives up if a segment cannot be removed.
ReclaimAtStartFails(seg) ==
  /\ pc = "reclaim" /\ "unlink" \in Env
  /\ Reclaimable(seg)
  /\ pc' = "down"
  /\ LoseMemory
  /\ UNCHANGED <<diskVars, owed>>

\* What os.Stat reports for segment s.
FileBytes(s) ==
  EventBytes * Cardinality({f \in frames : f.seg = s /\ f.kind = "event"})
    + AckBytes * Cardinality({f \in frames : f.seg = s /\ f.kind # "event"})

\* Pending's snapshot, as event/provider pairs.
Pending == {x \in Events \X Providers : x[2] \in pending[x[1]]}

\* Reopen the last segment, or create the first; then the writer starts, and
\* Build has the dispatcher enqueue whatever Pending returns.
StartWriter ==
  /\ pc = "reclaim"
  /\ \A s \in segments : ~Reclaimable(s)
  /\ pc' = "idle"
  /\ open' = TRUE
  /\ IF segments = {}
       THEN /\ segments' = {0} /\ files' = {0}
            /\ size' = [s \in {0} |-> 0] /\ refCount' = [s \in {0} |-> 0]
       ELSE /\ size' = [size EXCEPT ![active] = FileBytes(active)]
            /\ UNCHANGED <<segments, files, refCount>>
  /\ handed' = Pending
  /\ UNCHANGED <<frames, tail, synced, pos, indexVars, active, callVars,
                 commitVars, owed>>

-----------------------------------------------------------------------------
(* The callers: Append, Ack and submit. *)

InFlight == {c \in Callers : st[c] # "idle"}

TotalBytes == SumFunction(size)

\* `owed' is what the outside world may rely on.  An event is owed to a
\* provider from the moment Append returns nil until a request that would
\* clear it is made: from then on either outcome is legitimate.
Submit(c, r) ==
  /\ pc \in Running /\ ~closed
  /\ st[c] = "idle"
  /\ tail + Cardinality(InFlight) < MaxFrames
  /\ st' = [st EXCEPT ![c] = "send"]
  /\ req' = [req EXCEPT ![c] = r]
  /\ owed' = [owed EXCEPT ![r.event] = {p \in @ : ~Clears(r, p)}]
  /\ UNCHANGED <<diskVars, pc, pos, indexVars, segVars, writeCh, closed,
                 commitVars, handed>>

\* TotalBytes takes w.mu, which commitBatch holds until it is done.
CallAppend(c, r) ==
  /\ r.kind = "event"
  /\ MaxBytes > 0 => (pc = "idle" /\ TotalBytes + EventBytes <= MaxBytes)
  /\ Submit(c, r)

\* A batcher resolves only what it was given; it may do so more than once.
CallAck(c, r) ==
  /\ r.kind = "ack"
  /\ \A p \in r.providers : <<r.event, p>> \in handed
  /\ Submit(c, r)

\* w.writeCh <- req, which blocks while the channel is full.
Send(c) ==
  /\ pc \in Running \cup {"exited"}
  /\ st[c] = "send" /\ Len(writeCh) < ChanCap
  /\ st' = [st EXCEPT ![c] = "wait"]
  /\ writeCh' = Append(writeCh, c)
  /\ UNCHANGED <<diskVars, pc, pos, indexVars, segVars, req, closed,
                 commitVars, envVars>>

-----------------------------------------------------------------------------
(* The writer goroutine: drainBatch and commitBatch. *)

DrainBatch ==
  /\ pc = "idle" /\ writeCh # <<>>
  /\ pc' = "write"
  /\ batch' = writeCh /\ writeCh' = <<>>
  /\ slot' = <<>> /\ i' = 1
  /\ UNCHANGED <<diskVars, pos, indexVars, segVars, st, req, closed, envVars>>

NeedsRotation(r) == size[active] + Bytes(r.kind) > MaxSegmentBytes

\* A sync that succeeds makes every frame written so far durable.
Settle(sl) ==
  [j \in DOMAIN sl |-> IF sl[j].verdict = "written"
                         THEN [verdict |-> "synced", seg |-> sl[j].seg,
                               at |-> sl[j].at]
                         ELSE sl[j]]

Failed == [verdict |-> "failed", seg |-> 0, at |-> 0]

\* How active.append can end: with the whole frame, part of it or none of it
\* in the file.  Writing to a handle that rotate closed fails at once.
Writes(rot) == {h \in {"whole", "part", "none"} :
                  CASE h = "whole" -> open
                    [] h = "part"  -> open /\ {"write", "tear"} \subseteq Env
                    [] h = "none"  -> (open /\ "write" \in Env) \/ ~(open \/ rot)}

\* One iteration of commitBatch's write loop, in which rotate succeeds or is
\* not needed.  A frame is appended after at most one rotation, whatever its
\* length.  rotate syncs the old segment before it creates the next one.
WriteFrame(how) ==
  /\ pc = "write" /\ i <= Len(batch)
  /\ LET r    == req[batch[i]]
         rot  == NeedsRotation(r)
         seg  == IF rot THEN active + 1 ELSE active
         kind == IF how = "part" THEN "torn" ELSE r.kind
         grow == IF how = "none" THEN 0 ELSE Bytes(kind)
     IN  /\ how \in Writes(rot)
         /\ active' = seg
         /\ segments' = segments \cup {seg}
         /\ files' = files \cup {seg}
         /\ size' = [s \in segments \cup {seg} |->
                       (IF s \in segments THEN size[s] ELSE 0)
                         + (IF s = seg THEN grow ELSE 0)]
         /\ refCount' = [s \in segments \cup {seg} |->
                           IF s \in segments THEN refCount[s] ELSE 0]
         /\ synced' = IF rot THEN tail ELSE synced
         /\ IF how = "none"
              THEN UNCHANGED <<frames, tail>>
              ELSE /\ tail' = tail + 1
                   /\ frames' = frames \cup
                        {[at |-> tail + 1, seg |-> seg, kind |-> kind,
                          event |-> r.event, providers |-> r.providers]}
         /\ slot' = Append(IF rot THEN Settle(slot) ELSE slot,
                           IF how = "whole"
                             THEN [verdict |-> "written", seg |-> seg,
                                   at |-> tail + 1]
                             ELSE Failed)
  /\ i' = i + 1
  /\ UNCHANGED <<pc, pos, indexVars, open, callVars, batch, envVars>>

\* Mutated: the entries before a failed rotation are taken to be durable.
RotateFails_Settles(afterSync) ==
  /\ pc = "write" /\ i <= Len(batch)
  /\ NeedsRotation(req[batch[i]])
  /\ IF afterSync THEN open /\ "rotate" \in Env ELSE ~open \/ "rotate" \in Env
  /\ synced' = IF afterSync THEN tail ELSE synced
  /\ open' = (open /\ ~afterSync)
  /\ slot' = Append(Settle(slot), Failed)
  /\ i' = i + 1
  /\ UNCHANGED <<frames, files, tail, pc, pos, indexVars, segments, active,
                 size, refCount, callVars, batch, envVars>>

\* rotate fails, either before or after its sync.  In the second case the old
\* segment stays last in w.segments with a closed handle, and every further
\* use of it fails until the process is restarted.
RotateFails(afterSync) ==
  /\ pc = "write" /\ i <= Len(batch)
  /\ NeedsRotation(req[batch[i]])
  /\ IF afterSync THEN open /\ "rotate" \in Env ELSE ~open \/ "rotate" \in Env
  /\ synced' = IF afterSync THEN tail ELSE synced
  /\ open' = (open /\ ~afterSync)
  /\ slot' = Append(slot, Failed)
  /\ i' = i + 1
  /\ UNCHANGED <<frames, files, tail, pc, pos, indexVars, segments, active,
                 size, refCount, callVars, batch, envVars>>

\* Mutated: an error of the final sync is dropped.
FinalSync_DropsError(ok) ==
  /\ pc = "write" /\ i = Len(batch) + 1
  /\ IF ok THEN open ELSE ~open \/ "sync" \in Env
  /\ synced' = IF ok THEN tail ELSE synced
  /\ slot' = Settle(slot)
  /\ pc' = "apply" /\ i' = 1
  /\ UNCHANGED <<frames, files, tail, pos, indexVars, segVars, callVars, batch,
                 envVars>>

\* finalSyncErr := active.sync().
FinalSync(ok) ==
  /\ pc = "write" /\ i = Len(batch) + 1
  /\ IF ok THEN open ELSE ~open \/ "sync" \in Env
  /\ synced' = IF ok THEN tail ELSE synced
  /\ slot' = IF ok THEN Settle(slot)
             ELSE [j \in DOMAIN slot |->
                     IF slot[j].verdict = "written" THEN Failed ELSE slot[j]]
  /\ pc' = "apply" /\ i' = 1
  /\ UNCHANGED <<frames, files, tail, pos, indexVars, segVars, callVars, batch,
                 envVars>>

\* What Append promises by returning nil to caller c, given the requests that
\* other callers have made in the meantime.
Promised(c, r) ==
  {p \in r.providers :
     \A d \in InFlight \ {c} : req[d].event = r.event => ~Clears(req[d], p)}

\* The second loop of commitBatch: apply a durable request, then answer it.
ApplyRequest ==
  /\ pc = "apply" /\ i <= Len(batch)
  /\ LET c == batch[i]
         r == req[c]
         s == slot[i]
     IN  /\ IF s.verdict = "synced"
              THEN /\ pending' = PendingAfter(r)
                   /\ segSeq' = SegSeqAfter(r, s.seg)
                   /\ refCount' = RefCountAfter(r, s.seg)
              ELSE UNCHANGED <<indexVars, refCount>>
         /\ IF s.verdict = "synced" /\ r.kind = "event"
              THEN /\ handed' = handed \cup ({r.event} \X r.providers)
                   /\ owed' = [owed EXCEPT ![r.event] = Promised(c, r)]
              ELSE UNCHANGED envVars
         /\ st' = [st EXCEPT ![c] = "idle"]
         /\ req' = [req EXCEPT ![c] = NoRequest]
  /\ i' = i + 1
  /\ UNCHANGED <<diskVars, pc, pos, segments, active, size, open, writeCh,
                 closed, batch, slot>>

\* gcSegments, one segment at a time, at the end of commitBatch.
GcSegment(seg) ==
  /\ pc = "apply" /\ i > Len(batch)
  /\ Reclaimable(seg)
  /\ Untrack(seg)
  /\ \/ Unlink(seg)
     \/ "unlink" \in Env /\ UNCHANGED <<files, frames>>
  /\ UNCHANGED <<tail, synced, pc, pos, indexVars, active, open, callVars,
                 commitVars, envVars>>

EndBatch ==
  /\ pc = "apply" /\ i > Len(batch)
  /\ \A s \in segments : ~Reclaimable(s)
  /\ pc' = "idle"
  /\ batch' = <<>> /\ slot' = <<>> /\ i' = 1
  /\ UNCHANGED <<diskVars, pos, indexVars, segVars, callVars, envVars>>

-----------------------------------------------------------------------------
(* Close, and the ways a process can end without it. *)

Close ==
  /\ pc \in Running /\ ~closed
  /\ closed' = TRUE
  /\ UNCHANGED <<diskVars, pc, pos, indexVars, segVars, st, req, writeCh,
                 commitVars, envVars>>

\* Mutated: writerLoop returns at once, with requests left in the channel.
WriterExits_NoDrain ==
  /\ pc = "idle" /\ closed
  /\ pc' = "exited"
  /\ synced' = IF open THEN tail ELSE synced
  /\ UNCHANGED <<frames, files, tail, pos, indexVars, segVars, callVars,
                 commitVars, envVars>>

\* writerLoop returns once it finds the channel empty; Close syncs the active
\* segment.  If that fails, what an earlier failed sync has left in the page cache
\* stays there, for the next process to read.
WriterExits ==
  /\ pc = "idle" /\ closed /\ writeCh = <<>>
  /\ pc' = "exited"
  /\ \/ synced' = IF open THEN tail ELSE synced
     \/ "sync" \in Env /\ synced' = synced
  /\ UNCHANGED <<frames, files, tail, pos, indexVars, segVars, callVars,
                 commitVars, envVars>>

\* Frames up to k reach stable storage, possibly with a part of the next one.
PowerLoss(k, torn) ==
  /\ "powerloss" \in Env /\ (torn => "tear" \in Env)
  /\ k \in synced..tail
  /\ frames' = {f \in frames : f.at <= k} \cup
               {[f EXCEPT !.kind = "torn"] :
                  f \in {g \in frames : torn /\ g.at = k + 1}}
  /\ synced' = tail
  /\ pc' = "down"
  /\ LoseMemory
  /\ UNCHANGED <<files, tail, owed>>

Kill ==
  /\ "kill" \in Env /\ pc # "down"
  /\ pc' = "down"
  /\ LoseMemory
  /\ UNCHANGED <<diskVars, owed>>

-----------------------------------------------------------------------------

Replay == \E f \in frames : ReplayRecord(f)

Writer ==
  \/ DrainBatch
  \/ \E how \in {"whole", "part", "none"} : WriteFrame(how)
  \/ \E afterSync \in BOOLEAN : RotateFails(afterSync)
  \/ \E ok \in BOOLEAN : FinalSync(ok)
  \/ ApplyRequest
  \/ \E seg \in segments : GcSegment(seg)
  \/ EndBatch
  \/ WriterExits

Startup ==
  \/ Open
  \/ Replay
  \/ CountReferences
  \/ \E seg \in segments : ReclaimAtStart(seg) \/ ReclaimAtStartFails(seg)
  \/ StartWriter

Next ==
  \/ Startup
  \/ Writer
  \/ \E c \in Callers : Send(c)
  \/ \E c \in Callers, r \in Requests : CallAppend(c, r) \/ CallAck(c, r)
  \/ Close
  \/ \E k \in 0..tail, torn \in BOOLEAN : PowerLoss(k, torn)
  \/ Kill

Spec == Init /\ [][Next]_vars

\* The writer goroutine runs whenever it can.  Nothing is assumed of the callers,
\* of Close, of the environment or of a restart.
FairSpec == Spec /\ WF_vars(Writer)

-----------------------------------------------------------------------------
(* Properties. *)

TypeOK ==
  /\ frames \subseteq Frames /\ IsFiniteSet(frames) /\ files \subseteq Nat
  /\ tail \in Nat /\ synced \in Nat /\ pos \in Nat /\ pc \in Phases
  /\ pending \in [Events -> SUBSET Providers] /\ segSeq \in [Events -> Nat]
  /\ segments \subseteq Nat /\ active \in Nat /\ open \in BOOLEAN
  /\ size \in [segments -> Nat] /\ refCount \in [segments -> Int]
  /\ st \in [Callers -> {"idle", "send", "wait"}]
  /\ req \in [Callers -> Requests \cup {NoRequest}]
  /\ writeCh \in Seq(Callers) /\ closed \in BOOLEAN
  /\ batch \in Seq(Callers) /\ i \in Nat \ {0}
  /\ slot \in Seq([verdict : {"written", "synced", "failed"},
                   seg : Nat, at : Nat])
  /\ handed \subseteq Events \X Providers
  /\ owed \in [Events -> SUBSET Providers]

\* The providers that have not resolved e according to a set of records: those
\* named by an event record of e and cleared by no later record of e.
Unresolved(e, F) ==
  {p \in Providers :
     \E f \in F : /\ f.kind = "event" /\ f.event = e /\ p \in f.providers
                  /\ \A g \in F : g.event = e /\ g.at > f.at => ~Clears(g, p)}

\* Append: "a nil return means the event will survive a crash from this point
\* on".  Whenever the writer runs, in this process or a later one, every event
\* still owed to a provider is pending for it.
AcceptedSurvives ==
  pc \in Running => \A e \in Events : owed[e] \subseteq pending[e]

\* Every unresolved entry counts once for the segment that holds its event
\* record, and nothing else does: a count that is too low frees a segment that
\* is needed, one that is too high pins it until the next start.
RefCountExact ==
  pc \in {"reclaim"} \cup Running =>
    \A s \in segments : refCount[s] = Cardinality(Pinned(s))

\* gcSegments and replay leave no garbage at the front of the log, even a segment
\* that was resolved while active and only later rotated out: between batches the
\* oldest file is the active one, or replay would rebuild another index without it.
OldestFileIsNeeded ==
  pc = "idle" =>
    \A s \in files \ {active} :
      (\A t \in files : s <= t) =>
        \E e \in Events :
          Unresolved(e, frames) # Unresolved(e, {f \in frames : f.seg # s})

\* Frames of the batch that commitBatch has written and not yet applied.
Unapplied ==
  LET from == IF pc = "apply" THEN i ELSE 1
  IN  {f \in frames : \E j \in from..Len(slot) : f.at = slot[j].at}

\* The index in memory is what replay would rebuild from the records behind
\* it: a restart at any point forgets no entry and resurrects none.
IndexMatchesLog ==
  pc \in Running =>
    \A e \in Events : pending[e] = Unresolved(e, frames \ Unapplied)

\* replay's loop computes what the records say, with a torn tail ignored.
ReplayExact ==
  pc = "reclaim" => \A e \in Events : pending[e] = Unresolved(e, Decoded)

\* "a caller never observes an ack for data that isn't durable yet"
AnsweredOnlyWhenDurable ==
  pc = "apply" =>
    \A j \in 1..Len(slot) : slot[j].verdict = "synced" => slot[j].at <= synced

\* Appends that race at the cap overshoot it by less than one event each.
SoftCap ==
  MaxBytes > 0 =>
    EventBytes * Cardinality({f \in frames : f.kind = "event"})
      <= MaxBytes + (Cardinality(Callers) - 1) * EventBytes

\* TotalBytes: "the WAL's current total on-disk size across every segment".
TotalBytesExact ==
  pc = "idle" =>
    TotalBytes = SumFunction([s \in files |-> FileBytes(s)])

\* A request that was queued before Close is answered, by the drain that Close
\* waits for if need be, unless the process dies first.
QueuedIsAnswered ==
  \A c \in Callers : (st[c] = "wait" /\ ~closed) ~> (st[c] = "idle")
=============================================================================

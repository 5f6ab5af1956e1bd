----------------------------- MODULE WALProofs -----------------------------
(* Theorems about the write-ahead log. *)
EXTENDS WAL, FiniteSetTheorems, TLAPS

\* A caller that is in submit has a request, and each request is in the channel
\* at most once.
CallersOK ==
  /\ \A c \in Callers : st[c] # "idle" => req[c] \in Requests
  /\ \A j \in DOMAIN writeCh : st[writeCh[j]] = "wait"
  /\ \A j, k \in DOMAIN writeCh : writeCh[j] = writeCh[k] => j = k

\* The requests of the batch that commitBatch has not answered yet.
Todo == {j \in 1..Len(batch) : pc = "write" \/ (pc = "apply" /\ i <= j)}

BatchOK ==
  /\ pc = "write" => i <= Len(batch) + 1 /\ Len(slot) = i - 1
  /\ pc = "apply" => Len(slot) = Len(batch)
  /\ \A j \in Todo : st[batch[j]] = "wait"
  /\ \A j, k \in Todo : batch[j] = batch[k] => j = k
  /\ \A j \in Todo, k \in DOMAIN writeCh : batch[j] # writeCh[k]

TypeInv == TypeOK /\ CallersOK /\ BatchOK

-----------------------------------------------------------------------------

\* The fields of a request.
LEMMA RequestTypes ==
  ASSUME NEW r \in Requests
  PROVE  /\ r.kind \in {"event", "ack"} /\ r.event \in Events
         /\ r.providers \subseteq Providers
BY WALAssumption DEF Requests

\* A frame has a length.
LEMMA BytesType == ASSUME NEW k PROVE Bytes(k) \in Nat
BY WALAssumption DEF Bytes

\* apply keeps the type of the index.
LEMMA PendingAfterType ==
  ASSUME NEW r, r.event \in Events, r.providers \subseteq Providers,
         pending \in [Events -> SUBSET Providers]
  PROVE  PendingAfter(r) \in [Events -> SUBSET Providers]
BY DEF PendingAfter

\* apply keeps segment numbers natural.
LEMMA SegSeqAfterType ==
  ASSUME NEW r, r.event \in Events, NEW s \in Nat, segSeq \in [Events -> Nat]
  PROVE  SegSeqAfter(r, s) \in [Events -> Nat]
BY DEF SegSeqAfter

\* incref and decref keep the type of the counts.
LEMMA AdjustType ==
  ASSUME NEW S, NEW rc \in [S -> Int], NEW s, NEW d \in Int
  PROVE  Adjust(rc, s, d) \in [S -> Int]
BY DEF Adjust

\* apply keeps the type of the counts.
LEMMA RefCountAfterType ==
  ASSUME NEW r, NEW s, refCount \in [segments -> Int]
  PROVE  RefCountAfter(r, s) \in [segments -> Int]
BY AdjustType DEF RefCountAfter, increfSegment, decrefSegment

Slots == [verdict : {"written", "synced", "failed"}, seg : Nat, at : Nat]

\* A sync changes verdicts only.
LEMMA SettleType ==
  ASSUME NEW sl \in Seq(Slots)
  PROVE  Settle(sl) \in Seq(Slots) /\ Len(Settle(sl)) = Len(sl)
<1>1. \A j \in 1..Len(sl) : sl[j] \in Slots
  OBVIOUS
<1>2. Settle(sl) = [j \in 1..Len(sl) |-> IF sl[j].verdict = "written"
                       THEN [verdict |-> "synced", seg |-> sl[j].seg,
                             at |-> sl[j].at]
                       ELSE sl[j]]
  BY DEF Settle
<1>3. \A j \in 1..Len(sl) : Settle(sl)[j] \in Slots
  BY <1>1, <1>2 DEF Slots
<1> QED BY <1>2, <1>3

\* A file has a size.
LEMMA FileBytesType ==
  ASSUME IsFiniteSet(frames), NEW s PROVE FileBytes(s) \in Nat
<1> DEFINE E == {f \in frames : f.seg = s /\ f.kind = "event"}
           A == {f \in frames : f.seg = s /\ f.kind # "event"}
<1>1. IsFiniteSet(E) /\ IsFiniteSet(A)
  BY FS_Subset
<1>2. Cardinality(E) \in Nat /\ Cardinality(A) \in Nat
  BY <1>1, FS_CardinalityType
<1> QED BY <1>2, WALAssumption DEF FileBytes

\* Finitely many entries pin a segment.
LEMMA PinnedFinite ==
  ASSUME NEW s PROVE IsFiniteSet(Pinned(s)) /\ Cardinality(Pinned(s)) \in Nat
BY FS_Subset, FS_CardinalityType, WALAssumption DEF Pinned

\* A process starts from well-typed memory.
LEMMA LoseMemoryType ==
  ASSUME LoseMemory
  PROVE  /\ pos' \in Nat /\ pending' \in [Events -> SUBSET Providers]
         /\ segSeq' \in [Events -> Nat] /\ segments' \subseteq Nat
         /\ active' \in Nat /\ open' \in BOOLEAN
         /\ size' \in [segments' -> Nat] /\ refCount' \in [segments' -> Int]
         /\ st' \in [Callers -> {"idle", "send", "wait"}]
         /\ req' \in [Callers -> Requests \cup {NoRequest}]
         /\ writeCh' \in Seq(Callers) /\ closed' \in BOOLEAN
         /\ batch' \in Seq(Callers) /\ i' \in Nat \ {0}
         /\ slot' \in Seq(Slots) /\ handed' \subseteq Events \X Providers
<1>1. pos' \in Nat /\ active' \in Nat /\ i' \in Nat \ {0}
  BY DEF LoseMemory
<1>6. open' \in BOOLEAN /\ closed' \in BOOLEAN
  BY Zenon DEF LoseMemory
<1>2. /\ pending' \in [Events -> SUBSET Providers]
      /\ segSeq' \in [Events -> Nat]
  BY DEF LoseMemory
<1>3. /\ segments' \subseteq Nat
      /\ size' \in [segments' -> Nat] /\ refCount' \in [segments' -> Int]
  BY DEF LoseMemory
<1>4. /\ st' \in [Callers -> {"idle", "send", "wait"}]
      /\ req' \in [Callers -> Requests \cup {NoRequest}]
  BY DEF LoseMemory
<1>5. /\ writeCh' \in Seq(Callers) /\ batch' \in Seq(Callers)
      /\ slot' \in Seq(Slots) /\ handed' \subseteq Events \X Providers
  BY DEF LoseMemory
<1> QED BY <1>1, <1>2, <1>3, <1>4, <1>5, <1>6

\* The request that commitBatch is at.
LEMMA CurrentRequest ==
  ASSUME TypeInv, pc \in {"write", "apply"}, i <= Len(batch)
  PROVE  /\ i \in 1..Len(batch) /\ batch[i] \in Callers /\ i \in Todo
         /\ st[batch[i]] = "wait" /\ req[batch[i]] \in Requests
<1>1. i \in 1..Len(batch) /\ batch[i] \in Callers
  BY DEF TypeInv, TypeOK
<1>2. i \in Todo
  BY <1>1 DEF Todo
<1>3. st[batch[i]] = "wait"
  BY <1>2 DEF TypeInv, BatchOK
<1> QED BY <1>1, <1>2, <1>3 DEF TypeInv, CallersOK

\* The initial state is well typed.
LEMMA InitType == Init => TypeInv
<1> SUFFICES ASSUME Init PROVE TypeInv
  OBVIOUS
<1>1. TypeOK
  <2>1. /\ frames \subseteq Frames /\ IsFiniteSet(frames) /\ files \subseteq Nat
        /\ tail \in Nat /\ synced \in Nat /\ pos \in Nat /\ pc \in Phases
        /\ active \in Nat /\ i \in Nat \ {0}
    BY FS_EmptySet DEF Init, Phases
  <2>6. open \in BOOLEAN /\ closed \in BOOLEAN
    BY Zenon DEF Init
  <2>2. /\ pending \in [Events -> SUBSET Providers]
        /\ segSeq \in [Events -> Nat]
        /\ owed \in [Events -> SUBSET Providers]
    BY DEF Init
  <2>3. /\ segments \subseteq Nat
        /\ size \in [segments -> Nat] /\ refCount \in [segments -> Int]
    BY DEF Init
  <2>4. /\ st \in [Callers -> {"idle", "send", "wait"}]
        /\ req \in [Callers -> Requests \cup {NoRequest}]
    BY DEF Init
  <2>5. /\ writeCh \in Seq(Callers) /\ batch \in Seq(Callers)
        /\ slot \in Seq(Slots) /\ handed \subseteq Events \X Providers
    BY DEF Init
  <2> QED BY <2>1, <2>2, <2>3, <2>4, <2>5, <2>6 DEF TypeOK, Slots
<1>2. CallersOK /\ BatchOK
  BY DEF Init, CallersOK, BatchOK, Todo
<1> QED BY <1>1, <1>2 DEF TypeInv

\* Every step keeps the types.
LEMMA TypeOKStep == TypeInv /\ [Next]_vars => TypeOK'
<1> USE DEF diskVars, indexVars, segVars, callVars, commitVars, envVars, Phases,
            Running, Slots
<1> SUFFICES ASSUME TypeInv, [Next]_vars PROVE TypeOK'
  OBVIOUS
<1>0. TypeOK
  BY DEF TypeInv
<1>1. CASE UNCHANGED vars
  BY <1>0, <1>1 DEF TypeOK, vars
<1>2. CASE Open
  BY <1>0, <1>2, LoseMemoryType DEF TypeOK, Open
<1>3. ASSUME NEW f \in frames, ReplayRecord(f) PROVE TypeOK'
  <2>1. f.event \in Events /\ f.providers \subseteq Providers /\ f.at \in Nat
        /\ f.seg \in Nat
    BY <1>0 DEF TypeOK, Frames
  <2>2. pending' \in [Events -> SUBSET Providers] /\ segSeq' \in [Events -> Nat]
    BY <1>0, <1>3, <2>1, PendingAfterType, SegSeqAfterType
       DEF TypeOK, ReplayRecord
  <2> QED BY <1>0, <1>3, <2>1, <2>2 DEF TypeOK, ReplayRecord
<1>4. CASE CountReferences
  <2>1. refCount' \in [segments' -> Int] /\ size' \in [segments' -> Nat]
    BY <1>4, PinnedFinite DEF CountReferences
  <2>2. active' \in Nat
    <3>1. files \subseteq Nat
      BY <1>0 DEF TypeOK
    <3>2. CASE files = {}
      BY <1>4, <3>2 DEF CountReferences
    <3>3. CASE files # {}
      <4>1. active' \in files
        BY <1>4, <3>3, Zenon DEF CountReferences
      <4> QED BY <3>1, <4>1, Zenon
    <3> QED BY <3>2, <3>3
  <2> QED BY <1>0, <1>4, <2>1, <2>2 DEF TypeOK, CountReferences
<1>5. ASSUME NEW seg \in segments, ReclaimAtStart(seg) PROVE TypeOK'
  <2>1. IsFiniteSet(frames')
    BY <1>0, <1>5, FS_Subset DEF TypeOK, ReclaimAtStart, Unlink
  <2> QED BY <1>0, <1>5, <2>1 DEF TypeOK, ReclaimAtStart, Unlink, Untrack
<1>6. ASSUME NEW seg \in segments, ReclaimAtStartFails(seg) PROVE TypeOK'
  BY <1>0, <1>6, LoseMemoryType DEF TypeOK, ReclaimAtStartFails
<1>7. CASE StartWriter
  <2>1. size' \in [segments' -> Nat]
    <3>1. size \in [segments -> Nat] /\ FileBytes(active) \in Nat
      BY <1>0, FileBytesType DEF TypeOK
    <3>2. CASE segments = {}
      BY <1>7, <3>2 DEF StartWriter
    <3>3. CASE segments # {}
      BY <1>7, <3>1, <3>3 DEF StartWriter
    <3> QED BY <3>2, <3>3
  <2>2. /\ segments' \subseteq Nat /\ files' \subseteq Nat
        /\ refCount' \in [segments' -> Int]
    <3>1. CASE segments = {}
      BY <1>7, <3>1 DEF StartWriter
    <3>2. CASE segments # {}
      BY <1>0, <1>7, <3>2 DEF StartWriter, TypeOK
    <3> QED BY <3>1, <3>2
  <2>3. /\ pc' = "idle" /\ open' = TRUE /\ handed' \subseteq Events \X Providers
        /\ UNCHANGED <<frames, tail, synced, pos, indexVars, active, callVars,
                       commitVars, owed>>
    BY <1>7 DEF StartWriter, Pending
  <2> QED BY <1>0, <2>1, <2>2, <2>3 DEF TypeOK
<1>8. ASSUME NEW c \in Callers, Send(c) PROVE TypeOK'
  BY <1>0, <1>8 DEF TypeOK, Send
<1>9. ASSUME NEW c \in Callers, NEW r \in Requests, Submit(c, r) PROVE TypeOK'
  <2>1. owed' \in [Events -> SUBSET Providers]
    BY <1>0, <1>9, RequestTypes DEF TypeOK, Submit
  <2> QED BY <1>0, <1>9, <2>1 DEF TypeOK, Submit
<1>10. CASE DrainBatch
  BY <1>0, <1>10 DEF TypeOK, DrainBatch
<1>11. ASSUME NEW how \in {"whole", "part", "none"}, WriteFrame(how)
       PROVE  TypeOK'
  <2> DEFINE r    == req[batch[i]]
             rot  == NeedsRotation(r)
             seg  == IF rot THEN active + 1 ELSE active
             kind == IF how = "part" THEN "torn" ELSE r.kind
             grow == IF how = "none" THEN 0 ELSE Bytes(kind)
             f    == [at |-> tail + 1, seg |-> seg, kind |-> kind,
                      event |-> r.event, providers |-> r.providers]
             old  == IF rot THEN Settle(slot) ELSE slot
             new  == IF how = "whole"
                       THEN [verdict |-> "written", seg |-> seg, at |-> tail + 1]
                       ELSE Failed
  <2>1. r \in Requests /\ r.kind \in {"event", "ack"} /\ r.event \in Events
        /\ r.providers \subseteq Providers
    BY <1>11, CurrentRequest, RequestTypes DEF WriteFrame
  <2>2. seg \in Nat /\ f \in Frames
    BY <1>0, <2>1 DEF TypeOK, Frames
  <2>3. frames' \subseteq Frames /\ IsFiniteSet(frames') /\ tail' \in Nat
    <3>1. IsFiniteSet(frames \cup {f})
      <4> HIDE DEF f
      <4> QED BY <1>0, FS_AddElement DEF TypeOK
    <3>2. frames' = frames \/ frames' = frames \cup {f}
      BY <1>11 DEF WriteFrame
    <3>3. tail' = tail \/ tail' = tail + 1
      BY <1>11 DEF WriteFrame
    <3>4. tail' \in Nat
      BY <1>0, <3>3 DEF TypeOK
    <3>5. frames \subseteq Frames /\ IsFiniteSet(frames)
      BY <1>0 DEF TypeOK
    <3> HIDE DEF f
    <3> QED BY <2>2, <3>1, <3>2, <3>4, <3>5, Zenon
  <2>4. old \in Seq(Slots) /\ new \in Slots
    BY <1>0, <2>2, SettleType DEF TypeOK, Failed
  <2>5. slot' \in Seq(Slots)
    BY <1>11, <2>4 DEF WriteFrame
  <2>6. grow \in Nat
    BY BytesType
  <2>7. /\ active' = seg /\ segments' = segments \cup {seg}
        /\ files' = files \cup {seg}
        /\ size' = [s \in segments \cup {seg} |->
                      (IF s \in segments THEN size[s] ELSE 0)
                        + (IF s = seg THEN grow ELSE 0)]
        /\ refCount' = [s \in segments \cup {seg} |->
                          IF s \in segments THEN refCount[s] ELSE 0]
        /\ synced' = IF rot THEN tail ELSE synced
    BY <1>11 DEF WriteFrame
  <2>8. size' \in [segments' -> Nat] /\ refCount' \in [segments' -> Int]
    BY <1>0, <2>6, <2>7 DEF TypeOK
  <2>9. /\ i' = i + 1
        /\ UNCHANGED <<pc, pos, indexVars, open, callVars, batch, envVars>>
    BY <1>11 DEF WriteFrame
  <2> HIDE DEF r, rot, seg, kind, grow, f, old, new
  <2> QED BY <1>0, <2>2, <2>3, <2>5, <2>7, <2>8, <2>9 DEF TypeOK
<1>12. ASSUME NEW afterSync \in BOOLEAN, RotateFails(afterSync) PROVE TypeOK'
  BY <1>0, <1>12 DEF TypeOK, RotateFails, Failed
<1>13. ASSUME NEW ok \in BOOLEAN, FinalSync(ok) PROVE TypeOK'
  <2>1. slot \in Seq(Slots) /\ slot' \in Seq(Slots)
    <3>1. slot \in Seq(Slots)
      BY <1>0 DEF TypeOK
    <3>2. CASE ok
      BY <1>13, <3>1, <3>2, SettleType DEF FinalSync
    <3>3. CASE ~ok
      <4>1. slot' = [j \in 1..Len(slot) |->
                       IF slot[j].verdict = "written" THEN Failed ELSE slot[j]]
        BY <1>13, <3>1, <3>3 DEF FinalSync
      <4>2. \A j \in 1..Len(slot) : slot'[j] \in Slots
        <5>1. \A j \in 1..Len(slot) : slot[j] \in Slots
          <6> HIDE DEF Slots
          <6> QED BY <3>1
        <5>2. Failed \in Slots
          BY DEF Failed
        <5> QED BY <4>1, <5>1, <5>2
      <4> QED BY <3>1, <4>1, <4>2
    <3> QED BY <3>1, <3>2, <3>3
  <2> QED BY <1>0, <1>13, <2>1 DEF TypeOK, FinalSync
<1>14. CASE ApplyRequest
  <2> DEFINE r == req[batch[i]]
  <2>1. r \in Requests /\ r.event \in Events /\ r.providers \subseteq Providers
        /\ batch[i] \in Callers
    BY <1>14, CurrentRequest, RequestTypes DEF ApplyRequest
  <2>2. slot[i].seg \in Nat
    <3>1. i \in 1..Len(slot)
      BY <1>14, CurrentRequest DEF ApplyRequest, TypeInv, BatchOK
    <3>2. slot \in Seq(Slots)
      BY <1>0 DEF TypeOK
    <3>3. slot[i] \in Slots
      <4> HIDE DEF Slots
      <4> QED BY <3>1, <3>2
    <3> QED BY <3>3
  <2>3. pending' \in [Events -> SUBSET Providers] /\ segSeq' \in [Events -> Nat]
    <3>1. /\ pending \in [Events -> SUBSET Providers]
          /\ segSeq \in [Events -> Nat]
      BY <1>0 DEF TypeOK
    <3>2. /\ PendingAfter(r) \in [Events -> SUBSET Providers]
          /\ SegSeqAfter(r, slot[i].seg) \in [Events -> Nat]
      BY <2>1, <2>2, <3>1, PendingAfterType, SegSeqAfterType
    <3>3. /\ pending' = pending \/ pending' = PendingAfter(r)
          /\ segSeq' = segSeq \/ segSeq' = SegSeqAfter(r, slot[i].seg)
      BY <1>14 DEF ApplyRequest
    <3> QED BY <3>1, <3>2, <3>3
  <2>4. refCount' \in [segments -> Int]
    BY <1>0, <1>14, RefCountAfterType DEF TypeOK, ApplyRequest
  <2>5. handed' \subseteq Events \X Providers
    BY <1>0, <1>14, <2>1 DEF TypeOK, ApplyRequest
  <2>6. owed' \in [Events -> SUBSET Providers]
    <3>1. Promised(batch[i], r) \subseteq Providers
      BY <2>1 DEF Promised
    <3> QED BY <1>0, <1>14, <2>1, <3>1 DEF TypeOK, ApplyRequest
  <2>7. st' \in [Callers -> {"idle", "send", "wait"}]
        /\ req' \in [Callers -> Requests \cup {NoRequest}]
    BY <1>0, <1>14 DEF TypeOK, ApplyRequest
  <2>8. /\ i' = i + 1
        /\ UNCHANGED <<diskVars, pc, pos, segments, active, size, open, writeCh,
                       closed, batch, slot>>
    BY <1>14 DEF ApplyRequest
  <2> HIDE DEF r
  <2> QED BY <1>0, <2>3, <2>4, <2>5, <2>6, <2>7, <2>8 DEF TypeOK
<1>15. ASSUME NEW seg \in segments, GcSegment(seg) PROVE TypeOK'
  <2>1. IsFiniteSet(frames') /\ frames' \subseteq frames /\ files' \subseteq files
    BY <1>0, <1>15, FS_Subset DEF TypeOK, GcSegment, Unlink
  <2> QED BY <1>0, <1>15, <2>1 DEF TypeOK, GcSegment, Untrack
<1>16. CASE EndBatch
  BY <1>0, <1>16 DEF TypeOK, EndBatch
<1>17. CASE WriterExits
  BY <1>0, <1>17 DEF TypeOK, WriterExits
<1>18. CASE Close
  BY <1>0, <1>18 DEF TypeOK, Close
<1>19. ASSUME NEW k \in 0..tail, NEW torn \in BOOLEAN, PowerLoss(k, torn)
       PROVE  TypeOK'
  <2> DEFINE G == {g \in frames : torn /\ g.at = k + 1}
             T == {[f EXCEPT !.kind = "torn"] : f \in G}
             K == {f \in frames : f.at <= k}
  <2>1. frames' = K \cup T
    BY <1>19 DEF PowerLoss
  <2>2. IsFiniteSet(G) /\ IsFiniteSet(K)
    BY <1>0, FS_Subset DEF TypeOK
  <2>3. IsFiniteSet(T)
    <3> DEFINE t == [f \in G |-> [f EXCEPT !.kind = "torn"]]
    <3>1. t \in Surjection(G, T)
      BY DEF Surjection
    <3> HIDE DEF G, T, t
    <3> QED BY <2>2, <3>1, FS_Surjection
  <2>4. IsFiniteSet(frames')
    BY <2>1, <2>2, <2>3, FS_Union
  <2>5. T \subseteq Frames
    <3>1. ASSUME NEW f \in frames PROVE [f EXCEPT !.kind = "torn"] \in Frames
      BY <1>0 DEF TypeOK, Frames
    <3> QED BY <3>1
  <2>6. frames' \subseteq Frames
    BY <1>0, <2>1, <2>5 DEF TypeOK
  <2> HIDE DEF G, T, K
  <2> QED BY <1>0, <1>19, <2>4, <2>6, LoseMemoryType DEF TypeOK, PowerLoss
<1>20. CASE Kill
  BY <1>0, <1>20, LoseMemoryType DEF TypeOK, Kill
<1> QED
  BY <1>1, <1>2, <1>3, <1>4, <1>5, <1>6, <1>7, <1>8, <1>9, <1>10, <1>11, <1>12,
     <1>13, <1>14, <1>15, <1>16, <1>17, <1>18, <1>19, <1>20
     DEF Next, Startup, Replay, Writer, CallAppend, CallAck

\* Only submit, the channel and commitBatch's answers touch the callers.
LEMMA CallersStep == TypeInv /\ [Next]_vars => CallersOK' /\ BatchOK'
<1> USE DEF diskVars, indexVars, segVars, callVars, commitVars, envVars
<1> SUFFICES ASSUME TypeInv, [Next]_vars PROVE CallersOK' /\ BatchOK'
  OBVIOUS
<1>0. TypeOK /\ CallersOK /\ BatchOK
  BY DEF TypeInv
<1>a. ASSUME LoseMemory, pc' \in {"down", "replay"} PROVE CallersOK' /\ BatchOK'
  BY <1>a DEF LoseMemory, CallersOK, BatchOK, Todo
<1>b. ASSUME UNCHANGED <<pc, callVars, commitVars>> PROVE CallersOK' /\ BatchOK'
  BY <1>0, <1>b DEF CallersOK, BatchOK, Todo
<1>c. ASSUME pc \notin {"write", "apply"}, pc' \notin {"write", "apply"},
             UNCHANGED <<callVars, commitVars>>
      PROVE  CallersOK' /\ BatchOK'
  BY <1>0, <1>c DEF CallersOK, BatchOK, Todo
<1>1. CASE UNCHANGED vars
  BY <1>1, <1>b DEF vars
<1>2. CASE Open
  BY <1>2, <1>a DEF Open
<1>3. ASSUME NEW f \in frames, ReplayRecord(f) PROVE CallersOK' /\ BatchOK'
  BY <1>3, <1>b DEF ReplayRecord
<1>4. CASE CountReferences
  BY <1>4, <1>c DEF CountReferences
<1>5. ASSUME NEW seg \in segments, ReclaimAtStart(seg)
      PROVE  CallersOK' /\ BatchOK'
  BY <1>5, <1>b DEF ReclaimAtStart
<1>6. ASSUME NEW seg \in segments, ReclaimAtStartFails(seg)
      PROVE  CallersOK' /\ BatchOK'
  BY <1>6, <1>a DEF ReclaimAtStartFails
<1>7. CASE StartWriter
  BY <1>7, <1>c DEF StartWriter
<1>8. ASSUME NEW c \in Callers, Send(c) PROVE CallersOK' /\ BatchOK'
  <2>1. /\ st[c] = "send" /\ st' = [st EXCEPT ![c] = "wait"]
        /\ writeCh' = Append(writeCh, c)
        /\ UNCHANGED <<pc, req, batch, slot, i>>
    BY <1>8 DEF Send
  <2>2. /\ writeCh \in Seq(Callers) /\ st \in [Callers -> {"idle", "send", "wait"}]
        /\ batch \in Seq(Callers)
    BY <1>0 DEF TypeOK
  <2>3. /\ DOMAIN writeCh' = 1..(Len(writeCh) + 1)
        /\ \A j \in 1..Len(writeCh) : writeCh'[j] = writeCh[j]
        /\ writeCh'[Len(writeCh) + 1] = c
    BY <2>1, <2>2
  <2>4. \A j \in 1..Len(writeCh) : /\ writeCh[j] \in Callers /\ writeCh[j] # c
                                   /\ st'[writeCh[j]] = "wait"
    BY <1>0, <2>1, <2>2 DEF CallersOK
  <2>5. \A j \in Todo : batch[j] \in Callers /\ batch[j] # c
    BY <1>0, <2>1, <2>2 DEF BatchOK, Todo
  <2>6. \A d \in Callers : st'[d] # "idle" => req'[d] \in Requests
    BY <1>0, <2>1, <2>2 DEF CallersOK
  <2>7. \A j \in DOMAIN writeCh' : st'[writeCh'[j]] = "wait"
    BY <2>1, <2>2, <2>3, <2>4
  <2>8. \A j, k \in DOMAIN writeCh' : writeCh'[j] = writeCh'[k] => j = k
    <3>1. \A j, k \in 1..Len(writeCh) : writeCh[j] = writeCh[k] => j = k
      BY <1>0, <2>2 DEF CallersOK
    <3> QED BY <2>2, <2>3, <2>4, <3>1
  <2>9. Todo' = Todo
    BY <2>1 DEF Todo
  <2>10. \A j \in Todo' : st'[batch'[j]] = "wait"
    BY <1>0, <2>1, <2>2, <2>5, <2>9 DEF BatchOK
  <2>11. \A j \in Todo', k \in DOMAIN writeCh' : batch'[j] # writeCh'[k]
    <3>1. \A j \in Todo, k \in 1..Len(writeCh) : batch[j] # writeCh[k]
      BY <1>0, <2>2 DEF BatchOK
    <3> QED BY <2>1, <2>2, <2>3, <2>5, <2>9, <3>1
  <2>12. \A j, k \in Todo' : batch'[j] = batch'[k] => j = k
    BY <1>0, <2>1, <2>9 DEF BatchOK
  <2>13. CallersOK'
    BY <2>6, <2>7, <2>8 DEF CallersOK
  <2>14. BatchOK'
    BY <1>0, <2>1, <2>10, <2>11, <2>12 DEF BatchOK
  <2> QED BY <2>13, <2>14
<1>9. ASSUME NEW c \in Callers, NEW r \in Requests, Submit(c, r)
      PROVE  CallersOK' /\ BatchOK'
  <2>1. /\ st[c] = "idle" /\ st' = [st EXCEPT ![c] = "send"]
        /\ req' = [req EXCEPT ![c] = r]
        /\ UNCHANGED <<pc, writeCh, batch, slot, i>>
    BY <1>9 DEF Submit
  <2>2. /\ writeCh \in Seq(Callers) /\ st \in [Callers -> {"idle", "send", "wait"}]
        /\ batch \in Seq(Callers) /\ req \in [Callers -> Requests \cup {NoRequest}]
    BY <1>0 DEF TypeOK
  <2>3. CallersOK'
    BY <1>0, <2>1, <2>2 DEF CallersOK
  <2>4. Todo' = Todo
    BY <2>1 DEF Todo
  <2>5. \A j \in Todo : st'[batch[j]] = "wait"
    BY <1>0, <2>1, <2>2 DEF BatchOK, Todo
  <2> QED BY <1>0, <2>1, <2>3, <2>4, <2>5 DEF BatchOK
<1>10. CASE DrainBatch
  <2>1. /\ pc' = "write" /\ batch' = writeCh /\ writeCh' = <<>>
        /\ slot' = <<>> /\ i' = 1 /\ UNCHANGED <<st, req>>
    BY <1>10 DEF DrainBatch
  <2>2. writeCh \in Seq(Callers)
    BY <1>0 DEF TypeOK
  <2>3. Todo' = 1..Len(writeCh) /\ DOMAIN writeCh = 1..Len(writeCh)
    BY <2>1, <2>2 DEF Todo
  <2> QED BY <1>0, <2>1, <2>2, <2>3 DEF CallersOK, BatchOK
<1>d. ASSUME pc = "write", pc' = "write", i <= Len(batch), i' = i + 1,
             UNCHANGED <<callVars, batch>>, Len(slot') = Len(slot) + 1
      PROVE  CallersOK' /\ BatchOK'
  <2>1. Todo' = Todo
    BY <1>d DEF Todo
  <2>2. i \in Nat /\ batch \in Seq(Callers)
    BY <1>0 DEF TypeOK
  <2> QED BY <1>0, <1>d, <2>1, <2>2 DEF CallersOK, BatchOK
<1>11. ASSUME NEW how \in {"whole", "part", "none"}, WriteFrame(how)
       PROVE  CallersOK' /\ BatchOK'
  <2>1. slot \in Seq(Slots)
    BY <1>0 DEF TypeOK, Slots
  <2>2. Settle(slot) \in Seq(Slots) /\ Len(Settle(slot)) = Len(slot)
    BY <2>1, SettleType
  <2>3. PICK s : slot' = Append(slot, s) \/ slot' = Append(Settle(slot), s)
    BY <1>11 DEF WriteFrame
  <2>4. Len(slot') = Len(slot) + 1
    BY <2>1, <2>2, <2>3
  <2> QED BY <1>11, <1>d, <2>4 DEF WriteFrame
<1>12. ASSUME NEW afterSync \in BOOLEAN, RotateFails(afterSync)
       PROVE  CallersOK' /\ BatchOK'
  <2>1. Len(slot') = Len(slot) + 1
    BY <1>0, <1>12 DEF TypeOK, RotateFails
  <2> QED BY <1>12, <1>d, <2>1 DEF RotateFails
<1>13. ASSUME NEW ok \in BOOLEAN, FinalSync(ok) PROVE CallersOK' /\ BatchOK'
  <2>1. slot \in Seq(Slots) /\ batch \in Seq(Callers)
    BY <1>0 DEF TypeOK, Slots
  <2>2. /\ pc = "write" /\ pc' = "apply" /\ i = Len(batch) + 1 /\ i' = 1
        /\ UNCHANGED <<callVars, batch>>
    BY <1>13 DEF FinalSync
  <2>3. Len(slot') = Len(slot)
    <3>1. CASE ok
      BY <1>13, <2>1, <3>1, SettleType DEF FinalSync
    <3>2. CASE ~ok
      <4>1. slot' = [j \in 1..Len(slot) |->
                       IF slot[j].verdict = "written" THEN Failed ELSE slot[j]]
        BY <1>13, <2>1, <3>2 DEF FinalSync
      <4> QED BY <2>1, <4>1
    <3> QED BY <3>1, <3>2
  <2>4. Todo' = Todo
    BY <2>1, <2>2 DEF Todo
  <2> QED BY <1>0, <2>1, <2>2, <2>3, <2>4 DEF CallersOK, BatchOK
<1>14. CASE ApplyRequest
  <2> DEFINE c == batch[i]
  <2>1. c \in Callers /\ i \in Todo /\ st[c] = "wait"
    BY <1>14, CurrentRequest DEF ApplyRequest
  <2>2. /\ pc = "apply" /\ pc' = "apply" /\ i' = i + 1
        /\ st' = [st EXCEPT ![c] = "idle"]
        /\ req' = [req EXCEPT ![c] = NoRequest]
        /\ UNCHANGED <<writeCh, batch, slot>>
    BY <1>14 DEF ApplyRequest
  <2>3. /\ writeCh \in Seq(Callers) /\ st \in [Callers -> {"idle", "send", "wait"}]
        /\ batch \in Seq(Callers) /\ req \in [Callers -> Requests \cup {NoRequest}]
        /\ i \in Nat
    BY <1>0 DEF TypeOK
  <2>4. Todo' = Todo \ {i}
    BY <2>2, <2>3 DEF Todo
  <2>5. \A j \in Todo' : batch[j] \in Callers /\ batch[j] # c
    BY <1>0, <2>1, <2>3, <2>4 DEF BatchOK, Todo
  <2>6. \A j \in DOMAIN writeCh : writeCh[j] \in Callers /\ writeCh[j] # c
    BY <1>0, <2>1, <2>3 DEF BatchOK
  <2> HIDE DEF c
  <2>7. CallersOK'
    BY <1>0, <2>1, <2>2, <2>3, <2>6 DEF CallersOK
  <2>8. BatchOK'
    BY <1>0, <2>1, <2>2, <2>3, <2>4, <2>5 DEF BatchOK
  <2> QED BY <2>7, <2>8
<1>15. ASSUME NEW seg \in segments, GcSegment(seg) PROVE CallersOK' /\ BatchOK'
  BY <1>15, <1>b DEF GcSegment
<1>16. CASE EndBatch
  BY <1>0, <1>16 DEF EndBatch, CallersOK, BatchOK, Todo
<1>17. CASE WriterExits
  BY <1>17, <1>c DEF WriterExits
<1>18. CASE Close
  BY <1>0, <1>18 DEF Close, CallersOK, BatchOK, Todo
<1>19. ASSUME NEW k \in 0..tail, NEW torn \in BOOLEAN, PowerLoss(k, torn)
       PROVE  CallersOK' /\ BatchOK'
  BY <1>19, <1>a DEF PowerLoss
<1>20. CASE Kill
  BY <1>20, <1>a DEF Kill
<1> QED
  BY <1>1, <1>2, <1>3, <1>4, <1>5, <1>6, <1>7, <1>8, <1>9, <1>10, <1>11, <1>12,
     <1>13, <1>14, <1>15, <1>16, <1>17, <1>18, <1>19, <1>20
     DEF Next, Startup, Replay, Writer, CallAppend, CallAck

\* The strengthened type invariant holds throughout.
LEMMA TypeInvariant == Spec => []TypeInv
<1>1. TypeInv /\ [Next]_vars => TypeInv'
  BY TypeOKStep, CallersStep DEF TypeInv
<1> QED BY InitType, <1>1, PTL DEF Spec

\* Type correctness: every structure the writer, replay and the callers of
\* internal/wal share keeps its type, for any number of events, providers,
\* callers and segments, and under every hazard.
THEOREM TypeCorrect == Spec => []TypeOK
<1>1. TypeInv => TypeOK
  BY DEF TypeInv
<1> QED BY TypeInvariant, <1>1, PTL

-----------------------------------------------------------------------------
(* Nobody is told that a frame is durable before it is. *)

DurableInv ==
  /\ synced <= tail
  /\ \A j \in 1..Len(slot) :
       /\ slot[j].at <= tail
       /\ slot[j].verdict = "synced" => slot[j].at <= synced

\* A sync keeps the positions of the batch.
LEMMA SettleDurable ==
  ASSUME NEW sl \in Seq(Slots), NEW n \in Nat,
         \A j \in 1..Len(sl) : sl[j].at <= n
  PROVE  /\ Len(Settle(sl)) = Len(sl)
         /\ \A j \in 1..Len(sl) : Settle(sl)[j].at <= n
<1>1. \A j \in 1..Len(sl) : sl[j] \in Slots
  OBVIOUS
<1> QED BY <1>1, SettleType DEF Settle, Slots

\* Every step keeps DurableInv.
LEMMA DurableStep ==
  TypeInv /\ TypeInv' /\ DurableInv /\ [Next]_vars => DurableInv'
<1> USE DEF diskVars, indexVars, segVars, callVars, commitVars, envVars
<1> SUFFICES ASSUME TypeInv, TypeInv', DurableInv, [Next]_vars
             PROVE  DurableInv'
  OBVIOUS
<1>0. /\ tail \in Nat /\ synced \in Nat /\ slot \in Seq(Slots)
      /\ slot' \in Seq(Slots)
  BY DEF TypeInv, TypeOK, Slots
<1>t. \A j \in 1..Len(slot) : slot[j] \in Slots
  BY <1>0
<1>a. ASSUME LoseMemory, synced' = tail \/ synced' = synced, tail' = tail
      PROVE  DurableInv'
  BY <1>0, <1>a DEF LoseMemory, DurableInv
<1>b. ASSUME UNCHANGED <<tail, synced, slot>> PROVE DurableInv'
  BY <1>b DEF DurableInv
<1>1. CASE UNCHANGED vars
  BY <1>1, <1>b DEF vars
<1>2. CASE Open
  BY <1>2, <1>a DEF Open
<1>3. ASSUME NEW f \in frames, ReplayRecord(f) PROVE DurableInv'
  BY <1>3, <1>b DEF ReplayRecord
<1>4. CASE CountReferences
  BY <1>4, <1>b DEF CountReferences
<1>5. ASSUME NEW seg \in segments, ReclaimAtStart(seg) PROVE DurableInv'
  BY <1>5, <1>b DEF ReclaimAtStart
<1>6. ASSUME NEW seg \in segments, ReclaimAtStartFails(seg) PROVE DurableInv'
  BY <1>6, <1>a DEF ReclaimAtStartFails
<1>7. CASE StartWriter
  BY <1>7, <1>b DEF StartWriter
<1>8. ASSUME NEW c \in Callers, Send(c) PROVE DurableInv'
  BY <1>8, <1>b DEF Send
<1>9. ASSUME NEW c \in Callers, NEW r \in Requests, Submit(c, r) PROVE DurableInv'
  BY <1>9, <1>b DEF Submit
<1>10. CASE DrainBatch
  BY <1>0, <1>10 DEF DrainBatch, DurableInv
<1>11. ASSUME NEW how \in {"whole", "part", "none"}, WriteFrame(how)
       PROVE  DurableInv'
  <2> DEFINE rot == NeedsRotation(req[batch[i]])
             old == IF rot THEN Settle(slot) ELSE slot
  <2>1. /\ synced' = IF rot THEN tail ELSE synced
        /\ tail' = IF how = "none" THEN tail ELSE tail + 1
    BY <1>11 DEF WriteFrame
  <2>2. PICK new : /\ slot' = Append(old, new)
                   /\ new.verdict \in {"written", "failed"}
                   /\ new.at = IF how = "whole" THEN tail + 1 ELSE 0
    BY <1>11 DEF WriteFrame, Failed
  <2>3. /\ old \in Seq(Slots) /\ Len(old) = Len(slot)
        /\ \A j \in 1..Len(old) : /\ old[j].at <= tail
                                  /\ old[j].verdict = "synced" => old[j].at <= synced'
    <3>1. CASE rot
      <4>1. \A j \in 1..Len(slot) : slot[j].at <= tail
        BY DEF DurableInv
      <4>2. synced' = tail /\ old = Settle(slot)
        BY <2>1, <3>1
      <4>3. /\ Settle(slot) \in Seq(Slots) /\ Len(Settle(slot)) = Len(slot)
            /\ \A j \in 1..Len(slot) : Settle(slot)[j].at <= tail
        BY <1>0, <4>1, SettleType, SettleDurable
      <4> HIDE DEF rot, old
      <4> QED BY <4>2, <4>3
    <3>2. CASE ~rot
      <4>1. synced' = synced /\ old = slot
        BY <2>1, <3>2
      <4> HIDE DEF rot, old
      <4> QED BY <1>0, <4>1 DEF DurableInv
    <3> QED BY <3>1, <3>2
  <2>4. tail <= tail' /\ synced' <= tail'
    BY <1>0, <2>1 DEF DurableInv
  <2>5. tail' \in Nat /\ synced' \in Nat
    BY <1>0, <2>1
  <2> HIDE DEF rot, old
  <2>6. /\ Len(slot') = Len(old) + 1
        /\ \A j \in 1..Len(old) : slot'[j] = old[j]
        /\ slot'[Len(old) + 1] = new
    BY <2>2, <2>3
  <2>7. \A j \in 1..Len(old) : old[j].at \in Nat
    <3>1. \A j \in 1..Len(old) : old[j] \in Slots
      BY <2>3
    <3> QED BY <3>1 DEF Slots
  <2>8. new.at <= tail'
    BY <1>0, <2>1, <2>2
  <2>9. \A j \in 1..Len(slot') : slot'[j].at <= tail'
    BY <1>0, <2>3, <2>4, <2>5, <2>6, <2>7, <2>8
  <2>10. \A j \in 1..Len(slot') :
           slot'[j].verdict = "synced" => slot'[j].at <= synced'
    BY <2>2, <2>3, <2>6
  <2> QED BY <2>4, <2>9, <2>10 DEF DurableInv
<1>12. ASSUME NEW afterSync \in BOOLEAN, RotateFails(afterSync)
       PROVE  DurableInv'
  <2>1. /\ slot' = Append(slot, Failed) /\ tail' = tail
        /\ synced' = tail \/ synced' = synced
    BY <1>12 DEF RotateFails
  <2>2. \A j \in 1..Len(slot') : slot'[j] = Failed \/
          (j \in 1..Len(slot) /\ slot'[j] = slot[j])
    BY <1>0, <2>1
  <2>3. Failed.verdict # "synced" /\ Failed.at = 0
    BY DEF Failed
  <2>4. \A j \in 1..Len(slot) : slot[j].at \in Nat
    BY <1>t DEF Slots
  <2> QED BY <1>0, <2>1, <2>2, <2>3, <2>4 DEF DurableInv
<1>13. ASSUME NEW ok \in BOOLEAN, FinalSync(ok) PROVE DurableInv'
  <2>1. \A j \in 1..Len(slot) : slot[j].at <= tail
    BY DEF DurableInv
  <2>2. CASE ok
    <3>1. tail' = tail /\ synced' = tail /\ slot' = Settle(slot)
      BY <1>13, <2>2 DEF FinalSync
    <3>2. /\ Len(Settle(slot)) = Len(slot)
          /\ \A j \in 1..Len(slot) : Settle(slot)[j].at <= tail
      BY <1>0, <2>1, SettleDurable
    <3> QED BY <1>0, <3>1, <3>2 DEF DurableInv
  <2>3. CASE ~ok
    <3>1. /\ tail' = tail /\ synced' = synced
          /\ slot' = [j \in 1..Len(slot) |->
                        IF slot[j].verdict = "written" THEN Failed ELSE slot[j]]
      BY <1>0, <1>13, <2>3 DEF FinalSync
    <3>2. Len(slot') = Len(slot)
      BY <1>0, <3>1
    <3>3. Failed.verdict # "synced" /\ Failed.at = 0
      BY DEF Failed
    <3> QED BY <1>0, <3>1, <3>2, <3>3 DEF DurableInv
  <2> QED BY <2>2, <2>3
<1>14. CASE ApplyRequest
  BY <1>14, <1>b DEF ApplyRequest
<1>15. ASSUME NEW seg \in segments, GcSegment(seg) PROVE DurableInv'
  BY <1>15, <1>b DEF GcSegment
<1>16. CASE EndBatch
  BY <1>0, <1>16 DEF EndBatch, DurableInv
<1>17. CASE WriterExits
  <2>1. (synced' = tail \/ synced' = synced) /\ UNCHANGED <<tail, slot>>
    BY <1>17 DEF WriterExits
  <2> QED BY <1>0, <1>t, <2>1 DEF DurableInv, Slots
<1>18. CASE Close
  BY <1>18, <1>b DEF Close
<1>19. ASSUME NEW k \in 0..tail, NEW torn \in BOOLEAN, PowerLoss(k, torn)
       PROVE  DurableInv'
  BY <1>19, <1>a DEF PowerLoss
<1>20. CASE Kill
  BY <1>20, <1>a DEF Kill
<1> QED
  BY <1>1, <1>2, <1>3, <1>4, <1>5, <1>6, <1>7, <1>8, <1>9, <1>10, <1>11, <1>12,
     <1>13, <1>14, <1>15, <1>16, <1>17, <1>18, <1>19, <1>20
     DEF Next, Startup, Replay, Writer, CallAppend, CallAck

\* commitBatch answers nil only for frames that a completed fsync covers, for
\* every batch size, however many rotations fall into the batch, and whatever
\* writes, syncs and rotations fail on the way.
THEOREM DurableAnswers == Spec => []AnsweredOnlyWhenDurable
<1>1. Init => DurableInv
  BY DEF Init, DurableInv
<1>2. DurableInv => AnsweredOnlyWhenDurable
  BY DEF DurableInv, AnsweredOnlyWhenDurable
<1> QED BY TypeInvariant, DurableStep, <1>1, <1>2, PTL DEF Spec

-----------------------------------------------------------------------------
(* Reference counts are exact. *)

\* A count is only right for a segment created by rotation if no entry points at
\* it yet: entries and the slots of a batch point at the active segment or an
\* older one.
SegmentsInv ==
  /\ \A f \in frames : f.seg \in files
  /\ pc = "replay" =>
       \A e \in Events : pending[e] # {} => segSeq[e] \in files
  /\ pc = "reclaim" =>
       /\ \A e \in Events : pending[e] # {} => segSeq[e] \in segments
       /\ active \in segments \/ (segments = {} /\ active = 0)
       /\ files = segments
  /\ pc \in Running => active \in segments
  /\ pc \in {"reclaim"} \cup Running =>
       /\ \A s \in segments : s <= active
       /\ \A e \in Events : pending[e] # {} => segSeq[e] <= active
  /\ pc \in {"replay", "reclaim"} => slot = <<>>
  /\ \A j \in 1..Len(slot) : slot[j].seg <= active

CountInv == SegmentsInv /\ RefCountExact

\* Removing an element.
LEMMA CardinalityRemove ==
  ASSUME NEW S, IsFiniteSet(S), NEW e
  PROVE  Cardinality(S \ {e}) = IF e \in S THEN Cardinality(S) - 1
                                           ELSE Cardinality(S)
BY FS_RemoveElement

\* Adding an element.
LEMMA CardinalityAdd ==
  ASSUME NEW S, IsFiniteSet(S), NEW e, e \notin S
  PROVE  Cardinality(S \cup {e}) = Cardinality(S) + 1
BY FS_AddElement

\* The empty set has no elements.
LEMMA CardinalityEmpty == Cardinality({}) = 0
BY FS_EmptySet

\* What req.apply does to the counts matches what it does to the index.
LEMMA ApplyCounts ==
  ASSUME TypeOK, NEW r \in Requests, NEW seg \in Nat,
         \A s \in segments : refCount[s] = Cardinality(Pinned(s)),
         pending' = PendingAfter(r), segSeq' = SegSeqAfter(r, seg),
         NEW s \in segments
  PROVE  RefCountAfter(r, seg)[s] = Cardinality(Pinned(s)')
<1> DEFINE e == r.event
<1>0. e \in Events /\ r.kind \in {"event", "ack"}
  BY RequestTypes
<1>1. /\ pending \in [Events -> SUBSET Providers] /\ segSeq \in [Events -> Nat]
      /\ refCount \in [segments -> Int]
  BY DEF TypeOK
<1>2. /\ \A d \in Events \ {e} : pending'[d] = pending[d] /\ segSeq'[d] = segSeq[d]
      /\ pending'[e] = IF r.kind = "event" THEN r.providers
                       ELSE pending[e] \ r.providers
      /\ segSeq'[e] = IF r.kind = "event" THEN seg ELSE segSeq[e]
  BY <1>0, <1>1 DEF PendingAfter, SegSeqAfter
<1>3. /\ IsFiniteSet(Pinned(s)) /\ Cardinality(Pinned(s)) \in Nat
      /\ refCount[s] = Cardinality(Pinned(s))
  BY PinnedFinite
<1>4. Cardinality(Pinned(s) \ {e}) = IF e \in Pinned(s)
        THEN Cardinality(Pinned(s)) - 1 ELSE Cardinality(Pinned(s))
  BY <1>3, CardinalityRemove
<1>5. e \in Pinned(s) <=> pending[e] # {} /\ segSeq[e] = s
  BY <1>0 DEF Pinned
<1>6. CASE r.kind = "event"
  <2>1. r.providers # {}
    BY <1>6, WALAssumption DEF Requests
  <2>2. Pinned(s)' = IF s = seg THEN (Pinned(s) \ {e}) \cup {e}
                                ELSE Pinned(s) \ {e}
    BY <1>0, <1>2, <1>6, <2>1 DEF Pinned
  <2>3. IsFiniteSet(Pinned(s) \ {e})
    BY <1>3, FS_Subset
  <2>4. Cardinality((Pinned(s) \ {e}) \cup {e}) = Cardinality(Pinned(s) \ {e}) + 1
    BY <2>3, CardinalityAdd
  <2> DEFINE rc == IF pending[e] # {} THEN decrefSegment(refCount, segSeq[e])
                                      ELSE refCount
  <2>5. DOMAIN rc = segments
    BY <1>1 DEF decrefSegment, Adjust
  <2>6. rc[s] = Cardinality(Pinned(s) \ {e})
    BY <1>1, <1>3, <1>4, <1>5 DEF decrefSegment, Adjust
  <2>7. RefCountAfter(r, seg) = increfSegment(rc, seg)
    BY <1>6 DEF RefCountAfter
  <2> HIDE DEF rc
  <2>8. RefCountAfter(r, seg)[s] = IF s = seg THEN rc[s] + 1 ELSE rc[s]
    BY <2>5, <2>7 DEF increfSegment, Adjust
  <2>9. Cardinality(Pinned(s)') = IF s = seg THEN Cardinality(Pinned(s) \ {e}) + 1
                                            ELSE Cardinality(Pinned(s) \ {e})
    BY <2>2, <2>4
  <2> QED BY <2>6, <2>8, <2>9
<1>7. CASE r.kind = "ack"
  <2> DEFINE released == pending[e] # {} /\ pending[e] \subseteq r.providers
  <2>1. Pinned(s)' = IF released THEN Pinned(s) \ {e} ELSE Pinned(s)
    BY <1>0, <1>2, <1>7 DEF Pinned
  <2>2. RefCountAfter(r, seg) = IF released
          THEN decrefSegment(refCount, segSeq[e]) ELSE refCount
    BY <1>7 DEF RefCountAfter
  <2>3. decrefSegment(refCount, segSeq[e])[s] =
          IF s = segSeq[e] THEN refCount[s] - 1 ELSE refCount[s]
    BY <1>1 DEF decrefSegment, Adjust
  <2> QED BY <1>3, <1>4, <1>5, <2>1, <2>2, <2>3
<1> QED BY <1>0, <1>6, <1>7

\* Nothing is tracked at first.
LEMMA CountInit == Init => CountInv
BY DEF Init, CountInv, SegmentsInv, RefCountExact, Running

\* Every step keeps CountInv.
LEMMA CountStep ==
  TypeInv /\ TypeInv' /\ CountInv /\ [Next]_vars => CountInv'
<1> USE DEF diskVars, indexVars, segVars, callVars, commitVars, envVars, Running
<1> SUFFICES ASSUME TypeInv, TypeInv', CountInv, [Next]_vars PROVE CountInv'
  OBVIOUS
<1>0. TypeOK /\ TypeOK' /\ SegmentsInv /\ RefCountExact
  BY DEF TypeInv, CountInv
<1>t. slot \in Seq(Slots) /\ \A j \in 1..Len(slot) : slot[j] \in Slots
  <2>1. slot \in Seq(Slots)
    BY <1>0 DEF TypeOK, Slots
  <2> QED BY <2>1
<1>a. ASSUME LoseMemory, pc' \in {"down", "replay"},
             \A f \in frames' : f.seg \in files'
      PROVE  CountInv'
  <2>1. slot' = <<>> /\ \A e \in Events : pending'[e] = {}
    BY <1>a DEF LoseMemory
  <2>2. SegmentsInv'
    BY <1>a, <2>1 DEF SegmentsInv
  <2>3. RefCountExact'
    BY <1>a DEF RefCountExact
  <2> QED BY <2>2, <2>3 DEF CountInv
<1>b. ASSUME UNCHANGED <<indexVars, segments, active, refCount, slot>>,
             frames' \subseteq frames, files' = files,
             \/ pc' = pc
             \/ pc \in Running /\ pc' \in Running \cup {"exited"}
      PROVE  CountInv'
  <2>1. \A s : Pinned(s)' = Pinned(s)
    BY <1>b DEF Pinned
  <2>2. RefCountExact'
    BY <1>0, <1>b, <2>1 DEF RefCountExact
  <2>3. SegmentsInv'
    BY <1>0, <1>b DEF SegmentsInv
  <2> QED BY <2>2, <2>3 DEF CountInv
<1>1. CASE UNCHANGED vars
  BY <1>1, <1>b DEF vars
<1>2. CASE Open
  BY <1>0, <1>2, <1>a DEF Open, SegmentsInv
<1>3. ASSUME NEW f \in frames, ReplayRecord(f) PROVE CountInv'
  <2>1. /\ pc = "replay" /\ pc' = "replay" /\ pending' = PendingAfter(f)
        /\ segSeq' = SegSeqAfter(f, f.seg)
        /\ UNCHANGED <<frames, files, segments, active, slot>>
    BY <1>3 DEF ReplayRecord
  <2>2. f.event \in Events /\ f.seg \in files
    BY <1>0 DEF TypeOK, Frames, SegmentsInv
  <2>3. pending \in [Events -> SUBSET Providers] /\ segSeq \in [Events -> Nat]
    BY <1>0 DEF TypeOK
  <2>4. \A e \in Events : pending'[e] # {} => segSeq'[e] \in files
    <3> SUFFICES ASSUME NEW e \in Events, pending'[e] # {}
                 PROVE  segSeq'[e] \in files
      OBVIOUS
    <3>1. CASE e = f.event /\ f.kind = "event"
      BY <2>1, <2>2, <2>3, <3>1 DEF SegSeqAfter
    <3>2. CASE ~(e = f.event /\ f.kind = "event")
      <4>1. segSeq'[e] = segSeq[e]
        BY <2>1, <2>3, <3>2 DEF SegSeqAfter
      <4>2. pending[e] # {}
        BY <2>1, <2>3, <3>2 DEF PendingAfter
      <4> QED BY <1>0, <2>1, <4>1, <4>2 DEF SegmentsInv
    <3> QED BY <3>1, <3>2
  <2>5. SegmentsInv'
    BY <1>0, <2>1, <2>4 DEF SegmentsInv
  <2>6. RefCountExact'
    BY <2>1 DEF RefCountExact
  <2> QED BY <2>5, <2>6 DEF CountInv
<1>4. CASE CountReferences
  <2>1. /\ pc = "replay" /\ pc' = "reclaim" /\ segments' = files
        /\ refCount' = [s \in files |-> Cardinality(Pinned(s))]
        /\ UNCHANGED <<frames, files, pending, segSeq, slot>>
    BY <1>4 DEF CountReferences
  <2>2. \/ files = {} /\ active' = 0
        \/ active' \in files /\ \A s \in files : s <= active'
    BY <1>4 DEF CountReferences
  <2>3. \A s : Pinned(s)' = Pinned(s)
    BY <2>1 DEF Pinned
  <2>4. RefCountExact'
    BY <2>1, <2>3 DEF RefCountExact
  <2>5. \A e \in Events : pending[e] # {} => segSeq[e] \in files
    BY <1>0, <2>1 DEF SegmentsInv
  <2>6. slot = <<>>
    BY <1>0, <2>1 DEF SegmentsInv
  <2>7. SegmentsInv'
    BY <1>0, <2>1, <2>2, <2>5, <2>6 DEF SegmentsInv
  <2> QED BY <2>4, <2>7 DEF CountInv
<1>c. ASSUME NEW seg \in segments, Reclaimable(seg), Untrack(seg),
             frames' \subseteq frames,
             \A f \in frames' : f.seg \in files',
             pc \in {"reclaim", "apply"}, pc' = pc,
             pc = "reclaim" => files' = files \ {seg},
             UNCHANGED <<pending, segSeq, active, slot>>
      PROVE  CountInv'
  <2>1. /\ segments' = segments \ {seg} /\ seg # active
        /\ refCount' = [s \in segments \ {seg} |-> refCount[s]]
    BY <1>c DEF Untrack, Reclaimable
  <2>2. \A s : Pinned(s)' = Pinned(s)
    BY <1>c DEF Pinned
  <2>3. RefCountExact'
    BY <1>0, <1>c, <2>1, <2>2 DEF RefCountExact
  <2>4. Pinned(seg) = {}
    <3>1. Cardinality(Pinned(seg)) = 0
      BY <1>0, <1>c DEF RefCountExact, Reclaimable
    <3> QED BY <3>1, PinnedFinite, FS_EmptySet
  <2>5. \A e \in Events : pending[e] # {} => segSeq[e] # seg
    BY <2>4 DEF Pinned
  <2>6. SegmentsInv'
    BY <1>0, <1>c, <2>1, <2>5 DEF SegmentsInv
  <2> QED BY <2>3, <2>6 DEF CountInv
<1>d. ASSUME NEW seg, Unlink(seg) PROVE /\ frames' \subseteq frames
                                        /\ \A f \in frames' : f.seg \in files'
  BY <1>0, <1>d DEF Unlink, SegmentsInv
<1>5. ASSUME NEW seg \in segments, ReclaimAtStart(seg) PROVE CountInv'
  <2>1. files' = files \ {seg}
    BY <1>5 DEF ReclaimAtStart, Unlink
  <2> QED BY <1>5, <1>c, <1>d, <2>1 DEF ReclaimAtStart
<1>6. ASSUME NEW seg \in segments, ReclaimAtStartFails(seg) PROVE CountInv'
  BY <1>0, <1>6, <1>a DEF ReclaimAtStartFails, SegmentsInv
<1>7. CASE StartWriter
  <2>1. /\ pc = "reclaim" /\ pc' = "idle"
        /\ UNCHANGED <<frames, pending, segSeq, active, slot>>
    BY <1>7 DEF StartWriter
  <2>2. \A s : Pinned(s)' = Pinned(s)
    BY <2>1 DEF Pinned
  <2>3. active \in Nat
    BY <1>0 DEF TypeOK
  <2>4. CASE segments = {}
    <3>1. /\ segments' = {0} /\ files' = {0} /\ refCount' = [s \in {0} |-> 0]
          /\ active = 0
      BY <1>0, <1>7, <2>1, <2>4 DEF StartWriter, SegmentsInv
    <3>2. \A e \in Events : pending[e] = {}
      BY <1>0, <2>1, <2>4 DEF SegmentsInv
    <3>3. Pinned(0) = {}
      BY <3>2 DEF Pinned
    <3>4. RefCountExact'
      BY <2>2, <3>1, <3>3, CardinalityEmpty DEF RefCountExact
    <3>5. frames = {}
      BY <1>0, <2>1, <2>4 DEF SegmentsInv
    <3>6. SegmentsInv'
      BY <1>0, <2>1, <3>1, <3>2, <3>5 DEF SegmentsInv
    <3> QED BY <3>4, <3>6 DEF CountInv
  <2>5. CASE segments # {}
    <3>1. UNCHANGED <<segments, files, refCount>>
      BY <1>7, <2>5 DEF StartWriter
    <3>2. RefCountExact'
      BY <1>0, <2>1, <2>2, <3>1 DEF RefCountExact
    <3>3. SegmentsInv'
      BY <1>0, <2>1, <2>5, <3>1 DEF SegmentsInv
    <3> QED BY <3>2, <3>3 DEF CountInv
  <2> QED BY <2>4, <2>5
<1>8. ASSUME NEW c \in Callers, Send(c) PROVE CountInv'
  BY <1>8, <1>b DEF Send
<1>9. ASSUME NEW c \in Callers, NEW r \in Requests, Submit(c, r) PROVE CountInv'
  BY <1>9, <1>b DEF Submit
<1>e. ASSUME pc \in Running, pc' \in Running, UNCHANGED <<indexVars, frames, files,
             segments, active, refCount>>,
             \A j \in 1..Len(slot') : slot'[j].seg <= active
      PROVE  CountInv'
  <2>1. \A s : Pinned(s)' = Pinned(s)
    BY <1>e DEF Pinned
  <2>2. RefCountExact'
    BY <1>0, <1>e, <2>1 DEF RefCountExact
  <2>3. SegmentsInv'
    BY <1>0, <1>e DEF SegmentsInv
  <2> QED BY <2>2, <2>3 DEF CountInv
<1>s. \A j \in 1..Len(slot) : slot[j].seg <= active
  BY <1>0 DEF SegmentsInv
<1>u. active \in Nat /\ Failed.seg = 0
  BY <1>0 DEF TypeOK, Failed
<1>10. CASE DrainBatch
  <2>1. slot' = <<>>
    BY <1>10 DEF DrainBatch
  <2> QED BY <1>10, <1>e, <2>1 DEF DrainBatch
<1>f. Len(Settle(slot)) = Len(slot) /\
      \A j \in 1..Len(slot) : Settle(slot)[j].seg = slot[j].seg
  BY <1>t, SettleType DEF Settle
<1>11. ASSUME NEW how \in {"whole", "part", "none"}, WriteFrame(how)
       PROVE  CountInv'
  <2> DEFINE rot == NeedsRotation(req[batch[i]])
             seg == IF rot THEN active + 1 ELSE active
             old == IF rot THEN Settle(slot) ELSE slot
  <2>1. /\ pc = "write" /\ pc' = "write" /\ UNCHANGED <<pending, segSeq>>
        /\ active' = seg /\ segments' = segments \cup {seg}
        /\ files' = files \cup {seg}
        /\ refCount' = [s \in segments \cup {seg} |->
                          IF s \in segments THEN refCount[s] ELSE 0]
    BY <1>11 DEF WriteFrame
  <2>2. \A f \in frames' : f \in frames \/ f.seg = seg
    BY <1>11 DEF WriteFrame
  <2>3. PICK new : slot' = Append(old, new) /\ (new.seg = seg \/ new.seg = 0)
    BY <1>11 DEF WriteFrame, Failed
  <2>4. /\ active \in segments /\ \A s \in segments : s <= active
        /\ \A e \in Events : pending[e] # {} => segSeq[e] <= active
    BY <1>0, <2>1 DEF SegmentsInv
  <2>5. segments \subseteq Nat /\ segSeq \in [Events -> Nat]
    BY <1>0 DEF TypeOK
  <2>6. seg \in Nat /\ active <= seg
    BY <1>u
  <2>7. \A s : Pinned(s)' = Pinned(s)
    BY <2>1 DEF Pinned
  <2>8. seg \notin segments => Pinned(seg) = {}
    BY <1>u, <2>4, <2>5 DEF Pinned
  <2>9. old \in Seq(Slots) /\ Len(old) = Len(slot)
        /\ \A j \in 1..Len(old) : old[j].seg <= active
    BY <1>f, <1>s, <1>t, SettleType
  <2>10. \A j \in 1..Len(old) : old[j].seg \in Nat
    <3>1. \A j \in 1..Len(old) : old[j] \in Slots
      <4> HIDE DEF old
      <4> QED BY <2>9
    <3> QED BY <3>1 DEF Slots
  <2> HIDE DEF rot, seg, old
  <2>11. \A j \in 1..Len(slot') : slot'[j].seg <= seg
    <3>1. /\ Len(slot') = Len(old) + 1
          /\ \A j \in 1..Len(old) : slot'[j] = old[j]
          /\ slot'[Len(old) + 1] = new
      BY <2>3, <2>9
    <3>2. \A j \in 1..Len(old) : old[j].seg <= seg
      BY <1>u, <2>6, <2>9, <2>10
    <3>3. new.seg <= seg
      BY <2>3, <2>6
    <3> QED BY <2>9, <3>1, <3>2, <3>3
  <2>12. RefCountExact'
    BY <1>0, <2>1, <2>7, <2>8, CardinalityEmpty DEF RefCountExact
  <2>13. \A s \in segments' : s <= active'
    BY <1>u, <2>1, <2>4, <2>5, <2>6
  <2>14. \A e \in Events : pending'[e] # {} => segSeq'[e] <= active'
    BY <1>u, <2>1, <2>4, <2>5, <2>6
  <2>15. \A f \in frames' : f.seg \in files'
    BY <1>0, <2>1, <2>2 DEF SegmentsInv
  <2>16. SegmentsInv'
    BY <2>1, <2>11, <2>13, <2>14, <2>15 DEF SegmentsInv
  <2> QED BY <2>12, <2>16 DEF CountInv
<1>12. ASSUME NEW afterSync \in BOOLEAN, RotateFails(afterSync) PROVE CountInv'
  <2>1. slot' = Append(slot, Failed)
    BY <1>12 DEF RotateFails
  <2>2. \A j \in 1..Len(slot') : slot'[j] = Failed \/
          (j \in 1..Len(slot) /\ slot'[j] = slot[j])
    BY <1>t, <2>1
  <2>3. \A j \in 1..Len(slot') : slot'[j].seg <= active
    BY <1>s, <1>u, <2>2
  <2> QED BY <1>12, <1>e, <2>3 DEF RotateFails
<1>13. ASSUME NEW ok \in BOOLEAN, FinalSync(ok) PROVE CountInv'
  <2>1. \A j \in 1..Len(slot') : slot'[j].seg <= active
    <3>1. CASE ok
      BY <1>13, <1>f, <1>s, <3>1 DEF FinalSync
    <3>2. CASE ~ok
      <4>1. slot' = [j \in 1..Len(slot) |->
                       IF slot[j].verdict = "written" THEN Failed ELSE slot[j]]
        BY <1>13, <1>t, <3>2 DEF FinalSync
      <4>2. Len(slot') = Len(slot)
        BY <1>t, <4>1
      <4> QED BY <1>s, <1>u, <4>1, <4>2
    <3> QED BY <3>1, <3>2
  <2> QED BY <1>13, <1>e, <2>1 DEF FinalSync
<1>14. CASE ApplyRequest
  <2> DEFINE r == req[batch[i]]
             sl == slot[i]
  <2>1. r \in Requests /\ i \in 1..Len(slot) /\ r.event \in Events
    BY <1>14, CurrentRequest, RequestTypes DEF ApplyRequest, TypeInv, BatchOK
  <2>2. sl.seg \in Nat /\ sl.seg <= active
    BY <1>s, <1>t, <2>1 DEF Slots
  <2>3. CASE sl.verdict # "synced"
    BY <1>14, <1>b, <2>3 DEF ApplyRequest
  <2>4. CASE sl.verdict = "synced"
    <3>1. /\ pc = "apply" /\ pc' = "apply" /\ pending' = PendingAfter(r)
          /\ segSeq' = SegSeqAfter(r, sl.seg)
          /\ refCount' = RefCountAfter(r, sl.seg)
          /\ UNCHANGED <<frames, files, segments, active, slot>>
      BY <1>14, <2>4 DEF ApplyRequest
    <3>2. \A s \in segments : refCount[s] = Cardinality(Pinned(s))
      BY <1>0, <3>1 DEF RefCountExact
    <3>3. \A s \in segments : refCount'[s] = Cardinality(Pinned(s)')
      <4> HIDE DEF r, sl
      <4> QED BY <1>0, <2>1, <2>2, <3>1, <3>2, ApplyCounts
    <3>4. RefCountExact'
      BY <3>1, <3>3 DEF RefCountExact
    <3>5. pending \in [Events -> SUBSET Providers] /\ segSeq \in [Events -> Nat]
      BY <1>0 DEF TypeOK
    <3>6. \A e \in Events : pending'[e] # {} => segSeq'[e] <= active
      <4> SUFFICES ASSUME NEW e \in Events, pending'[e] # {}
                   PROVE  segSeq'[e] <= active
        OBVIOUS
      <4> HIDE DEF r, sl
      <4>1. CASE e = r.event /\ r.kind = "event"
        BY <2>1, <2>2, <3>1, <3>5, <4>1 DEF SegSeqAfter
      <4>2. CASE ~(e = r.event /\ r.kind = "event")
        <5>1. segSeq'[e] = segSeq[e] /\ pending[e] # {}
          BY <2>1, <3>1, <3>5, <4>2 DEF SegSeqAfter, PendingAfter
        <5> QED BY <1>0, <3>1, <5>1 DEF SegmentsInv
      <4> QED BY <4>1, <4>2
    <3>7. SegmentsInv'
      BY <1>0, <3>1, <3>6 DEF SegmentsInv
    <3> QED BY <3>4, <3>7 DEF CountInv
  <2> QED BY <2>3, <2>4
<1>15. ASSUME NEW seg \in segments, GcSegment(seg) PROVE CountInv'
  <2>1. frames' \subseteq frames /\ \A f \in frames' : f.seg \in files'
    BY <1>0, <1>15, <1>d DEF GcSegment, SegmentsInv
  <2> QED BY <1>15, <1>c, <2>1 DEF GcSegment
<1>16. CASE EndBatch
  <2>1. slot' = <<>>
    BY <1>16 DEF EndBatch
  <2> QED BY <1>16, <1>e, <2>1 DEF EndBatch
<1>17. CASE WriterExits
  BY <1>17, <1>b DEF WriterExits
<1>18. CASE Close
  BY <1>18, <1>b DEF Close
<1>19. ASSUME NEW k \in 0..tail, NEW torn \in BOOLEAN, PowerLoss(k, torn)
       PROVE  CountInv'
  <2>1. \A f \in frames : f.seg \in files
    BY <1>0 DEF SegmentsInv
  <2>2. \A f \in frames' : \E g \in frames : f.seg = g.seg
    <3>1. \A g \in frames : [g EXCEPT !.kind = "torn"].seg = g.seg
      BY <1>0 DEF TypeOK, Frames
    <3> QED BY <1>19, <3>1 DEF PowerLoss
  <2>3. \A f \in frames' : f.seg \in files'
    BY <1>19, <2>1, <2>2 DEF PowerLoss
  <2> QED BY <1>19, <1>a, <2>3 DEF PowerLoss
<1>20. CASE Kill
  BY <1>0, <1>20, <1>a DEF Kill, SegmentsInv
<1> QED
  BY <1>1, <1>2, <1>3, <1>4, <1>5, <1>6, <1>7, <1>8, <1>9, <1>10, <1>11, <1>12,
     <1>13, <1>14, <1>15, <1>16, <1>17, <1>18, <1>19, <1>20
     DEF Next, Startup, Replay, Writer, CallAppend, CallAck

\* The reference counts that decide which segments are deleted are exact: after
\* any mix of appends, superseding appends, repeated acks, rotations, I/O errors
\* and restarts, a segment's count is the number of unresolved entries whose
\* event record it holds.
THEOREM CountsExact == Spec => []RefCountExact
<1>1. CountInv => RefCountExact
  BY DEF CountInv
<1> QED BY TypeInvariant, CountInit, CountStep, <1>1, PTL DEF Spec
=============================================================================

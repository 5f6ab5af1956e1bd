----------------------------- MODULE LogProofs -----------------------------
(***************************************************************************)
(* What the records of the write-ahead log say and what the index holds:   *)
(* replay computes it, the running process keeps up with it, reclaiming a  *)
(* segment does not change it, and an accepted event is part of it.        *)
(***************************************************************************)
EXTENDS WALProofs

\* Frame positions are distinct and follow the order of the segments.
OrderInv ==
  /\ \A f \in frames : 1 <= f.at /\ f.at <= tail
  /\ \A f, g \in frames : f.at = g.at => f = g
  /\ \A f, g \in frames : f.at <= g.at => f.seg <= g.seg
  /\ pc \in Running => \A f \in frames : f.seg <= active

\* L is the event record of e that decides, among the records D.
Latest(L, e, D) ==
  /\ L \in D /\ L.kind = "event" /\ L.event = e
  /\ \A g \in D : g.kind = "event" /\ g.event = e => g.at <= L.at

\* The entries P, which refer to the segments S, are what the records D say: an
\* entry refers to the segment of the last event record it comes from.
Indexed(P, S, D) ==
  \A e \in Events :
    /\ P[e] = Unresolved(e, D)
    /\ P[e] # {} => \E L \in D : /\ Latest(L, e, D) /\ L.seg = S[e]
                                 /\ P[e] \subseteq L.providers

\* The records replay has read.
Replayed == {f \in Decoded : f.at <= pos}

ReplayInv ==
  /\ pc \in {"replay", "reclaim"} => Indexed(pending, segSeq, Replayed)
  /\ pc = "reclaim" => Decoded = Replayed

-----------------------------------------------------------------------------

\* A frame holds a request.
Holds(f, r) ==
  /\ f.kind = r.kind /\ f.event = r.event /\ f.providers = r.providers

\* A slot that did not fail has its frame in the log, and the frames after that
\* are of later requests of the batch.
BatchInv ==
  \A j \in 1..Len(slot) : j \in Todo /\ slot[j].verdict # "failed" =>
    /\ \E f \in frames : /\ f.at = slot[j].at /\ f.seg = slot[j].seg
                         /\ Holds(f, req[batch[j]])
    /\ \A g \in frames : g.at > slot[j].at =>
         \E k \in 1..Len(slot) : j < k /\ Holds(g, req[batch[k]])

Untorn == \A f \in frames : f.kind # "torn"

\* What a process leaves behind is durable, unless no power loss can tell.  After a
\* Close it need not be if the next process starts after a power loss only.
SyncedInv ==
  /\ "powerloss" \in Env
  /\ IF pc = "exited" THEN "restart" \in Env ELSE pc \notin Running \/ ~open
  => synced = tail

\* No request in flight would clear what is owed.
ClaimInv ==
  \A c \in InFlight : \A p \in owed[req[c].event] : ~Clears(req[c], p)

\* Record f keeps event e waiting for provider p.
Backs(f, e, p) ==
  /\ f.kind = "event" /\ f.event = e /\ p \in f.providers
  /\ \A g \in frames : g.event = e /\ g.at > f.at => ~Clears(g, p)

\* What is owed is in a record that no power loss takes away, and once the index
\* is there, in a segment that the entry pins.
OwedInv ==
  \A e \in Events : \A p \in owed[e] : \E f \in frames :
    /\ Backs(f, e, p) /\ ("powerloss" \in Env => f.at <= synced)
    /\ pc \in Running \cup {"reclaim"} => p \in pending[e] /\ f.seg = segSeq[e]

-----------------------------------------------------------------------------

\* Without I/O errors every request is written and synced, and a reclaimed file
\* is gone.
NoErrors ==
  /\ pc \in Running => open /\ files = segments
  /\ pc = "idle" => slot = <<>>
  /\ \A j \in 1..Len(slot) : /\ slot[j].verdict # "failed"
                             /\ pc = "apply" => slot[j].verdict = "synced"

Applied == frames \ Unapplied

From == IF pc = "apply" THEN i ELSE 1

\* While the writer runs, the index is what the applied records say, and what is
\* still to be applied comes after them, in order.
AppliedInv ==
  pc \in Running =>
    /\ Indexed(pending, segSeq, Applied)
    /\ \A j \in From..Len(slot), f \in Applied : f.at < slot[j].at
    /\ \A j, k \in From..Len(slot) : j < k => slot[j].at < slot[k].at
-----------------------------------------------------------------------------
(* Records. *)

\* The fields of a frame.
LEMMA FrameTypes ==
  ASSUME NEW f \in Frames
  PROVE  /\ f.at \in Nat /\ f.seg \in Nat /\ f.kind \in {"event", "ack", "torn"}
         /\ f.event \in Events /\ f.providers \subseteq Providers
BY DEF Frames

\* f is a readable record after all of D.
After(D, f) ==
  /\ D \subseteq Frames /\ f \in Frames /\ f.kind # "torn"
  /\ \A g \in D : g.at < f.at

\* A record after all others changes its event alone, in the way apply does.
LEMMA UnresolvedAdd ==
  ASSUME NEW D, NEW f, After(D, f), NEW e \in Events
  PROVE  /\ f.event # e => Unresolved(e, D \cup {f}) = Unresolved(e, D)
         /\ f.event = e /\ f.kind = "event" =>
              Unresolved(e, D \cup {f}) = f.providers
         /\ f.event = e /\ f.kind = "ack" =>
              Unresolved(e, D \cup {f}) = Unresolved(e, D) \ f.providers
<1> DEFINE U == Unresolved(e, D \cup {f})
<1>t. /\ \A g \in D : g \in Frames /\ g.at \in Nat
      /\ f.at \in Nat /\ f.kind \in {"event", "ack"} /\ f.providers \subseteq Providers
      /\ \A g \in D : g.at < f.at
  BY FrameTypes DEF After
<1>1. CASE f.event # e
  BY <1>1 DEF Unresolved
<1>2. CASE f.event = e /\ f.kind = "event"
  <2>1. ASSUME NEW p \in U PROVE p \in f.providers
    <3>1. PICK h \in D \cup {f} :
            /\ h.kind = "event" /\ h.event = e /\ p \in h.providers
            /\ \A g \in D \cup {f} : g.event = e /\ g.at > h.at => ~Clears(g, p)
      BY <2>1 DEF Unresolved
    <3>2. CASE h = f
      BY <3>1, <3>2
    <3>3. CASE h # f
      <4>1. f.at > h.at
        BY <1>t, <3>3
      <4> QED
        BY <1>2, <3>1, <4>1 DEF Clears
    <3> QED
      BY <3>2, <3>3
  <2>2. ASSUME NEW p \in f.providers PROVE p \in U
    <3>1. \A g \in D \cup {f} : ~(g.at > f.at)
      BY <1>t
    <3> QED
      BY <1>2, <1>t, <3>1 DEF Unresolved
  <2> QED
    BY <1>2, <2>1, <2>2
<1>3. CASE f.event = e /\ f.kind = "ack"
  <2>1. ASSUME NEW p \in U PROVE p \in Unresolved(e, D) /\ p \notin f.providers
    <3>1. PICK h \in D \cup {f} :
            /\ h.kind = "event" /\ h.event = e /\ p \in h.providers
            /\ \A g \in D \cup {f} : g.event = e /\ g.at > h.at => ~Clears(g, p)
      BY <2>1 DEF Unresolved
    <3>2. h \in D /\ f.at > h.at
      BY <1>3, <1>t, <3>1
    <3>3. ~Clears(f, p) /\ p \in Providers
      BY <1>3, <2>1, <3>1, <3>2 DEF Unresolved
    <3> QED
      BY <1>3, <3>1, <3>2, <3>3 DEF Unresolved, Clears
  <2>2. ASSUME NEW p \in Unresolved(e, D), p \notin f.providers PROVE p \in U
    <3>1. ~Clears(f, p)
      BY <1>3, <2>2 DEF Clears
    <3> QED
      BY <2>2, <3>1 DEF Unresolved
  <2> QED
    BY <1>3, <2>1, <2>2
<1> QED
  BY <1>1, <1>2, <1>3, <1>t

\* Replaying a record, or applying its request, keeps the index in step.
LEMMA IndexedAdd ==
  ASSUME NEW P \in [Events -> SUBSET Providers], NEW S \in [Events -> Nat],
         NEW D, Indexed(P, S, D), NEW f, After(D, f),
         NEW P2 \in [Events -> SUBSET Providers], NEW S2 \in [Events -> Nat],
         \A e \in Events :
           /\ e # f.event => P2[e] = P[e]
           /\ ~(e = f.event /\ f.kind = "event") => S2[e] = S[e],
         P2[f.event] = IF f.kind = "event" THEN f.providers
                                           ELSE P[f.event] \ f.providers,
         f.kind = "event" => S2[f.event] = f.seg
  PROVE  Indexed(P2, S2, D \cup {f})
<1> SUFFICES ASSUME NEW e \in Events
             PROVE  /\ P2[e] = Unresolved(e, D \cup {f})
                    /\ P2[e] # {} => \E L \in D \cup {f} :
                         /\ Latest(L, e, D \cup {f}) /\ L.seg = S2[e]
                         /\ P2[e] \subseteq L.providers
  BY DEF Indexed
<1>t. /\ f.at \in Nat /\ f.kind \in {"event", "ack"} /\ f.event \in Events
      /\ \A g \in D : g.at \in Nat /\ g.at < f.at
  BY FrameTypes DEF After
<1>1. P[e] = Unresolved(e, D)
  BY DEF Indexed
<1>2. P2[e] = Unresolved(e, D \cup {f})
  <2> DEFINE U == Unresolved(e, D \cup {f})
  <2>1. /\ f.event # e => U = Unresolved(e, D)
        /\ f.event = e /\ f.kind = "event" => U = f.providers
        /\ f.event = e /\ f.kind = "ack" => U = Unresolved(e, D) \ f.providers
    BY UnresolvedAdd
  <2> HIDE DEF U
  <2>2. P2[e] = U
    BY <1>1, <1>t, <2>1
  <2> QED
    BY <2>2 DEF U
<1>3. CASE e = f.event /\ f.kind = "event"
  <2>1. Latest(f, e, D \cup {f})
    BY <1>3, <1>t DEF Latest
  <2> QED
    BY <1>2, <1>3, <2>1
<1>4. CASE ~(e = f.event /\ f.kind = "event")
  <2> SUFFICES ASSUME P2[e] # {}
               PROVE  \E L \in D \cup {f} :
                        /\ Latest(L, e, D \cup {f}) /\ L.seg = S2[e]
                        /\ P2[e] \subseteq L.providers
    BY <1>2
  <2>1. P2[e] \subseteq P[e] /\ S2[e] = S[e]
    BY <1>4, <1>t
  <2>2. PICK L \in D : /\ Latest(L, e, D) /\ L.seg = S[e]
                       /\ P[e] \subseteq L.providers
    BY <2>1 DEF Indexed
  <2>3. Latest(L, e, D \cup {f})
    BY <1>4, <2>2 DEF Latest
  <2> QED
    BY <2>1, <2>2, <2>3
<1> QED
  BY <1>3, <1>4

\* Deleting the oldest segment changes nothing if no entry refers to it.
LEMMA IndexedDrop ==
  ASSUME NEW P \in [Events -> SUBSET Providers], NEW S \in [Events -> Nat],
         NEW D \in SUBSET Frames, Indexed(P, S, D),
         \A f, g \in D : f.at <= g.at => f.seg <= g.seg,
         NEW s \in Nat, \A f \in D : s <= f.seg,
         \A e \in Events : P[e] # {} => S[e] # s
  PROVE  Indexed(P, S, {f \in D : f.seg # s})
<1> DEFINE K == {f \in D : f.seg # s}
<1> SUFFICES ASSUME NEW e \in Events
             PROVE  /\ P[e] = Unresolved(e, K)
                    /\ P[e] # {} => \E L \in K :
                         /\ Latest(L, e, K) /\ L.seg = S[e]
                         /\ P[e] \subseteq L.providers
  BY DEF Indexed
<1>t. \A f \in D : f.at \in Nat /\ f.seg \in Nat
  BY FrameTypes
<1>1. P[e] = Unresolved(e, D)
  BY DEF Indexed
<1>2. P[e] # {} => \E L \in K : /\ Latest(L, e, D) /\ L.seg = S[e]
                                /\ P[e] \subseteq L.providers
  BY DEF Indexed
<1>3. \A L \in K : Latest(L, e, D) => Latest(L, e, K)
  BY DEF Latest
<1>4. ASSUME NEW p \in P[e] PROVE p \in Unresolved(e, K)
  <2>1. PICK L \in K : Latest(L, e, D) /\ P[e] \subseteq L.providers
    BY <1>2, <1>4
  <2>2. PICK h \in D :
          /\ h.kind = "event" /\ h.event = e /\ p \in h.providers
          /\ \A g \in D : g.event = e /\ g.at > h.at => ~Clears(g, p)
    BY <1>1, <1>4 DEF Unresolved
  <2>3. h.at <= L.at
    BY <2>1, <2>2 DEF Latest
  <2>4. \A g \in K : g.event = e /\ g.at > L.at => ~Clears(g, p)
    BY <1>t, <2>2, <2>3
  <2>5. p \in Providers
    BY <1>4
  <2> QED
    BY <1>4, <2>1, <2>4, <2>5 DEF Unresolved, Latest
<1>5. ASSUME NEW p \in Unresolved(e, K) PROVE p \in P[e]
  <2>1. PICK h \in K :
          /\ h.kind = "event" /\ h.event = e /\ p \in h.providers
          /\ \A g \in K : g.event = e /\ g.at > h.at => ~Clears(g, p)
    BY <1>5 DEF Unresolved
  <2>2. \A g \in D : g.at > h.at => g \in K
    BY <1>t, <2>1
  <2>3. p \in Unresolved(e, D)
    BY <1>5, <2>1, <2>2 DEF Unresolved
  <2> QED
    BY <1>1, <2>3
<1> HIDE DEF K
<1> QED
  BY <1>2, <1>3, <1>4, <1>5

-----------------------------------------------------------------------------
(* The order of the frames. *)

LEMMA OrderStep ==
  TypeInv /\ SegmentsInv /\ OrderInv /\ [Next]_vars => OrderInv'
<1> USE DEF diskVars, indexVars, segVars, callVars, commitVars, envVars, Running
<1> SUFFICES ASSUME TypeInv, SegmentsInv, OrderInv, [Next]_vars PROVE OrderInv'
  OBVIOUS
<1>0. /\ frames \subseteq Frames /\ tail \in Nat /\ active \in Nat
      /\ \A f \in frames : f.at \in Nat /\ f.seg \in Nat
  BY FrameTypes DEF TypeInv, TypeOK
<1>a. ASSUME frames' \subseteq frames, tail' = tail,
             pc' \notin Running \/ (pc \in Running /\ active' = active)
      PROVE  OrderInv'
  BY <1>a DEF OrderInv
<1>1. CASE UNCHANGED vars
  BY <1>1, <1>a DEF vars
<1>2. CASE Open
  BY <1>2, <1>a DEF Open
<1>3. ASSUME NEW f \in frames, ReplayRecord(f) PROVE OrderInv'
  BY <1>3, <1>a DEF ReplayRecord
<1>4. CASE CountReferences
  BY <1>4, <1>a DEF CountReferences
<1>5. ASSUME NEW seg \in segments, ReclaimAtStart(seg) PROVE OrderInv'
  BY <1>5, <1>a DEF ReclaimAtStart, Unlink
<1>6. ASSUME NEW seg \in segments, ReclaimAtStartFails(seg) PROVE OrderInv'
  BY <1>6, <1>a DEF ReclaimAtStartFails
<1>7. CASE StartWriter
  <2>1. pc = "reclaim" /\ UNCHANGED <<frames, tail, active>>
    BY <1>7 DEF StartWriter
  <2>2. \A f \in frames : f.seg <= active
    BY <2>1 DEF SegmentsInv
  <2> QED
    BY <2>1, <2>2 DEF OrderInv
<1>8. ASSUME NEW c \in Callers, Send(c) PROVE OrderInv'
  <2>1. UNCHANGED <<frames, tail, pc, active>>
    BY <1>8 DEF Send
  <2> QED
    BY <1>a, <2>1
<1>9. ASSUME NEW c \in Callers, NEW r \in Requests, Submit(c, r) PROVE OrderInv'
  BY <1>9, <1>a DEF Submit
<1>10. CASE DrainBatch
  BY <1>10, <1>a DEF DrainBatch
<1>11. ASSUME NEW how \in {"whole", "part", "none"}, WriteFrame(how)
       PROVE  OrderInv'
  <2> DEFINE seg == IF NeedsRotation(req[batch[i]]) THEN active + 1 ELSE active
  <2>1. pc = "write" /\ pc' = "write" /\ active' = seg
    BY <1>11 DEF WriteFrame
  <2>2. \/ frames' = frames /\ tail' = tail
        \/ /\ tail' = tail + 1
           /\ \E new : new.at = tail + 1 /\ new.seg = seg /\ frames' = frames \cup {new}
    BY <1>11 DEF WriteFrame
  <2>3. seg \in Nat /\ active <= seg
    BY <1>0
  <2> HIDE DEF seg
  <2>4. /\ \A f \in frames : 1 <= f.at /\ f.at <= tail /\ f.seg <= active
        /\ \A f, g \in frames : f.at = g.at => f = g
        /\ \A f, g \in frames : f.at <= g.at => f.seg <= g.seg
    BY <2>1 DEF OrderInv
  <2>5. CASE frames' = frames /\ tail' = tail
    BY <1>0, <2>1, <2>3, <2>4, <2>5 DEF OrderInv
  <2>6. CASE /\ tail' = tail + 1
             /\ \E new : new.at = tail + 1 /\ new.seg = seg /\ frames' = frames \cup {new}
    <3>1. PICK new : new.at = tail + 1 /\ new.seg = seg /\ frames' = frames \cup {new}
      BY <2>6
    <3>2. \A f \in frames : f.at < new.at /\ f.seg <= seg
      BY <1>0, <2>3, <2>4, <3>1
    <3>3. \A f \in frames' : 1 <= f.at /\ f.at <= tail' /\ f.seg <= active'
      BY <1>0, <2>1, <2>3, <2>4, <2>6, <3>1, <3>2
    <3>4. \A f, g \in frames' : f.at = g.at => f = g
      BY <1>0, <2>4, <3>1, <3>2
    <3>5. \A f, g \in frames' : f.at <= g.at => f.seg <= g.seg
      BY <1>0, <2>3, <2>4, <3>1, <3>2
    <3> QED
      BY <3>3, <3>4, <3>5 DEF OrderInv
  <2> QED
    BY <2>2, <2>5, <2>6
<1>12. ASSUME NEW afterSync \in BOOLEAN, RotateFails(afterSync) PROVE OrderInv'
  BY <1>12, <1>a DEF RotateFails
<1>13. ASSUME NEW ok \in BOOLEAN, FinalSync(ok) PROVE OrderInv'
  BY <1>13, <1>a DEF FinalSync
<1>14. CASE ApplyRequest
  BY <1>14, <1>a DEF ApplyRequest
<1>15. ASSUME NEW seg \in segments, GcSegment(seg) PROVE OrderInv'
  <2>1. frames' \subseteq frames /\ UNCHANGED <<tail, pc, active>> /\ pc = "apply"
    BY <1>15 DEF GcSegment, Unlink
  <2> QED
    BY <1>a, <2>1
<1>16. CASE EndBatch
  BY <1>16, <1>a DEF EndBatch
<1>17. CASE WriterExits
  BY <1>17, <1>a DEF WriterExits
<1>18. CASE Close
  BY <1>18, <1>a DEF Close
<1>19. ASSUME NEW k \in 0..tail, NEW torn \in BOOLEAN, PowerLoss(k, torn)
       PROVE  OrderInv'
  <2>1. pc' = "down" /\ tail' = tail
    BY <1>19 DEF PowerLoss
  <2> DEFINE Torn(g) == [g EXCEPT !.kind = "torn"]
             Rest(f, g) == \/ f = g /\ g.at <= k
                           \/ f = Torn(g) /\ g.at = k + 1
  <2>t. \A g \in frames : Torn(g).seg = g.seg /\ Torn(g).at = g.at
    BY <1>0 DEF Frames
  <2>2. \A f \in frames' : \E g \in frames : Rest(f, g)
    BY <1>19 DEF PowerLoss
  <2> HIDE DEF Torn
  <2>s. \A f \in frames' : \E g \in frames : f.at = g.at /\ f.seg = g.seg
    BY <2>t, <2>2
  <2>3. \A f \in frames' : 1 <= f.at /\ f.at <= tail
    BY <2>s DEF OrderInv
  <2>4. \A f, g \in frames' : f.at <= g.at => f.seg <= g.seg
    BY <2>s DEF OrderInv
  <2>5. ASSUME NEW f \in frames', NEW g \in frames', f.at = g.at PROVE f = g
    <3>1. PICK x \in frames : Rest(f, x)
      BY <2>2
    <3>2. PICK y \in frames : Rest(g, y)
      BY <2>2
    <3>3. x = y
      BY <2>5, <2>t, <3>1, <3>2 DEF OrderInv
    <3>4. ~(x.at <= k /\ x.at = k + 1)
      BY <1>0
    <3> QED
      BY <3>1, <3>2, <3>3, <3>4
  <2> QED
    BY <2>1, <2>3, <2>4, <2>5 DEF OrderInv
<1>20. CASE Kill
  BY <1>20, <1>a DEF Kill
<1> QED
  BY <1>1, <1>2, <1>3, <1>4, <1>5, <1>6, <1>7, <1>8, <1>9, <1>10, <1>11, <1>12,
     <1>13, <1>14, <1>15, <1>16, <1>17, <1>18, <1>19, <1>20
     DEF Next, Startup, Replay, Writer, CallAppend, CallAck

-----------------------------------------------------------------------------
(* Replay. *)

\* Deleting a file takes its records away and leaves the others readable.
LEMMA DecodedUnlink ==
  ASSUME NEW seg, Unlink(seg)
  PROVE  Decoded' = {f \in Decoded : f.seg # seg}
BY DEF Unlink, Decoded

\* A segment that may be reclaimed has no entry that refers to it.
LEMMA ReclaimableUnpinned ==
  ASSUME CountInv, NEW seg \in segments, Reclaimable(seg),
         pc \in {"reclaim"} \cup Running
  PROVE  \A e \in Events : pending[e] # {} => segSeq[e] # seg
<1>1. Cardinality(Pinned(seg)) = 0
  BY DEF CountInv, RefCountExact, Reclaimable
<1>2. Pinned(seg) = {}
  BY <1>1, PinnedFinite, FS_EmptySet
<1> QED
  BY <1>2 DEF Pinned

\* What apply, and replay alike, makes of the index.
LEMMA AfterRequest ==
  ASSUME TypeOK, NEW r, r.event \in Events, NEW s \in Nat,
         r.providers \subseteq Providers
  PROVE  /\ PendingAfter(r) \in [Events -> SUBSET Providers]
         /\ SegSeqAfter(r, s) \in [Events -> Nat]
         /\ \A e \in Events :
              /\ e # r.event => PendingAfter(r)[e] = pending[e]
              /\ ~(e = r.event /\ r.kind = "event") => SegSeqAfter(r, s)[e] = segSeq[e]
         /\ PendingAfter(r)[r.event] =
              IF r.kind = "event" THEN r.providers
                                  ELSE pending[r.event] \ r.providers
         /\ r.kind = "event" => SegSeqAfter(r, s)[r.event] = s
<1>1. pending \in [Events -> SUBSET Providers] /\ segSeq \in [Events -> Nat]
  BY DEF TypeOK
<1> QED
  BY <1>1 DEF PendingAfter, SegSeqAfter

LEMMA ReplayStep ==
  TypeInv /\ CountInv /\ OrderInv /\ ReplayInv /\ [Next]_vars => ReplayInv'
<1> USE DEF diskVars, indexVars, segVars, callVars, commitVars, envVars
<1> SUFFICES ASSUME TypeInv, CountInv, OrderInv, ReplayInv, [Next]_vars
             PROVE  ReplayInv'
  OBVIOUS
<1>0. /\ frames \subseteq Frames /\ tail \in Nat /\ pos \in Nat
      /\ pending \in [Events -> SUBSET Providers] /\ segSeq \in [Events -> Nat]
  BY DEF TypeInv, TypeOK
<1>t. /\ Decoded \subseteq frames /\ \A f \in Decoded : f.kind # "torn"
      /\ \A f \in frames : f.at \in Nat /\ f.seg \in Nat
  BY <1>0, FrameTypes DEF Decoded
<1>a. ASSUME pc' \notin {"replay", "reclaim"} PROVE ReplayInv'
  BY <1>a DEF ReplayInv
<1>1. CASE UNCHANGED vars
  <2>1. /\ UNCHANGED <<frames, pc, pos, pending, segSeq>>
    BY <1>1 DEF vars
  <2>2. Decoded' = Decoded
    BY <2>1 DEF Decoded
  <2>3. Replayed' = Replayed
    BY <2>1, <2>2 DEF Replayed
  <2> QED
    BY <2>1, <2>2, <2>3 DEF ReplayInv
<1>2. CASE Open
  <2>1. /\ pc' = "replay" /\ pos' = 0 /\ frames' = frames
        /\ pending' = [e \in Events |-> {}]
    BY <1>2 DEF Open, LoseMemory
  <2>2. Decoded' = Decoded
    BY <2>1 DEF Decoded
  <2>3. Replayed' = {}
    BY <1>t, <2>1, <2>2 DEF Replayed, OrderInv
  <2>4. \A e \in Events : Unresolved(e, {}) = {}
    BY DEF Unresolved
  <2>5. Indexed(pending', segSeq', {})
    BY <2>1, <2>4 DEF Indexed
  <2> QED
    BY <2>1, <2>3, <2>5 DEF ReplayInv
<1>3. ASSUME NEW f \in frames, ReplayRecord(f) PROVE ReplayInv'
  <2>1. /\ pc = "replay" /\ pc' = "replay" /\ f \in Decoded /\ pos < f.at
        /\ \A g \in Decoded : pos < g.at => f.at <= g.at
        /\ pending' = PendingAfter(f) /\ segSeq' = SegSeqAfter(f, f.seg)
        /\ pos' = f.at /\ frames' = frames
    BY <1>3 DEF ReplayRecord
  <2>2. Decoded' = Decoded
    BY <2>1 DEF Decoded
  <2>3. Replayed' = Replayed \cup {f}
    <3>1. \A g \in Decoded : g.at <= f.at <=> (g.at <= pos \/ g = f)
      BY <1>0, <1>t, <2>1 DEF OrderInv
    <3> QED
      BY <2>1, <2>2, <3>1 DEF Replayed
  <2>4. /\ Replayed \in SUBSET Frames /\ \A g \in Replayed : g.at < f.at
        /\ f \in Frames /\ f.kind # "torn"
    BY <1>0, <1>t, <2>1 DEF Replayed
  <2>5. f.event \in Events /\ f.providers \subseteq Providers /\ f.seg \in Nat
    BY <2>4, FrameTypes
  <2>6. Indexed(pending, segSeq, Replayed)
    BY <2>1 DEF ReplayInv
  <2>7. TypeOK
    BY DEF TypeInv
  <2>8. /\ pending' \in [Events -> SUBSET Providers] /\ segSeq' \in [Events -> Nat]
        /\ \A e \in Events :
             /\ e # f.event => pending'[e] = pending[e]
             /\ ~(e = f.event /\ f.kind = "event") => segSeq'[e] = segSeq[e]
        /\ pending'[f.event] = IF f.kind = "event" THEN f.providers
                                             ELSE pending[f.event] \ f.providers
        /\ f.kind = "event" => segSeq'[f.event] = f.seg
    BY <2>1, <2>5, <2>7, AfterRequest
  <2>a. After(Replayed, f)
    BY <2>4 DEF After
  <2>9. Indexed(pending', segSeq', Replayed \cup {f})
    BY <1>0, <2>6, <2>8, <2>a, IndexedAdd
  <2> QED
    BY <2>1, <2>3, <2>9 DEF ReplayInv
<1>4. CASE CountReferences
  <2>1. /\ pc = "replay" /\ pc' = "reclaim" /\ \A f \in Decoded : f.at <= pos
        /\ UNCHANGED <<frames, pos, pending, segSeq>>
    BY <1>4 DEF CountReferences
  <2>2. Decoded' = Decoded
    BY <2>1 DEF Decoded
  <2>3. Replayed' = Replayed /\ Decoded = Replayed
    BY <2>1, <2>2 DEF Replayed
  <2> QED
    BY <2>1, <2>2, <2>3 DEF ReplayInv
<1>5. ASSUME NEW seg \in segments, ReclaimAtStart(seg) PROVE ReplayInv'
  <2>1. /\ pc = "reclaim" /\ pc' = "reclaim" /\ Reclaimable(seg) /\ Unlink(seg)
        /\ UNCHANGED <<pos, pending, segSeq>>
    BY <1>5 DEF ReclaimAtStart
  <2>2. Decoded' = {f \in Decoded : f.seg # seg} /\ Decoded = Replayed
    BY <2>1, DecodedUnlink DEF ReplayInv
  <2>3. Replayed' = {f \in Replayed : f.seg # seg}
    BY <2>1, <2>2 DEF Replayed
  <2>4. \A e \in Events : pending[e] # {} => segSeq[e] # seg
    BY <2>1, ReclaimableUnpinned
  <2>5. \A f \in Replayed : seg <= f.seg
    BY <1>t, <2>1 DEF Replayed, Reclaimable, CountInv, SegmentsInv
  <2>6. \A f, g \in Replayed : f.at <= g.at => f.seg <= g.seg
    BY <1>t DEF Replayed, OrderInv
  <2>7. seg \in Nat /\ Replayed \in SUBSET Frames
    BY <1>0, <1>t DEF Replayed, TypeInv, TypeOK
  <2>8. Indexed(pending, segSeq, Replayed)
    BY <2>1 DEF ReplayInv
  <2>9. Indexed(pending, segSeq, {f \in Replayed : f.seg # seg})
    BY <1>0, <2>4, <2>5, <2>6, <2>7, <2>8, IndexedDrop
  <2> QED
    BY <2>1, <2>2, <2>3, <2>9 DEF ReplayInv
<1>6. ASSUME NEW seg \in segments, ReclaimAtStartFails(seg) PROVE ReplayInv'
  BY <1>6, <1>a DEF ReclaimAtStartFails
<1>7. CASE StartWriter
  BY <1>7, <1>a DEF StartWriter
<1>8. ASSUME NEW c \in Callers, Send(c) PROVE ReplayInv'
  BY <1>8, <1>a DEF Send, Running
<1>9. ASSUME NEW c \in Callers, NEW r \in Requests, Submit(c, r) PROVE ReplayInv'
  BY <1>9, <1>a DEF Submit, Running
<1>10. CASE Writer
  <2>1. pc' \notin {"replay", "reclaim"}
    BY <1>10 DEF Writer, DrainBatch, WriteFrame, RotateFails, FinalSync,
                 ApplyRequest, GcSegment, EndBatch, WriterExits
  <2> QED
    BY <1>a, <2>1
<1>11. CASE Close
  BY <1>11, <1>a DEF Close, Running
<1>12. ASSUME NEW k \in 0..tail, NEW torn \in BOOLEAN, PowerLoss(k, torn)
       PROVE  ReplayInv'
  BY <1>12, <1>a DEF PowerLoss
<1>13. CASE Kill
  BY <1>13, <1>a DEF Kill
<1> QED
  BY <1>1, <1>2, <1>3, <1>4, <1>5, <1>6, <1>7, <1>8, <1>9, <1>10, <1>11, <1>12,
     <1>13 DEF Next, Startup, Replay, CallAppend, CallAck

\* What holds of every behaviour, whatever the environment does.
BaseInv == TypeInv /\ DurableInv /\ CountInv /\ OrderInv /\ ReplayInv

LEMMA BaseInvariant == Spec => []BaseInv
<1>1. Init => DurableInv /\ OrderInv /\ ReplayInv
  BY DEF Init, DurableInv, OrderInv, ReplayInv, Running
<1>2. BaseInv /\ TypeInv' /\ [Next]_vars => BaseInv'
  BY DurableStep, CountStep, OrderStep, ReplayStep DEF BaseInv, CountInv
<1>3. Init => CountInv
  BY CountInit
<1> QED
  BY TypeInvariant, <1>1, <1>2, <1>3, PTL DEF Spec, BaseInv

\* ReplayExact, with torn frames, kills and every I/O error: replay's loop over
\* the records of all segments computes what the readable records say, and the
\* removal of resolved segments that follows leaves that unchanged, although
\* the records it deletes are among those the index came from.
THEOREM ReplayIsExact == Spec => []ReplayExact
<1>1. BaseInv => ReplayExact
  BY DEF BaseInv, ReplayInv, ReplayExact, Indexed
<1> QED
  BY BaseInvariant, <1>1, PTL

-----------------------------------------------------------------------------
(* No garbage. *)

\* Between batches the first tracked segment is the active one or has references,
\* in every environment.
FrontInv == pc = "idle" => \A s \in segments : ~Reclaimable(s)

LEMMA FrontInvariant == Spec => []FrontInv
<1> USE DEF diskVars, indexVars, segVars, callVars, commitVars, envVars
<1>1. Init => FrontInv
  BY DEF Init, FrontInv
<1>2. ASSUME BaseInv, FrontInv, [Next]_vars PROVE FrontInv'
  <2>a. ASSUME UNCHANGED <<pc, segments, active, refCount>> PROVE FrontInv'
    BY <1>2, <2>a DEF FrontInv, Reclaimable
  <2>b. ASSUME pc' # "idle" PROVE FrontInv'
    BY <2>b DEF FrontInv
  <2>1. CASE UNCHANGED vars
    BY <2>1, <2>a DEF vars
  <2>2. CASE Open
    BY <2>2, <2>b DEF Open
  <2>3. ASSUME NEW f \in frames, ReplayRecord(f) PROVE FrontInv'
    BY <2>3, <2>b DEF ReplayRecord
  <2>4. CASE CountReferences
    BY <2>4, <2>b DEF CountReferences
  <2>5. ASSUME NEW seg \in segments, ReclaimAtStart(seg) \/ ReclaimAtStartFails(seg)
        PROVE FrontInv'
    BY <2>5, <2>b DEF ReclaimAtStart, ReclaimAtStartFails
  <2>6. CASE StartWriter
    <3>1. /\ pc = "reclaim" /\ \A s \in segments : ~Reclaimable(s)
          /\ active' = active
      BY <2>6 DEF StartWriter
    <3>2. CASE segments = {}
      <4>1. active = 0 /\ segments' = {0}
        BY <1>2, <2>6, <3>1, <3>2 DEF StartWriter, BaseInv, CountInv, SegmentsInv
      <4> QED
        BY <3>1, <4>1 DEF FrontInv, Reclaimable
    <3>3. CASE segments # {}
      <4>1. UNCHANGED <<segments, refCount>>
        BY <2>6, <3>3 DEF StartWriter
      <4> QED
        BY <3>1, <4>1 DEF FrontInv, Reclaimable
    <3> QED
      BY <3>2, <3>3
  <2>7. ASSUME NEW c \in Callers, Send(c) PROVE FrontInv'
    BY <2>7, <2>a DEF Send
  <2>8. ASSUME NEW c \in Callers, NEW r \in Requests, Submit(c, r)
        PROVE FrontInv'
    BY <2>8, <2>a DEF Submit
  <2>9. CASE EndBatch
    BY <2>9 DEF EndBatch, FrontInv, Reclaimable
  <2>10. CASE Writer /\ ~EndBatch
    <3>1. pc' # "idle"
      BY <2>10 DEF Writer, DrainBatch, WriteFrame, RotateFails, FinalSync,
                   ApplyRequest, GcSegment, WriterExits
    <3> QED
      BY <2>b, <3>1
  <2>11. CASE Close
    BY <2>11, <2>a DEF Close
  <2>12. ASSUME NEW k \in 0..tail, NEW torn \in BOOLEAN, PowerLoss(k, torn)
         PROVE  FrontInv'
    BY <2>12, <2>b DEF PowerLoss
  <2>13. CASE Kill
    BY <2>13, <2>b DEF Kill
  <2> QED
    BY <1>2, <2>1, <2>2, <2>3, <2>4, <2>5, <2>6, <2>7, <2>8, <2>9, <2>10, <2>11,
       <2>12, <2>13 DEF Next, Startup, Replay, CallAppend, CallAck
<1> QED
  BY BaseInvariant, <1>1, <1>2, PTL DEF Spec

-----------------------------------------------------------------------------
(* Accepted events survive. *)

\* What one iteration of the write loop puts into the log, if it leaves no
\* partial frame behind.
LEMMA FrameWritten ==
  ASSUME "tear" \notin Env, BaseInv,
         NEW how \in {"whole", "part", "none"}, WriteFrame(how)
  PROVE  \/ /\ how = "none" /\ UNCHANGED <<frames, tail>>
            /\ ~open => synced' = synced
         \/ /\ how = "whole" /\ open /\ tail' = tail + 1
            /\ \E new \in Frames :
                 /\ new.at = tail + 1 /\ new.seg = active'
                 /\ Holds(new, req[batch[i]]) /\ new.kind # "torn"
                 /\ frames' = frames \cup {new}
<1> DEFINE r   == req[batch[i]]
           rot == NeedsRotation(r)
           seg == IF rot THEN active + 1 ELSE active
           new == [at |-> tail + 1, seg |-> seg, kind |-> r.kind,
                   event |-> r.event, providers |-> r.providers]
<1>1. /\ how \in Writes(rot) /\ active' = seg
      /\ synced' = IF rot THEN tail ELSE synced
  BY DEF WriteFrame
<1>2. /\ r \in Requests /\ tail \in Nat /\ active \in Nat
  BY CurrentRequest DEF WriteFrame, BaseInv, TypeInv, TypeOK
<1>3. how # "part"
  BY <1>1 DEF Writes
<1>4. CASE how = "none"
  <2>1. UNCHANGED <<frames, tail>>
    BY <1>4 DEF WriteFrame
  <2>2. open \/ ~rot
    BY <1>1, <1>4 DEF Writes
  <2> QED
    BY <1>1, <1>4, <2>1, <2>2
<1>5. CASE how = "whole"
  <2>1. open
    BY <1>1, <1>5 DEF Writes
  <2>2. tail' = tail + 1 /\ frames' = frames \cup {new}
    BY <1>5 DEF WriteFrame
  <2>3. seg \in Nat
    BY <1>2
  <2>4. new \in Frames /\ new.at = tail + 1 /\ new.seg = seg /\ Holds(new, r)
        /\ new.kind # "torn"
    <3> HIDE DEF r, seg
    <3> QED
      BY <1>2, <2>3, RequestTypes DEF Frames, Holds
  <2> HIDE DEF new
  <2> QED
    BY <1>1, <1>5, <2>1, <2>2, <2>4
<1> QED
  BY <1>3, <1>4, <1>5

\* No partial frame is left behind.
LEMMA UntornStep ==
  ASSUME "tear" \notin Env, BaseInv, Untorn, [Next]_vars
  PROVE  Untorn'
<1> USE DEF diskVars, indexVars, segVars, callVars, commitVars, envVars
<1>1. ASSUME NEW how \in {"whole", "part", "none"}, WriteFrame(how) PROVE Untorn'
  BY <1>1, FrameWritten DEF Untorn
<1>2. ASSUME NEW k \in 0..tail, NEW torn \in BOOLEAN, PowerLoss(k, torn)
      PROVE  Untorn'
  <2>1. frames' \subseteq frames
    BY <1>2 DEF PowerLoss
  <2> QED
    BY <2>1 DEF Untorn
<1>3. ASSUME frames' \subseteq frames PROVE Untorn'
  BY <1>3 DEF Untorn
<1>4. ASSUME Startup \/ UNCHANGED vars \/ Close \/ Kill \/ (\E c \in Callers : Send(c))
             \/ (\E c \in Callers, r \in Requests : Submit(c, r))
      PROVE  frames' \subseteq frames
  BY <1>4 DEF Startup, vars, Close, Kill, Send, Submit, Open, Replay, ReplayRecord,
     CountReferences, ReclaimAtStart, ReclaimAtStartFails, Unlink, StartWriter
<1>5. ASSUME Writer, ~\E how \in {"whole", "part", "none"} : WriteFrame(how)
      PROVE  frames' \subseteq frames
  BY <1>5 DEF Writer, DrainBatch, RotateFails, FinalSync, ApplyRequest, GcSegment,
     Unlink, EndBatch, WriterExits
<1> QED
  BY <1>1, <1>2, <1>3, <1>4, <1>5 DEF Next, CallAppend, CallAck

\* A process that ends leaves nothing that a power loss could still take away.
LEMMA SyncedStep ==
  ASSUME "tear" \notin Env, ~({"kill", "powerloss"} \subseteq Env),
         ~({"restart", "sync", "powerloss"} \subseteq Env),
         BaseInv, SyncedInv, [Next]_vars
  PROVE  SyncedInv'
<1> USE DEF diskVars, indexVars, segVars, callVars, commitVars, envVars
<1> SUFFICES ASSUME "powerloss" \in Env PROVE SyncedInv'
  BY DEF SyncedInv
<1>k. "kill" \notin Env /\ ("restart" \in Env => "sync" \notin Env)
  OBVIOUS
<1>0. /\ pc # "exited" /\ (pc \notin Running \/ ~open) => synced = tail
      /\ pc = "exited" /\ "restart" \in Env => synced = tail
  BY DEF SyncedInv
<1>a. ASSUME UNCHANGED <<tail, synced>>, pc # "exited", pc \notin Running \/ ~open
      PROVE  SyncedInv'
  BY <1>0, <1>a DEF SyncedInv
<1>b. ASSUME UNCHANGED <<tail, synced, open>>, pc \in Running, pc' \in Running
      PROVE  SyncedInv'
  BY <1>0, <1>b DEF SyncedInv, Running
<1>c. ASSUME UNCHANGED <<tail, synced, open, pc>> PROVE SyncedInv'
  BY <1>0, <1>c DEF SyncedInv
<1>1. CASE UNCHANGED vars
  BY <1>1, <1>c DEF vars
<1>2. CASE Open
  <2>1. synced = tail
    BY <1>0, <1>2 DEF Open, Running
  <2> QED
    BY <1>2, <2>1 DEF Open, SyncedInv
<1>3. ASSUME NEW f \in frames, ReplayRecord(f) PROVE SyncedInv'
  BY <1>3, <1>a DEF ReplayRecord, Running
<1>4. CASE CountReferences
  BY <1>4, <1>a DEF CountReferences, Running
<1>5. ASSUME NEW seg \in segments, ReclaimAtStart(seg) \/ ReclaimAtStartFails(seg)
      PROVE  SyncedInv'
  BY <1>5, <1>a DEF ReclaimAtStart, ReclaimAtStartFails, Running
<1>6. CASE StartWriter
  BY <1>6, <1>a DEF StartWriter, Running
<1>7. ASSUME NEW c \in Callers, Send(c) PROVE SyncedInv'
  BY <1>7, <1>c DEF Send
<1>8. ASSUME NEW c \in Callers, NEW r \in Requests, Submit(c, r) PROVE SyncedInv'
  BY <1>8, <1>c DEF Submit
<1>9. CASE DrainBatch
  BY <1>9, <1>b DEF DrainBatch, Running
<1>10. ASSUME NEW how \in {"whole", "part", "none"}, WriteFrame(how)
       PROVE SyncedInv'
  <2>1. pc = "write" /\ pc' = "write" /\ open' = open
    BY <1>10 DEF WriteFrame
  <2>2. ~open => tail' = tail /\ synced' = synced
    BY <1>10, FrameWritten
  <2> QED
    BY <1>0, <2>1, <2>2 DEF SyncedInv, Running
<1>11. ASSUME NEW afterSync \in BOOLEAN, RotateFails(afterSync) PROVE SyncedInv'
  <2>1. /\ pc = "write" /\ pc' = "write" /\ tail' = tail /\ open' = (open /\ ~afterSync)
        /\ synced' = IF afterSync THEN tail ELSE synced
    BY <1>11, Zenon DEF RotateFails
  <2>2. CASE afterSync
    BY <2>1, <2>2 DEF SyncedInv
  <2>3. CASE ~afterSync
    <3>1. synced' = synced /\ (~open' => ~open)
      BY <2>1, <2>3
    <3> QED
      BY <1>0, <2>1, <3>1 DEF SyncedInv, Running
  <2> QED
    BY <2>2, <2>3
<1>12. ASSUME NEW ok \in BOOLEAN, FinalSync(ok) PROVE SyncedInv'
  <2>1. /\ pc = "write" /\ pc' = "apply" /\ tail' = tail /\ open' = open
        /\ synced' = tail \/ synced' = synced
    BY <1>12 DEF FinalSync
  <2> QED
    BY <1>0, <2>1 DEF SyncedInv, Running
<1>13. CASE ApplyRequest
  BY <1>13, <1>c DEF ApplyRequest
<1>14. ASSUME NEW seg \in segments, GcSegment(seg) PROVE SyncedInv'
  BY <1>14, <1>c DEF GcSegment
<1>15. CASE EndBatch
  BY <1>15, <1>b DEF EndBatch, Running
<1>16. CASE WriterExits
  <2>1. /\ tail' = tail /\ pc = "idle" /\ pc' = "exited"
        /\ "restart" \in Env => synced' = (IF open THEN tail ELSE synced)
    BY <1>16, <1>k DEF WriterExits
  <2> QED
    BY <1>0, <2>1 DEF SyncedInv
<1>17. CASE Close
  BY <1>17, <1>c DEF Close
<1>18. ASSUME NEW k \in 0..tail, NEW torn \in BOOLEAN, PowerLoss(k, torn)
       PROVE  SyncedInv'
  BY <1>18 DEF PowerLoss, SyncedInv
<1>19. CASE Kill
  BY <1>19, <1>k DEF Kill
<1> QED
  BY <1>1, <1>2, <1>3, <1>4, <1>5, <1>6, <1>7, <1>8, <1>9, <1>10, <1>11, <1>12,
     <1>13, <1>14, <1>15, <1>16, <1>17, <1>18, <1>19
     DEF Next, Startup, Replay, Writer, CallAppend, CallAck

\* A call withdraws what it would clear, and an answer promises nothing that
\* another call is about to clear.
LEMMA ClaimStep ==
  ASSUME BaseInv, ClaimInv, [Next]_vars
  PROVE  ClaimInv'
<1> USE DEF diskVars, indexVars, segVars, callVars, commitVars, envVars
<1>0. /\ st \in [Callers -> {"idle", "send", "wait"}]
      /\ req \in [Callers -> Requests \cup {NoRequest}]
      /\ owed \in [Events -> SUBSET Providers]
      /\ \A c \in InFlight : req[c] \in Requests /\ req[c].event \in Events
  BY RequestTypes DEF BaseInv, TypeInv, TypeOK, CallersOK, InFlight
<1>a. ASSUME UNCHANGED <<st, req, owed>> PROVE ClaimInv'
  BY <1>a DEF ClaimInv, InFlight
<1>b. ASSUME LoseMemory PROVE ClaimInv'
  <2>1. InFlight' = {}
    BY <1>b DEF LoseMemory, InFlight
  <2> QED
    BY <2>1 DEF ClaimInv
<1>1. ASSUME UNCHANGED vars \/ Close \/ (Writer /\ ~ApplyRequest) PROVE ClaimInv'
  <2>1. UNCHANGED <<st, req, owed>>
    BY <1>1 DEF vars, Close, Writer, DrainBatch, WriteFrame, RotateFails, FinalSync,
                GcSegment, EndBatch, WriterExits
  <2> QED
    BY <1>a, <2>1
<1>2. CASE Startup
  <2>1. LoseMemory \/ UNCHANGED <<st, req, owed>>
    BY <1>2 DEF Startup, Open, Replay, ReplayRecord, CountReferences,
                ReclaimAtStart, ReclaimAtStartFails, StartWriter
  <2> QED
    BY <1>a, <1>b, <2>1
<1>3. ASSUME NEW c \in Callers, Send(c) PROVE ClaimInv'
  <2>1. /\ st' = [st EXCEPT ![c] = "wait"] /\ st[c] = "send"
        /\ UNCHANGED <<req, owed>>
    BY <1>3 DEF Send
  <2>2. InFlight' = InFlight
    BY <1>0, <2>1 DEF InFlight
  <2> QED
    BY <2>1, <2>2 DEF ClaimInv
<1>4. ASSUME NEW c \in Callers, NEW r \in Requests, Submit(c, r) PROVE ClaimInv'
  <2>1. /\ st' = [st EXCEPT ![c] = "send"] /\ req' = [req EXCEPT ![c] = r]
        /\ owed' = [owed EXCEPT ![r.event] = {p \in @ : ~Clears(r, p)}]
    BY <1>4 DEF Submit
  <2>2. r.event \in Events
    BY RequestTypes
  <2>3. /\ \A e \in Events : owed'[e] \subseteq owed[e]
        /\ \A p \in owed'[r.event] : ~Clears(r, p)
    BY <1>0, <2>1, <2>2
  <2>4. ASSUME NEW d \in InFlight', NEW p \in owed'[req'[d].event]
        PROVE  ~Clears(req'[d], p)
    <3>1. CASE d = c
      <4>1. req'[d] = r
        BY <1>0, <2>1, <3>1
      <4> QED
        BY <2>3, <2>4, <4>1
    <3>2. CASE d # c
      <4>1. d \in InFlight /\ req'[d] = req[d]
        BY <1>0, <2>1, <3>2 DEF InFlight
      <4>2. p \in owed[req[d].event]
        BY <1>0, <2>3, <2>4, <4>1
      <4> QED
        BY <4>1, <4>2 DEF ClaimInv
    <3> QED
      BY <3>1, <3>2
  <2> QED
    BY <2>4 DEF ClaimInv
<1>5. CASE ApplyRequest
  <2> DEFINE c == batch[i]
             r == req[c]
  <2>1. /\ st' = [st EXCEPT ![c] = "idle"] /\ req' = [req EXCEPT ![c] = NoRequest]
        /\ owed' = owed \/ owed' = [owed EXCEPT ![r.event] = Promised(c, r)]
    BY <1>5 DEF ApplyRequest
  <2>2. c \in Callers /\ r \in Requests
    BY <1>5, CurrentRequest DEF ApplyRequest, BaseInv
  <2>3. r.event \in Events
    BY <2>2, RequestTypes
  <2> HIDE DEF c, r
  <2>4. ASSUME NEW d \in InFlight', NEW p \in owed'[req'[d].event]
        PROVE  ~Clears(req'[d], p)
    <3>1. d \in InFlight \ {c} /\ req'[d] = req[d]
      BY <1>0, <2>1, <2>2 DEF InFlight
    <3>2. CASE p \in owed[req[d].event]
      BY <3>1, <3>2 DEF ClaimInv
    <3>3. CASE p \notin owed[req[d].event]
      <4>1. req[d].event \in Events
        BY <1>0, <3>1
      <4>2. req[d].event = r.event /\ p \in Promised(c, r)
        BY <1>0, <2>1, <2>3, <2>4, <3>1, <3>3, <4>1
      <4> QED
        BY <3>1, <4>2 DEF Promised
    <3> QED
      BY <3>2, <3>3
  <2> QED
    BY <2>4 DEF ClaimInv
<1>6. ASSUME NEW k \in 0..tail, NEW torn \in BOOLEAN, PowerLoss(k, torn)
      PROVE  ClaimInv'
  BY <1>6, <1>b DEF PowerLoss
<1>7. CASE Kill
  BY <1>7, <1>b DEF Kill
<1> QED
  BY <1>1, <1>2, <1>3, <1>4, <1>5, <1>6, <1>7 DEF Next, CallAppend, CallAck

\* The positions of the batch survive a sync, and a failed one drops its slots.
LEMMA Settled ==
  ASSUME NEW sl \in Seq(Slots), NEW j \in 1..Len(sl)
  PROVE  /\ Len(Settle(sl)) = Len(sl) /\ Settle(sl)[j].at = sl[j].at
         /\ Settle(sl)[j].seg = sl[j].seg
         /\ Settle(sl)[j].verdict = "failed" <=> sl[j].verdict = "failed"
<1>1. sl[j] \in Slots
  OBVIOUS
<1>2. Settle(sl)[j] = IF sl[j].verdict = "written"
        THEN [verdict |-> "synced", seg |-> sl[j].seg, at |-> sl[j].at]
        ELSE sl[j]
  BY DEF Settle
<1> QED
  BY <1>1, <1>2, SettleType

\* Every step keeps the batch in step with the log.
LEMMA BatchStep ==
  ASSUME "tear" \notin Env, BaseInv, BatchInv, [Next]_vars
  PROVE  BatchInv'
<1> USE DEF diskVars, indexVars, segVars, callVars, commitVars, envVars
<1>0. /\ slot \in Seq(Slots) /\ batch \in Seq(Callers) /\ tail \in Nat
      /\ i \in Nat \ {0} /\ frames \subseteq Frames
      /\ \A f \in frames : f.at \in Nat /\ f.at <= tail
      /\ req \in [Callers -> Requests \cup {NoRequest}]
  BY FrameTypes DEF BaseInv, TypeInv, TypeOK, Slots, OrderInv
<1>t. \A j \in 1..Len(slot) : slot[j] \in Slots /\ slot[j].at \in Nat /\ slot[j].at <= tail
  <2>1. \A j \in 1..Len(slot) : slot[j] \in Slots
    BY <1>0
  <2> QED
    BY <2>1 DEF Slots, BaseInv, DurableInv
<1>l. pc \in {"write", "apply"} => Len(slot) <= Len(batch)
  BY <1>0 DEF BaseInv, TypeInv, BatchOK
\* The later slots of the batch are still to be answered.
<1>f. ASSUME NEW j \in Todo, NEW k \in 1..Len(slot), j < k PROVE k \in Todo
  BY <1>0, <1>l, <1>f DEF Todo
<1>a. ASSUME UNCHANGED <<frames, slot, batch, pc, i>>,
             \A j \in Todo : req'[batch[j]] = req[batch[j]]
      PROVE  BatchInv'
  <2>1. Todo' = Todo
    BY <1>a DEF Todo
  <2> SUFFICES ASSUME NEW j \in 1..Len(slot), j \in Todo, slot[j].verdict # "failed"
               PROVE  /\ \E f \in frames : /\ f.at = slot[j].at /\ f.seg = slot[j].seg
                                           /\ Holds(f, req'[batch[j]])
                      /\ \A g \in frames : g.at > slot[j].at =>
                           \E k \in 1..Len(slot) : j < k /\ Holds(g, req'[batch[k]])
    BY <1>a, <2>1 DEF BatchInv
  <2>2. \A k \in 1..Len(slot) : j < k => req'[batch[k]] = req[batch[k]]
    BY <1>a, <1>f
  <2>3. req'[batch[j]] = req[batch[j]]
    BY <1>a
  <2> QED
    BY <2>2, <2>3 DEF BatchInv
<1>b. ASSUME slot' = <<>> \/ Todo' = {} PROVE BatchInv'
  BY <1>b DEF BatchInv
<1>c. ASSUME pc' \notin {"write", "apply"} PROVE BatchInv'
  <2>1. Todo' = {}
    BY <1>c DEF Todo
  <2> QED
    BY <1>b, <2>1
<1>1. CASE UNCHANGED vars
  BY <1>1, <1>a DEF vars
<1>2. CASE Startup
  <2>1. pc' \notin {"write", "apply"}
    BY <1>2 DEF Startup, Open, Replay, ReplayRecord, CountReferences,
                ReclaimAtStart, ReclaimAtStartFails, StartWriter
  <2> QED
    BY <1>c, <2>1
<1>3. ASSUME NEW c \in Callers, Send(c) PROVE BatchInv'
  BY <1>3, <1>a DEF Send
<1>4. ASSUME NEW c \in Callers, NEW r \in Requests, Submit(c, r) PROVE BatchInv'
  <2>1. /\ req' = [req EXCEPT ![c] = r] /\ st[c] = "idle"
        /\ UNCHANGED <<frames, slot, batch, pc, i>>
    BY <1>4 DEF Submit
  <2>2. \A j \in Todo : batch[j] # c
    BY <2>1 DEF BaseInv, TypeInv, BatchOK
  <2>3. \A j \in Todo : req'[batch[j]] = req[batch[j]]
    BY <1>0, <2>1, <2>2 DEF Todo
  <2> QED
    BY <1>a, <2>1, <2>3
<1>5. CASE DrainBatch
  BY <1>5, <1>b DEF DrainBatch
<1>6. ASSUME NEW how \in {"whole", "part", "none"}, WriteFrame(how) PROVE BatchInv'
  <2> DEFINE rot == NeedsRotation(req[batch[i]])
             old == IF rot THEN Settle(slot) ELSE slot
             n   == Len(slot)
  <2>1. /\ pc = "write" /\ pc' = "write" /\ UNCHANGED <<req, batch>>
        /\ i <= Len(batch)
    BY <1>6 DEF WriteFrame
  <2>2. PICK new : /\ slot' = Append(old, new)
                   /\ how = "whole" => new.seg = active' /\ new.at = tail + 1
                   /\ how # "whole" => new.verdict = "failed"
    BY <1>6 DEF WriteFrame, Failed
  <2>3. /\ old \in Seq(Slots) /\ Len(old) = n
        /\ \A j \in 1..n : /\ old[j].at = slot[j].at /\ old[j].seg = slot[j].seg
                           /\ old[j].verdict = "failed" <=> slot[j].verdict = "failed"
    BY <1>0, SettleType, Settled
  <2>i. n = i - 1 /\ n \in Nat
    BY <1>0, <2>1 DEF BaseInv, TypeInv, BatchOK
  <2> HIDE DEF old, rot
  <2>4. /\ Len(slot') = n + 1 /\ slot'[n + 1] = new
        /\ \A j \in 1..n : slot'[j] = old[j]
    BY <2>2, <2>3
  <2>5. Todo = 1..Len(batch) /\ Todo' = 1..Len(batch)
    BY <2>1 DEF Todo
  <2>6. n \in Nat /\ n + 1 = i
    BY <1>0, <2>i
  <2> HIDE DEF n
  <2> SUFFICES ASSUME NEW j \in 1..Len(slot'), slot'[j].verdict # "failed"
               PROVE  /\ \E f \in frames' : /\ f.at = slot'[j].at /\ f.seg = slot'[j].seg
                                            /\ Holds(f, req[batch[j]])
                      /\ \A g \in frames' : g.at > slot'[j].at =>
                           \E k \in 1..Len(slot') : j < k /\ Holds(g, req[batch[k]])
    BY <2>1 DEF BatchInv
  <2>w. \/ how = "none" /\ frames' = frames
        \/ /\ how = "whole"
           /\ \E x \in Frames : /\ x.at = tail + 1 /\ x.seg = active'
                                /\ Holds(x, req[batch[i]])
                                /\ frames' = frames \cup {x}
    BY <1>6, FrameWritten
  <2>7. CASE j \in 1..n
    <3>1. /\ slot'[j].at = slot[j].at /\ slot'[j].seg = slot[j].seg
          /\ slot[j].verdict # "failed" /\ j \in Todo /\ j \in 1..Len(slot)
      BY <1>l, <1>0, <2>1, <2>3, <2>4, <2>5, <2>7 DEF n
    <3>2. /\ \E f \in frames : /\ f.at = slot[j].at /\ f.seg = slot[j].seg
                               /\ Holds(f, req[batch[j]])
          /\ \A g \in frames : g.at > slot[j].at =>
               \E k \in 1..Len(slot) : j < k /\ Holds(g, req[batch[k]])
      BY <3>1 DEF BatchInv
    <3>3. \A g \in frames' : g \in frames \/ Holds(g, req[batch[i]])
      BY <2>w
    <3>4. frames \subseteq frames'
      BY <2>w
    <3>5. 1..Len(slot) \subseteq 1..Len(slot') /\ i \in 1..Len(slot') /\ j < i
      BY <2>4, <2>6, <2>7 DEF n
    <3> QED
      BY <3>1, <3>2, <3>3, <3>4, <3>5
  <2>8. CASE j = n + 1
    <3>1. how = "whole" /\ slot'[j].at = tail + 1 /\ slot'[j].seg = active' /\ j = i
      BY <2>2, <2>4, <2>6, <2>8, <2>w
    <3>2. \A g \in frames' : ~(g.at > tail + 1)
      BY <1>0, <2>w
    <3> QED
      BY <2>w, <3>1, <3>2
  <2> QED
    BY <2>4, <2>6, <2>7, <2>8
<1>7. ASSUME NEW afterSync \in BOOLEAN, RotateFails(afterSync) PROVE BatchInv'
  <2>1. /\ pc = "write" /\ pc' = "write" /\ UNCHANGED <<frames, req, batch>>
        /\ slot' = Append(slot, Failed) /\ i <= Len(batch)
    BY <1>7 DEF RotateFails
  <2>2. /\ Len(slot') = Len(slot) + 1 /\ slot'[Len(slot) + 1] = Failed
        /\ \A j \in 1..Len(slot) : slot'[j] = slot[j]
    BY <1>0, <2>1
  <2>3. Todo' = Todo /\ Failed.verdict = "failed"
    BY <2>1 DEF Todo, Failed
  <2>4. \A j \in 1..Len(slot') : j \in 1..Len(slot) \/ slot'[j] = Failed
    BY <1>0, <2>2
  <2>5. 1..Len(slot) \subseteq 1..Len(slot')
    BY <1>0, <2>2
  <2> QED
    BY <2>1, <2>2, <2>3, <2>4, <2>5 DEF BatchInv
<1>8. ASSUME NEW ok \in BOOLEAN, FinalSync(ok) PROVE BatchInv'
  <2>1. /\ pc = "write" /\ pc' = "apply" /\ i' = 1 /\ UNCHANGED <<frames, req, batch>>
    BY <1>8 DEF FinalSync
  <2>2. Todo' = Todo
    BY <1>0, <2>1 DEF Todo
  <2>3. /\ Len(slot') = Len(slot)
        /\ \A j \in 1..Len(slot) : slot'[j].verdict # "failed" =>
             /\ slot[j].verdict # "failed"
             /\ slot'[j].at = slot[j].at /\ slot'[j].seg = slot[j].seg
    <3>1. CASE ok
      <4>1. slot' = Settle(slot)
        BY <1>8, <3>1 DEF FinalSync
      <4>2. Len(Settle(slot)) = Len(slot)
        BY <1>0, SettleType
      <4> QED
        BY <1>0, <4>1, <4>2, Settled
    <3>2. CASE ~ok
      <4>1. slot' = [j \in 1..Len(slot) |->
                       IF slot[j].verdict = "written" THEN Failed ELSE slot[j]]
        BY <1>0, <1>8, <3>2 DEF FinalSync
      <4>2. Len(slot') = Len(slot)
        BY <1>0, <4>1
      <4> QED
        BY <4>1, <4>2 DEF Failed
    <3> QED
      BY <3>1, <3>2
  <2> QED
    BY <2>1, <2>2, <2>3 DEF BatchInv
<1>9. CASE ApplyRequest
  <2> DEFINE c == batch[i]
  <2>1. /\ pc = "apply" /\ pc' = "apply" /\ i' = i + 1
        /\ UNCHANGED <<frames, slot, batch>> /\ req' = [req EXCEPT ![c] = NoRequest]
    BY <1>9 DEF ApplyRequest
  <2>2. i \in Todo /\ c \in Callers
    BY <1>9, CurrentRequest DEF ApplyRequest, BaseInv
  <2>3. Todo' = Todo \ {i}
    BY <1>0, <2>1 DEF Todo
  <2>4. \A j \in Todo : j # i => batch[j] # c
    BY <2>2 DEF BaseInv, TypeInv, BatchOK
  <2>5. \A j \in Todo : j # i => req'[batch[j]] = req[batch[j]]
    BY <1>0, <2>1, <2>4 DEF Todo
  <2>6. ASSUME NEW j \in 1..Len(slot), j \in Todo \ {i}, slot[j].verdict # "failed"
        PROVE  /\ \E f \in frames : /\ f.at = slot[j].at /\ f.seg = slot[j].seg
                                    /\ Holds(f, req'[batch[j]])
               /\ \A g \in frames : g.at > slot[j].at =>
                    \E k \in 1..Len(slot) : j < k /\ Holds(g, req'[batch[k]])
    <3>1. \A k \in 1..Len(slot) : j < k => req'[batch[k]] = req[batch[k]]
      <4> SUFFICES ASSUME NEW k \in 1..Len(slot), j < k
                   PROVE  req'[batch[k]] = req[batch[k]]
        OBVIOUS
      <4>1. k \in Todo /\ i < k
        BY <1>0, <1>f, <2>1, <2>6 DEF Todo
      <4> QED
        BY <1>0, <2>5, <4>1
    <3>2. req'[batch[j]] = req[batch[j]]
      BY <2>5, <2>6
    <3> QED
      BY <2>6, <3>1, <3>2 DEF BatchInv
  <2> QED
    BY <2>1, <2>3, <2>6 DEF BatchInv
<1>10. ASSUME NEW seg \in segments, GcSegment(seg) PROVE BatchInv'
  <2>1. pc' = "apply" /\ i > Len(batch) /\ UNCHANGED <<batch, i>>
    BY <1>10 DEF GcSegment
  <2>2. Todo' = {}
    BY <1>0, <2>1 DEF Todo
  <2> QED
    BY <1>b, <2>2
<1>11. CASE EndBatch
  BY <1>11, <1>b DEF EndBatch
<1>12. CASE WriterExits
  BY <1>12, <1>c DEF WriterExits
<1>13. CASE Close
  BY <1>13, <1>a DEF Close
<1>14. ASSUME NEW k \in 0..tail, NEW torn \in BOOLEAN, PowerLoss(k, torn)
       PROVE  BatchInv'
  BY <1>14, <1>c DEF PowerLoss
<1>15. CASE Kill
  BY <1>15, <1>c DEF Kill
<1> QED
  BY <1>1, <1>2, <1>3, <1>4, <1>5, <1>6, <1>7, <1>8, <1>9, <1>10, <1>11, <1>12,
     <1>13, <1>14, <1>15 DEF Next, Writer, CallAppend, CallAck

\* What is owed is pending after a replay, for a record in the segment that the
\* entry refers to.
LEMMA OwedReplayed ==
  ASSUME Untorn, BaseInv, Decoded = Replayed, Indexed(pending, segSeq, Replayed),
         NEW e \in Events, NEW p \in Providers, NEW f \in frames, Backs(f, e, p)
  PROVE  /\ p \in pending[e]
         /\ \E L \in frames : Backs(L, e, p) /\ L.seg = segSeq[e]
<1>1. Replayed = frames
  BY DEF Decoded, Untorn
<1>2. p \in Unresolved(e, frames)
  BY DEF Backs, Unresolved
<1>3. p \in pending[e]
  BY <1>1, <1>2 DEF Indexed
<1>4. PICK L \in frames : /\ Latest(L, e, frames) /\ L.seg = segSeq[e]
                          /\ pending[e] \subseteq L.providers
  BY <1>1, <1>3 DEF Indexed
<1>5. f.at <= L.at
  BY <1>4 DEF Latest, Backs
<1>6. \A g \in frames : g.at \in Nat
  BY FrameTypes DEF BaseInv, TypeInv, TypeOK
<1>7. Backs(L, e, p)
  BY <1>3, <1>4, <1>5, <1>6 DEF Backs, Latest
<1> QED
  BY <1>3, <1>4, <1>7

\* Every step keeps what is owed in the log, and in the index once it is there.
LEMMA OwedStep ==
  ASSUME "tear" \notin Env, ~({"kill", "powerloss"} \subseteq Env),
         BaseInv, Untorn, SyncedInv, ClaimInv, BatchInv, OwedInv, [Next]_vars
  PROVE  OwedInv'
<1> USE DEF diskVars, indexVars, segVars, callVars, commitVars, envVars
<1> DEFINE Ready == Running \cup {"reclaim"}
<1>0. /\ frames \subseteq Frames /\ tail \in Nat /\ synced \in Nat /\ synced <= tail
      /\ owed \in [Events -> SUBSET Providers] /\ i \in Nat
      /\ pending \in [Events -> SUBSET Providers] /\ segSeq \in [Events -> Nat]
      /\ \A f \in frames : f.at \in Nat /\ f.at <= tail
  BY FrameTypes DEF BaseInv, TypeInv, TypeOK, DurableInv, OrderInv
<1>i. \A e \in Events : \A p \in owed[e] : \E f \in frames :
        /\ Backs(f, e, p) /\ ("powerloss" \in Env => f.at <= synced)
        /\ pc \in Ready => p \in pending[e] /\ f.seg = segSeq[e]
  BY DEF OwedInv
\* Steps that leave the log alone.
<1>a. ASSUME frames' = frames, synced' \in Nat, synced <= synced',
             \A e \in Events : owed'[e] \subseteq owed[e],
             pc' \in Ready => pc \in Ready /\ UNCHANGED <<pending, segSeq>>
      PROVE  OwedInv'
  <2> SUFFICES ASSUME NEW e \in Events, NEW p \in owed'[e]
               PROVE  \E f \in frames' :
                        /\ Backs(f, e, p)' /\ ("powerloss" \in Env => f.at <= synced')
                        /\ pc' \in Ready => p \in pending'[e] /\ f.seg = segSeq'[e]
    BY DEF OwedInv
  <2>1. PICK f \in frames :
          /\ Backs(f, e, p) /\ ("powerloss" \in Env => f.at <= synced)
          /\ pc \in Ready => p \in pending[e] /\ f.seg = segSeq[e]
    BY <1>a, <1>i
  <2>2. Backs(f, e, p)'
    BY <1>a, <2>1 DEF Backs
  <2>3. "powerloss" \in Env => f.at <= synced'
    BY <1>0, <1>a, <2>1
  <2> QED
    BY <1>a, <2>1, <2>2, <2>3
<1>s. ASSUME UNCHANGED <<frames, synced, owed, pending, segSeq>>,
             pc' \in Ready => pc \in Ready
      PROVE  OwedInv'
  BY <1>0, <1>a, <1>s
<1>m. ASSUME UNCHANGED <<frames, synced, owed>>, pc' \notin Ready PROVE OwedInv'
  BY <1>0, <1>a, <1>m
\* Deleting a segment that no entry refers to.
<1>d. ASSUME NEW seg \in segments, Reclaimable(seg), pc \in Ready, pc' = pc,
             UNCHANGED <<pending, segSeq, owed, synced>>,
             frames' = frames \/ Unlink(seg)
      PROVE  OwedInv'
  <2> SUFFICES ASSUME NEW e \in Events, NEW p \in owed[e]
               PROVE  \E f \in frames' :
                        /\ Backs(f, e, p)' /\ ("powerloss" \in Env => f.at <= synced)
                        /\ p \in pending[e] /\ f.seg = segSeq[e]
    BY <1>d DEF OwedInv
  <2>1. PICK f \in frames :
          /\ Backs(f, e, p) /\ ("powerloss" \in Env => f.at <= synced)
          /\ p \in pending[e] /\ f.seg = segSeq[e]
    BY <1>d, <1>i
  <2>2. pending[e] # {} => segSeq[e] # seg
    BY <1>d, ReclaimableUnpinned DEF BaseInv
  <2>3. f \in frames' /\ frames' \subseteq frames
    BY <1>d, <2>1, <2>2 DEF Unlink
  <2>4. Backs(f, e, p)'
    BY <2>1, <2>3 DEF Backs
  <2> QED
    BY <2>1, <2>3, <2>4
<1>1. CASE UNCHANGED vars
  BY <1>1, <1>s DEF vars
<1>2. CASE Open
  BY <1>2, <1>m DEF Open, Running
<1>3. ASSUME NEW f \in frames, ReplayRecord(f) PROVE OwedInv'
  BY <1>3, <1>m DEF ReplayRecord, Running
<1>4. CASE CountReferences
  <2>1. /\ pc = "replay" /\ \A f \in Decoded : f.at <= pos
        /\ UNCHANGED <<frames, synced, owed, pending, segSeq>>
    BY <1>4 DEF CountReferences
  <2>2. Decoded = Replayed /\ Indexed(pending, segSeq, Replayed)
    BY <2>1 DEF Replayed, BaseInv, ReplayInv
  <2>3. "powerloss" \in Env => synced = tail
    BY <2>1 DEF SyncedInv, Running
  <2> SUFFICES ASSUME NEW e \in Events, NEW p \in owed[e]
               PROVE  \E f \in frames' :
                        /\ Backs(f, e, p)' /\ ("powerloss" \in Env => f.at <= synced)
                        /\ p \in pending[e] /\ f.seg = segSeq[e]
    BY <2>1 DEF OwedInv
  <2>4. PICK f \in frames : Backs(f, e, p)
    BY <1>i
  <2>5. p \in Providers
    BY <1>0
  <2>6. /\ p \in pending[e]
        /\ \E L \in frames : Backs(L, e, p) /\ L.seg = segSeq[e]
    BY <2>2, <2>4, <2>5, OwedReplayed
  <2>7. PICK L \in frames : Backs(L, e, p) /\ L.seg = segSeq[e]
    BY <2>6
  <2>8. Backs(L, e, p)'
    BY <2>1, <2>7 DEF Backs
  <2>9. "powerloss" \in Env => L.at <= synced
    BY <1>0, <2>3
  <2> QED
    BY <2>1, <2>6, <2>7, <2>8, <2>9
<1>5. ASSUME NEW seg \in segments, ReclaimAtStart(seg) PROVE OwedInv'
  BY <1>5, <1>d DEF ReclaimAtStart
<1>6. ASSUME NEW seg \in segments, ReclaimAtStartFails(seg) PROVE OwedInv'
  BY <1>6, <1>m DEF ReclaimAtStartFails, Running
<1>7. CASE StartWriter
  BY <1>7, <1>s DEF StartWriter
<1>8. ASSUME NEW c \in Callers, Send(c) PROVE OwedInv'
  BY <1>8, <1>s DEF Send
<1>9. ASSUME NEW c \in Callers, NEW r \in Requests, Submit(c, r) PROVE OwedInv'
  <2>1. /\ owed' = [owed EXCEPT ![r.event] = {p \in @ : ~Clears(r, p)}]
        /\ UNCHANGED <<frames, synced, pc, pending, segSeq>>
    BY <1>9 DEF Submit
  <2>2. \A e \in Events : owed'[e] \subseteq owed[e]
    BY <1>0, <2>1
  <2> QED
    BY <1>0, <1>a, <2>1, <2>2
<1>10. CASE DrainBatch
  BY <1>10, <1>s DEF DrainBatch, Running
<1>11. ASSUME NEW how \in {"whole", "part", "none"}, WriteFrame(how) PROVE OwedInv'
  <2>1. /\ pc = "write" /\ i <= Len(batch) /\ UNCHANGED <<pc, pending, segSeq, owed>>
        /\ synced' = tail \/ synced' = synced
    BY <1>11 DEF WriteFrame
  <2>2. synced' \in Nat /\ synced <= synced'
    BY <1>0, <2>1
  <2>3. CASE frames' = frames
    BY <1>a, <2>1, <2>2, <2>3
  <2>4. CASE frames' # frames
    <3>1. PICK new \in Frames : /\ new.at = tail + 1 /\ Holds(new, req[batch[i]])
                                /\ frames' = frames \cup {new}
      BY <1>11, <2>4, FrameWritten
    <3>2. batch[i] \in InFlight
      BY <2>1, CurrentRequest DEF BaseInv, InFlight
    <3> SUFFICES ASSUME NEW e \in Events, NEW p \in owed[e]
                 PROVE  \E f \in frames' :
                          /\ Backs(f, e, p)' /\ ("powerloss" \in Env => f.at <= synced')
                          /\ p \in pending[e] /\ f.seg = segSeq[e]
      BY <2>1 DEF OwedInv
    <3>3. PICK f \in frames :
            /\ Backs(f, e, p) /\ ("powerloss" \in Env => f.at <= synced)
            /\ p \in pending[e] /\ f.seg = segSeq[e]
      BY <1>i, <2>1 DEF Running
    <3>4. new.event = e => ~Clears(new, p)
      BY <3>1, <3>2 DEF ClaimInv, Holds, Clears
    <3>5. Backs(f, e, p)'
      BY <3>1, <3>3, <3>4 DEF Backs
    <3>6. "powerloss" \in Env => f.at <= synced'
      BY <1>0, <2>2, <3>3
    <3> QED
      BY <3>1, <3>3, <3>5, <3>6
  <2> QED
    BY <2>3, <2>4
<1>12. ASSUME NEW afterSync \in BOOLEAN, RotateFails(afterSync) PROVE OwedInv'
  <2>1. /\ UNCHANGED <<frames, pc, pending, segSeq, owed>>
        /\ synced' = tail \/ synced' = synced
    BY <1>12 DEF RotateFails
  <2> QED
    BY <1>0, <1>a, <2>1
<1>13. ASSUME NEW ok \in BOOLEAN, FinalSync(ok) PROVE OwedInv'
  <2>1. /\ UNCHANGED <<frames, pending, segSeq, owed>> /\ pc = "write"
        /\ synced' = tail \/ synced' = synced
    BY <1>13 DEF FinalSync
  <2>2. synced' \in Nat /\ synced <= synced'
    BY <1>0, <2>1
  <2> QED
    BY <1>a, <2>1, <2>2 DEF Running
<1>14. CASE ApplyRequest
  <2> DEFINE c == batch[i]
             r == req[c]
             sl == slot[i]
  <2>1. /\ pc = "apply" /\ pc' = "apply" /\ i <= Len(batch)
        /\ UNCHANGED <<frames, synced>>
    BY <1>14 DEF ApplyRequest
  <2>2. /\ c \in InFlight /\ r \in Requests /\ i \in Todo /\ i \in 1..Len(slot)
    BY <2>1, CurrentRequest DEF BaseInv, TypeInv, BatchOK, InFlight
  <2>3. /\ r.event \in Events /\ r.providers \subseteq Providers
        /\ r.kind \in {"event", "ack"}
    BY <2>2, RequestTypes
  <2>4. CASE sl.verdict # "synced"
    <3>1. UNCHANGED <<pending, segSeq, owed>>
      BY <1>14, <2>4 DEF ApplyRequest
    <3> QED
      BY <1>s, <2>1, <3>1
  <2>5. CASE sl.verdict = "synced"
    <3>1. /\ pending' = PendingAfter(r) /\ segSeq' = SegSeqAfter(r, sl.seg)
          /\ owed' = IF r.kind = "event"
                       THEN [owed EXCEPT ![r.event] = Promised(c, r)] ELSE owed
      BY <1>14, <2>5 DEF ApplyRequest
    <3>2. /\ \E f \in frames : f.at = sl.at /\ f.seg = sl.seg /\ Holds(f, r)
          /\ \A g \in frames : g.at > sl.at =>
               \E k \in 1..Len(slot) : i < k /\ Holds(g, req[batch[k]])
      BY <2>2, <2>5 DEF BatchInv
    <3>3. sl.at <= synced /\ sl.seg \in Nat
      <4>1. slot \in Seq(Slots)
        BY DEF BaseInv, TypeInv, TypeOK, Slots
      <4>2. slot[i] \in Slots
        BY <2>2, <4>1
      <4> QED
        BY <2>2, <2>5, <4>2 DEF BaseInv, DurableInv, Slots
    <3>4. \A k \in 1..Len(slot) : i < k =>
            batch[k] \in InFlight \ {c}
      <4> SUFFICES ASSUME NEW k \in 1..Len(slot), i < k
                   PROVE  batch[k] \in InFlight /\ batch[k] # c
        OBVIOUS
      <4>1. k \in Todo /\ k \in 1..Len(batch) /\ k # i
        BY <1>0, <2>1 DEF BaseInv, TypeInv, BatchOK, Todo
      <4>2. batch[k] \in Callers
        BY <4>1 DEF BaseInv, TypeInv, TypeOK
      <4> QED
        BY <2>2, <4>1, <4>2 DEF BaseInv, TypeInv, BatchOK, InFlight
    <3> HIDE DEF c, r, sl
    <3>p. /\ \A x \in Events :
               /\ x # r.event => pending'[x] = pending[x]
               /\ ~(x = r.event /\ r.kind = "event") => segSeq'[x] = segSeq[x]
          /\ pending'[r.event] = IF r.kind = "event" THEN r.providers
                                 ELSE pending[r.event] \ r.providers
          /\ r.kind = "event" => segSeq'[r.event] = sl.seg
      BY <2>3, <3>1, <3>3, AfterRequest DEF BaseInv, TypeInv
    <3> SUFFICES ASSUME NEW e \in Events, NEW p \in owed'[e]
                 PROVE  \E f \in frames' :
                          /\ Backs(f, e, p)' /\ ("powerloss" \in Env => f.at <= synced')
                          /\ p \in pending'[e] /\ f.seg = segSeq'[e]
      BY DEF OwedInv
    <3>5. CASE e = r.event /\ r.kind = "event"
      <4>1. p \in Promised(c, r)
        BY <1>0, <2>3, <3>1, <3>5
      <4>2. PICK f \in frames : f.at = sl.at /\ f.seg = sl.seg /\ Holds(f, r)
        BY <3>2
      <4>3. p \in r.providers
        BY <4>1 DEF Promised
      <4>4. ASSUME NEW g \in frames, g.event = e, g.at > f.at PROVE ~Clears(g, p)
        <5>1. PICK k \in 1..Len(slot) : i < k /\ Holds(g, req[batch[k]])
          BY <3>2, <4>2, <4>4
        <5>2. ~Clears(req[batch[k]], p)
          BY <3>4, <3>5, <4>1, <4>4, <5>1 DEF Promised, Holds
        <5> QED
          BY <5>1, <5>2 DEF Clears, Holds
      <4>5. Backs(f, e, p)'
        BY <2>1, <3>5, <4>2, <4>3, <4>4 DEF Backs, Holds
      <4> QED
        BY <2>1, <3>3, <3>5, <3>p, <4>2, <4>3, <4>5
    <3>6. CASE ~(e = r.event /\ r.kind = "event")
      <4>1. p \in owed[e]
        BY <1>0, <2>3, <3>1, <3>6
      <4>2. PICK f \in frames :
              /\ Backs(f, e, p) /\ ("powerloss" \in Env => f.at <= synced)
              /\ p \in pending[e] /\ f.seg = segSeq[e]
        BY <1>i, <2>1, <4>1 DEF Running
      <4>3. Backs(f, e, p)'
        BY <2>1, <4>2 DEF Backs
      <4>4. e = r.event => p \notin r.providers
        BY <2>2, <2>3, <3>6, <4>1 DEF ClaimInv, Clears, r
      <4>5. p \in pending'[e] /\ segSeq'[e] = segSeq[e]
        BY <2>3, <3>6, <3>p, <4>2, <4>4
      <4> QED
        BY <2>1, <4>2, <4>3, <4>5
    <3> QED
      BY <3>5, <3>6
  <2> QED
    BY <2>4, <2>5
<1>15. ASSUME NEW seg \in segments, GcSegment(seg) PROVE OwedInv'
  BY <1>15, <1>d DEF GcSegment, Running
<1>16. CASE EndBatch
  BY <1>16, <1>s DEF EndBatch, Running
<1>17. CASE WriterExits
  <2>1. /\ UNCHANGED <<frames, pending, segSeq, owed>> /\ pc' = "exited"
        /\ synced' = tail \/ synced' = synced
    BY <1>17 DEF WriterExits
  <2>2. synced' \in Nat /\ synced <= synced'
    BY <1>0, <2>1
  <2> QED
    BY <1>a, <2>1, <2>2 DEF Running
<1>18. CASE Close
  BY <1>18, <1>s DEF Close
<1>19. ASSUME NEW k \in 0..tail, NEW torn \in BOOLEAN, PowerLoss(k, torn)
       PROVE  OwedInv'
  <2>1. /\ "powerloss" \in Env /\ torn = FALSE /\ k \in synced..tail
        /\ synced' = tail /\ pc' = "down" /\ owed' = owed
    BY <1>19 DEF PowerLoss
  <2>2. frames' = {f \in frames : f.at <= k}
    BY <1>19, <2>1 DEF PowerLoss
  <2> SUFFICES ASSUME NEW e \in Events, NEW p \in owed[e]
               PROVE  \E f \in frames' : Backs(f, e, p)' /\ f.at <= synced'
    BY <2>1 DEF OwedInv, Running
  <2>3. PICK f \in frames : Backs(f, e, p) /\ f.at <= synced
    BY <1>i, <2>1
  <2>4. f \in frames' /\ f.at <= synced'
    BY <1>0, <2>1, <2>2, <2>3
  <2>5. Backs(f, e, p)'
    BY <2>2, <2>3 DEF Backs
  <2> QED
    BY <2>4, <2>5
<1>20. CASE Kill
  BY <1>20, <1>m DEF Kill, Running
<1> QED
  BY <1>1, <1>2, <1>3, <1>4, <1>5, <1>6, <1>7, <1>8, <1>9, <1>10, <1>11, <1>12,
     <1>13, <1>14, <1>15, <1>16, <1>17, <1>18, <1>19, <1>20
     DEF Next, Startup, Replay, Writer, CallAppend, CallAck

\* AcceptedSurvives: an event whose Append returned nil is pending whenever the
\* writer runs, after any number of crashes, failed writes, syncs, rotations and
\* removals, until a call is made that clears it.  The hypotheses are what the code
\* needs: no partial frame may be left in a file that is appended to; and where the
\* power can fail, no process may be killed, nor be started again after a Close
\* whose sync failed (wal_torn and the README's deviations show what happens
\* otherwise).
THEOREM AcceptedSurvive ==
  ASSUME "tear" \notin Env, ~({"kill", "powerloss"} \subseteq Env),
         ~({"restart", "sync", "powerloss"} \subseteq Env)
  PROVE  Spec => []AcceptedSurvives
<1> DEFINE Inv == Untorn /\ SyncedInv /\ ClaimInv /\ BatchInv /\ OwedInv
<1>1. Init => Inv
  BY DEF Init, Untorn, SyncedInv, ClaimInv, BatchInv, OwedInv, InFlight
<1>2. BaseInv /\ Inv /\ [Next]_vars => Inv'
  BY UntornStep, SyncedStep, ClaimStep, BatchStep, OwedStep
<1>3. Inv => AcceptedSurvives
  BY DEF OwedInv, AcceptedSurvives
<1> HIDE DEF Inv
<1> QED
  BY BaseInvariant, <1>1, <1>2, <1>3, PTL DEF Spec

-----------------------------------------------------------------------------
(* The index follows the log. *)

\* A process that may be stopped at any time, while its system calls succeed.
CrashesOnly == Env \subseteq {"restart", "powerloss", "kill"}

\* Without I/O errors a write puts the whole frame into the log.
LEMMA WholeFrame ==
  ASSUME CrashesOnly, BaseInv, NoErrors,
         NEW how \in {"whole", "part", "none"}, WriteFrame(how)
  PROVE  /\ how = "whole" /\ tail' = tail + 1
         /\ files' = files \cup {active'} /\ segments' = segments \cup {active'}
         /\ \E new \in Frames : new.at = tail + 1 /\ frames' = frames \cup {new}
         /\ \E rot \in BOOLEAN :
              slot' = Append(IF rot THEN Settle(slot) ELSE slot,
                             [verdict |-> "written", seg |-> active', at |-> tail + 1])
<1> DEFINE rot == NeedsRotation(req[batch[i]])
<1>1. /\ how \in Writes(rot) /\ pc = "write"
      /\ files' = files \cup {active'} /\ segments' = segments \cup {active'}
  BY DEF WriteFrame
<1>2. open
  BY <1>1 DEF NoErrors, Running
<1>3. how = "whole"
  BY <1>1, <1>2 DEF Writes, CrashesOnly
<1>4. "tear" \notin Env
  BY DEF CrashesOnly
<1>5. tail' = tail + 1 /\ \E new \in Frames : new.at = tail + 1 /\ frames' = frames \cup {new}
  BY <1>3, <1>4, FrameWritten
<1>6. slot' = Append(IF rot THEN Settle(slot) ELSE slot,
                     [verdict |-> "written", seg |-> active', at |-> tail + 1])
  BY <1>3 DEF WriteFrame
<1>7. rot \in BOOLEAN
  BY DEF NeedsRotation
<1> HIDE DEF rot
<1> QED
  BY <1>1, <1>3, <1>5, <1>6, <1>7

\* No request fails.
LEMMA NoErrorsStep ==
  ASSUME CrashesOnly, BaseInv, NoErrors, [Next]_vars
  PROVE  NoErrors'
<1> USE DEF diskVars, indexVars, segVars, callVars, commitVars, envVars
<1>0. /\ slot \in Seq(Slots) /\ \A j \in 1..Len(slot) : slot[j] \in Slots
  <2>1. slot \in Seq(Slots)
    BY DEF BaseInv, TypeInv, TypeOK, Slots
  <2> QED
    BY <2>1
<1>i. /\ pc \in Running => open /\ files = segments
      /\ pc = "idle" => slot = <<>>
      /\ \A j \in 1..Len(slot) : /\ slot[j].verdict # "failed"
                                 /\ pc = "apply" => slot[j].verdict = "synced"
  BY DEF NoErrors
<1>a. ASSUME UNCHANGED <<pc, open, files, segments, slot>> PROVE NoErrors'
  BY <1>a DEF NoErrors
<1>b. ASSUME pc' \notin Running, slot' = <<>> PROVE NoErrors'
  BY <1>b DEF NoErrors, Running
<1>1. CASE UNCHANGED vars
  BY <1>1, <1>a DEF vars
<1>2. CASE Open
  BY <1>2, <1>b DEF Open, LoseMemory, Running
<1>3. ASSUME NEW f \in frames, ReplayRecord(f) PROVE NoErrors'
  BY <1>3, <1>a DEF ReplayRecord
<1>4. CASE CountReferences
  BY <1>4, <1>i DEF CountReferences, NoErrors, Running
<1>5. ASSUME NEW seg \in segments, ReclaimAtStart(seg) PROVE NoErrors'
  BY <1>5, <1>i DEF ReclaimAtStart, NoErrors, Running
<1>6. ASSUME NEW seg \in segments, ReclaimAtStartFails(seg) PROVE NoErrors'
  BY <1>6, <1>b DEF ReclaimAtStartFails, LoseMemory, Running
<1>7. CASE StartWriter
  <2>1. pc = "reclaim" /\ pc' = "idle" /\ open' /\ slot' = slot
    BY <1>7 DEF StartWriter
  <2>2. files = segments /\ slot = <<>>
    BY <2>1 DEF BaseInv, CountInv, SegmentsInv
  <2>3. files' = segments'
    BY <1>7, <2>2 DEF StartWriter
  <2> QED
    BY <2>1, <2>2, <2>3 DEF NoErrors
<1>8. ASSUME NEW c \in Callers, Send(c) PROVE NoErrors'
  BY <1>8, <1>a DEF Send
<1>9. ASSUME NEW c \in Callers, NEW r \in Requests, Submit(c, r) PROVE NoErrors'
  BY <1>9, <1>a DEF Submit
<1>10. CASE DrainBatch
  BY <1>10, <1>i DEF DrainBatch, NoErrors, Running
<1>11. ASSUME NEW how \in {"whole", "part", "none"}, WriteFrame(how) PROVE NoErrors'
  <2>1. /\ pc = "write" /\ UNCHANGED <<pc, open>>
    BY <1>11 DEF WriteFrame
  <2>2. files' = segments'
    BY <1>11, <1>i, <2>1, WholeFrame DEF Running
  <2>3. PICK rot \in BOOLEAN :
          slot' = Append(IF rot THEN Settle(slot) ELSE slot,
                         [verdict |-> "written", seg |-> active', at |-> tail + 1])
    BY <1>11, WholeFrame
  <2> DEFINE old == IF rot THEN Settle(slot) ELSE slot
             new == [verdict |-> "written", seg |-> active', at |-> tail + 1]
  <2>4. /\ old \in Seq(Slots) /\ Len(old) = Len(slot)
        /\ \A j \in 1..Len(old) : old[j].verdict # "failed"
    BY <1>0, <1>i, Settled, SettleType
  <2>5. new.verdict # "failed" /\ slot' = Append(old, new)
    BY <2>3
  <2> HIDE DEF old, new
  <2>6. \A j \in 1..Len(slot') : slot'[j].verdict # "failed"
    BY <2>4, <2>5
  <2> QED
    BY <1>i, <2>1, <2>2, <2>6 DEF NoErrors, Running
<1>12. ASSUME NEW afterSync \in BOOLEAN, RotateFails(afterSync) PROVE NoErrors'
  BY <1>12, <1>i DEF RotateFails, CrashesOnly, Running
<1>13. ASSUME NEW ok \in BOOLEAN, FinalSync(ok) PROVE NoErrors'
  <2>1. /\ pc = "write" /\ pc' = "apply" /\ UNCHANGED <<open, files, segments>>
    BY <1>13 DEF FinalSync
  <2>2. ok
    BY <1>13, <1>i, <2>1 DEF FinalSync, CrashesOnly, Running
  <2>3. slot' = Settle(slot)
    BY <1>13, <2>2 DEF FinalSync
  <2>4. Len(slot') = Len(slot)
    BY <1>0, <2>3, SettleType
  <2>5. ASSUME NEW j \in 1..Len(slot) PROVE slot'[j].verdict = "synced"
    <3>1. slot[j].verdict \in {"written", "synced"}
      BY <1>0, <1>i DEF Slots
    <3>2. slot'[j] = IF slot[j].verdict = "written"
            THEN [verdict |-> "synced", seg |-> slot[j].seg, at |-> slot[j].at]
            ELSE slot[j]
      BY <1>0, <2>3 DEF Settle
    <3> QED
      BY <3>1, <3>2
  <2> QED
    BY <1>i, <2>1, <2>4, <2>5 DEF NoErrors, Running
<1>14. CASE ApplyRequest
  BY <1>14, <1>a DEF ApplyRequest
<1>15. ASSUME NEW seg \in segments, GcSegment(seg) PROVE NoErrors'
  <2>1. pc = "apply" /\ UNCHANGED <<pc, open, slot>>
    BY <1>15 DEF GcSegment
  <2>2. files' = files \ {seg} /\ segments' = segments \ {seg}
    BY <1>15 DEF GcSegment, Untrack, Unlink, CrashesOnly
  <2> QED
    BY <1>i, <2>1, <2>2 DEF NoErrors, Running
<1>16. CASE EndBatch
  BY <1>16, <1>i DEF EndBatch, NoErrors, Running
<1>17. CASE WriterExits
  BY <1>17, <1>i DEF WriterExits, NoErrors, Running
<1>18. CASE Close
  BY <1>18, <1>a DEF Close
<1>19. ASSUME NEW k \in 0..tail, NEW torn \in BOOLEAN, PowerLoss(k, torn)
       PROVE  NoErrors'
  BY <1>19, <1>b DEF PowerLoss, LoseMemory, Running
<1>20. CASE Kill
  BY <1>20, <1>b DEF Kill, LoseMemory, Running
<1> QED
  BY <1>1, <1>2, <1>3, <1>4, <1>5, <1>6, <1>7, <1>8, <1>9, <1>10, <1>11, <1>12,
     <1>13, <1>14, <1>15, <1>16, <1>17, <1>18, <1>19, <1>20
     DEF Next, Startup, Replay, Writer, CallAppend, CallAck

\* Every step keeps the index in step with the records that were applied.
LEMMA AppliedStep ==
  ASSUME CrashesOnly, BaseInv, Untorn, BatchInv, NoErrors, AppliedInv, [Next]_vars
  PROVE  AppliedInv'
<1> USE DEF diskVars, indexVars, segVars, callVars, commitVars, envVars
<1>0. /\ slot \in Seq(Slots) /\ batch \in Seq(Callers) /\ tail \in Nat
      /\ i \in Nat \ {0} /\ frames \subseteq Frames
      /\ pending \in [Events -> SUBSET Providers] /\ segSeq \in [Events -> Nat]
      /\ \A f \in frames : f.at \in Nat /\ f.at <= tail /\ f.seg \in Nat
  BY FrameTypes DEF BaseInv, TypeInv, TypeOK, Slots, OrderInv
<1>t. \A j \in 1..Len(slot) : slot[j] \in Slots /\ slot[j].at \in Nat /\ slot[j].at <= tail
  <2>1. \A j \in 1..Len(slot) : slot[j] \in Slots
    BY <1>0
  <2> QED
    BY <2>1 DEF Slots, BaseInv, DurableInv
<1>u. Applied = {f \in frames : \A j \in From..Len(slot) : f.at # slot[j].at}
  BY DEF Applied, Unapplied, From
<1>v. Applied' = {f \in frames' : \A j \in From'..Len(slot') : f.at # slot'[j].at}
  BY DEF Applied, Unapplied, From
\* Nothing is left to apply.
<1>e. ASSUME pc' \in Running, Len(slot') < From', Len(slot') \in Nat, From' \in Nat,
             Indexed(pending', segSeq', frames')
      PROVE  AppliedInv'
  <2>1. From'..Len(slot') = {}
    BY <1>e
  <2>2. Applied' = frames'
    BY <1>v, <2>1
  <2> QED
    BY <1>e, <2>1, <2>2 DEF AppliedInv
<1>f. ASSUME pc \in Running, Len(slot) < From PROVE Indexed(pending, segSeq, frames)
  <2>1. From \in Nat /\ From..Len(slot) = {}
    BY <1>0, <1>f DEF From
  <2> QED
    BY <1>f, <1>u, <2>1 DEF AppliedInv
<1>a. ASSUME UNCHANGED <<frames, pending, segSeq, slot, pc, i>> PROVE AppliedInv'
  <2>1. From' = From /\ Applied' = Applied
    BY <1>a DEF From, Applied, Unapplied
  <2> QED
    BY <1>a, <2>1 DEF AppliedInv
<1>b. ASSUME pc' \notin Running PROVE AppliedInv'
  BY <1>b DEF AppliedInv
<1>1. CASE UNCHANGED vars
  BY <1>1, <1>a DEF vars
<1>2. CASE Startup /\ ~StartWriter
  <2>1. pc' \in {"replay", "reclaim", "down"}
    BY <1>2 DEF Startup, Open, Replay, ReplayRecord, CountReferences,
                ReclaimAtStart, ReclaimAtStartFails
  <2> QED
    BY <1>b, <2>1 DEF Running
<1>3. CASE StartWriter
  <2>1. /\ pc = "reclaim" /\ pc' = "idle" /\ UNCHANGED <<slot, i, frames, pending, segSeq>>
    BY <1>3 DEF StartWriter
  <2>2. slot = <<>>
    BY <2>1 DEF BaseInv, CountInv, SegmentsInv
  <2>3. Replayed = frames
    BY <2>1 DEF BaseInv, ReplayInv, Decoded, Untorn
  <2>4. Indexed(pending, segSeq, frames)
    BY <2>1, <2>3 DEF BaseInv, ReplayInv
  <2>5. Len(slot') = 0 /\ From' = 1
    BY <2>1, <2>2 DEF From
  <2> QED
    BY <1>e, <2>1, <2>4, <2>5 DEF Running
<1>4. ASSUME NEW c \in Callers, Send(c) PROVE AppliedInv'
  BY <1>4, <1>a DEF Send
<1>5. ASSUME NEW c \in Callers, NEW r \in Requests, Submit(c, r) PROVE AppliedInv'
  BY <1>5, <1>a DEF Submit
<1>6. CASE DrainBatch
  <2>1. /\ pc = "idle" /\ pc' = "write" /\ slot' = <<>>
        /\ UNCHANGED <<frames, pending, segSeq>>
    BY <1>6 DEF DrainBatch
  <2>2. slot = <<>> /\ From = 1
    BY <2>1 DEF NoErrors, From
  <2>3. Indexed(pending, segSeq, frames)
    BY <1>f, <2>1, <2>2 DEF Running
  <2>4. Len(slot') = 0 /\ From' = 1
    BY <2>1 DEF From
  <2> QED
    BY <1>e, <2>1, <2>3, <2>4 DEF Running
<1>7. ASSUME NEW how \in {"whole", "part", "none"}, WriteFrame(how) PROVE AppliedInv'
  <2>1. pc = "write" /\ UNCHANGED <<pc, pending, segSeq>>
    BY <1>7 DEF WriteFrame
  <2>2. PICK new \in Frames : new.at = tail + 1 /\ frames' = frames \cup {new}
    BY <1>7, WholeFrame
  <2>3. PICK rot \in BOOLEAN :
          slot' = Append(IF rot THEN Settle(slot) ELSE slot,
                         [verdict |-> "written", seg |-> active', at |-> tail + 1])
    BY <1>7, WholeFrame
  <2> DEFINE old == IF rot THEN Settle(slot) ELSE slot
             sl  == [verdict |-> "written", seg |-> active', at |-> tail + 1]
             n   == Len(slot)
  <2>4. /\ old \in Seq(Slots) /\ Len(old) = n /\ n \in Nat
        /\ \A j \in 1..n : old[j].at = slot[j].at
    <3>1. CASE rot
      BY <1>0, <3>1, Settled, SettleType
    <3>2. CASE ~rot
      BY <1>0, <3>2
    <3> QED
      BY <3>1, <3>2
  <2>5. sl.at = tail + 1 /\ slot' = Append(old, sl)
    BY <2>3
  <2> HIDE DEF old, sl, n
  <2>6. /\ Len(slot') = n + 1 /\ slot'[n + 1].at = tail + 1
        /\ \A j \in 1..n : slot'[j].at = slot[j].at
    BY <2>4, <2>5
  <2>7. From = 1 /\ From' = 1
    BY <2>1 DEF From
  <2>8. \A j \in 1..n : slot[j].at \in Nat /\ slot[j].at <= tail
    BY <1>t DEF n
  <2>9. Applied' = Applied
    <3>1. ASSUME NEW f \in frames PROVE f \in Applied' <=> f \in Applied
      <4>1. f.at # slot'[n + 1].at /\ f \in frames'
        BY <1>0, <2>2, <2>6
      <4>2. \A j \in 1..(n + 1) : j \in 1..n \/ j = n + 1
        BY <2>4
      <4>3. 1..n \subseteq 1..(n + 1)
        BY <2>4
      <4> QED
        BY <1>u, <1>v, <2>6, <2>7, <4>1, <4>2, <4>3 DEF n
    <3>2. new \notin Applied'
      <4>1. n + 1 \in 1..(n + 1)
        BY <2>4
      <4> QED
        BY <1>v, <2>2, <2>6, <2>7, <4>1
    <3>3. Applied \subseteq frames /\ Applied' \subseteq frames'
      BY <1>u, <1>v
    <3> QED
      BY <2>2, <3>1, <3>2, <3>3
  <2>10. /\ \A j \in 1..n, f \in Applied : f.at < slot[j].at
         /\ \A j, k \in 1..n : j < k => slot[j].at < slot[k].at
         /\ Indexed(pending, segSeq, Applied)
    BY <2>1, <2>7 DEF AppliedInv, Running, n
  <2>11. \A f \in Applied : f.at \in Nat /\ f.at <= tail
    BY <1>0, <1>u
  <2>12. \A j \in 1..(n + 1), f \in Applied : f.at < slot'[j].at
    BY <1>0, <2>4, <2>6, <2>10, <2>11
  <2>13. ASSUME NEW j \in 1..(n + 1), NEW k \in 1..(n + 1), j < k
         PROVE  slot'[j].at < slot'[k].at
    <3>1. j \in 1..n /\ (k \in 1..n \/ k = n + 1)
      BY <2>4, <2>13
    <3>2. CASE k \in 1..n
      <4>1. slot[j].at < slot[k].at
        BY <2>10, <2>13, <3>1, <3>2
      <4> QED
        BY <2>6, <3>1, <3>2, <4>1
    <3>3. CASE k = n + 1
      <4>1. slot'[k].at = tail + 1 /\ slot'[j].at = slot[j].at
        BY <2>6, <3>1, <3>3
      <4>2. slot[j].at \in Nat /\ slot[j].at <= tail
        BY <2>8, <3>1
      <4> QED
        BY <1>0, <4>1, <4>2
    <3> QED
      BY <3>1, <3>2, <3>3
  <2> QED
    BY <2>1, <2>6, <2>7, <2>9, <2>10, <2>12, <2>13 DEF AppliedInv
<1>8. ASSUME NEW afterSync \in BOOLEAN, RotateFails(afterSync) PROVE AppliedInv'
  BY <1>8 DEF RotateFails, NoErrors, CrashesOnly, Running
<1>9. ASSUME NEW ok \in BOOLEAN, FinalSync(ok) PROVE AppliedInv'
  <2>1. /\ pc = "write" /\ pc' = "apply" /\ i' = 1 /\ UNCHANGED <<frames, pending, segSeq>>
    BY <1>9 DEF FinalSync
  <2>2. ok
    BY <1>9, <2>1 DEF FinalSync, CrashesOnly, NoErrors, Running
  <2>3. slot' = Settle(slot)
    BY <1>9, <2>2 DEF FinalSync
  <2>4. /\ Len(slot') = Len(slot) /\ \A j \in 1..Len(slot) : slot'[j].at = slot[j].at
    BY <1>0, <2>3, Settled, SettleType
  <2>5. From = 1 /\ From' = 1
    BY <2>1 DEF From
  <2>6. Applied' = Applied
    BY <1>u, <1>v, <2>1, <2>4, <2>5
  <2> QED
    BY <2>1, <2>4, <2>5, <2>6 DEF AppliedInv, Running
<1>10. CASE ApplyRequest
  <2> DEFINE r  == req[batch[i]]
             sl == slot[i]
  <2>1. /\ pc = "apply" /\ i <= Len(batch) /\ i' = i + 1
        /\ UNCHANGED <<pc, frames, slot>>
    BY <1>10 DEF ApplyRequest
  <2>2. /\ i \in Todo /\ r \in Requests /\ i \in 1..Len(slot)
    BY <2>1, CurrentRequest DEF BaseInv, TypeInv, BatchOK
  <2>3. /\ r.event \in Events /\ r.providers \subseteq Providers
        /\ r.kind \in {"event", "ack"}
    BY <2>2, RequestTypes
  <2>4. sl.verdict = "synced" /\ sl.verdict # "failed"
    BY <2>1, <2>2 DEF NoErrors
  <2>5. sl.seg \in Nat /\ sl.at \in Nat
    BY <1>t, <2>2 DEF Slots
  <2>6. pending' = PendingAfter(r) /\ segSeq' = SegSeqAfter(r, sl.seg)
    BY <1>10, <2>4 DEF ApplyRequest
  <2>7. PICK f \in frames : f.at = sl.at /\ f.seg = sl.seg /\ Holds(f, r)
    BY <2>2, <2>4 DEF BatchInv
  <2>8. From = i /\ From' = i + 1
    BY <2>1 DEF From
  <2>9. /\ \A j \in i..Len(slot), g \in Applied : g.at < slot[j].at
        /\ \A j, k \in i..Len(slot) : j < k => slot[j].at < slot[k].at
        /\ Indexed(pending, segSeq, Applied)
    BY <2>1, <2>8 DEF AppliedInv, Running
  <2>l. Len(slot) \in Nat /\ i \in i..Len(slot) /\ i <= Len(slot)
    BY <1>0, <2>2
  <2>10. \A k \in (i + 1)..Len(slot) : k \in i..Len(slot) /\ sl.at < slot[k].at
                                       /\ slot[k].at \in Nat
    BY <1>0, <1>t, <2>9, <2>l
  <2>11. Applied' = Applied \cup {f}
    <3>1. ASSUME NEW g \in frames PROVE g \in Applied' <=> g \in Applied \/ g = f
      <4>1. g.at = f.at <=> g = f
        BY DEF BaseInv, OrderInv
      <4>2. \A k \in i..Len(slot) : k = i \/ k \in (i + 1)..Len(slot)
        BY <1>0, <2>l
      <4>3. g \in Applied <=> \A k \in i..Len(slot) : g.at # slot[k].at
        BY <1>u, <2>8
      <4>4. g \in Applied' <=> \A k \in (i + 1)..Len(slot) : g.at # slot[k].at
        BY <1>v, <2>1, <2>8
      <4>5. CASE g = f
        BY <1>0, <2>5, <2>7, <2>10, <4>4, <4>5
      <4>6. CASE g # f
        <5>1. g.at # slot[i].at
          BY <2>7, <4>1, <4>6
        <5> QED
          BY <2>10, <4>2, <4>3, <4>4, <4>6, <5>1
      <4> QED
        BY <4>5, <4>6
    <3>2. Applied \subseteq frames /\ Applied' \subseteq frames
      BY <1>u, <1>v, <2>1
    <3> QED
      BY <3>1, <3>2
  <2>12. After(Applied, f)
    <3>1. Applied \subseteq Frames /\ f \in Frames
      BY <1>0, <1>u
    <3>2. f.kind # "torn"
      BY DEF Untorn
    <3>3. \A g \in Applied : g.at < f.at
      BY <2>7, <2>9, <2>l
    <3> QED
      BY <3>1, <3>2, <3>3 DEF After
  <2>13. f.kind = r.kind /\ f.event = r.event /\ f.providers = r.providers
         /\ f.seg = sl.seg
    BY <2>7 DEF Holds
  <2> HIDE DEF r, sl
  <2>14. /\ pending' \in [Events -> SUBSET Providers] /\ segSeq' \in [Events -> Nat]
         /\ \A e \in Events :
              /\ e # r.event => pending'[e] = pending[e]
              /\ ~(e = r.event /\ r.kind = "event") => segSeq'[e] = segSeq[e]
         /\ pending'[r.event] = IF r.kind = "event" THEN r.providers
                                ELSE pending[r.event] \ r.providers
         /\ r.kind = "event" => segSeq'[r.event] = sl.seg
    <3>1. TypeOK
      BY DEF BaseInv, TypeInv
    <3>2. PendingAfter(r) \in [Events -> SUBSET Providers]
          /\ SegSeqAfter(r, sl.seg) \in [Events -> Nat]
      BY <2>3, <2>5, <3>1, AfterRequest
    <3>3. /\ \A e \in Events :
               /\ e # r.event => PendingAfter(r)[e] = pending[e]
               /\ ~(e = r.event /\ r.kind = "event") =>
                    SegSeqAfter(r, sl.seg)[e] = segSeq[e]
          /\ PendingAfter(r)[r.event] = IF r.kind = "event" THEN r.providers
                                        ELSE pending[r.event] \ r.providers
          /\ r.kind = "event" => SegSeqAfter(r, sl.seg)[r.event] = sl.seg
      BY <1>0, <2>3, <2>5 DEF PendingAfter, SegSeqAfter
    <3> QED
      BY <2>6, <3>2, <3>3
  <2>15. Indexed(pending', segSeq', Applied \cup {f})
    <3>1. /\ \A e \in Events :
               /\ e # f.event => pending'[e] = pending[e]
               /\ ~(e = f.event /\ f.kind = "event") => segSeq'[e] = segSeq[e]
          /\ pending'[f.event] = IF f.kind = "event" THEN f.providers
                                 ELSE pending[f.event] \ f.providers
          /\ f.kind = "event" => segSeq'[f.event] = f.seg
      BY <2>13, <2>14
    <3>2. pending' \in [Events -> SUBSET Providers] /\ segSeq' \in [Events -> Nat]
      BY <2>14
    <3>3. Indexed(pending, segSeq, Applied)
      BY <2>9
    <3> QED
      BY <1>0, <2>12, <3>1, <3>2, <3>3, IndexedAdd
  <2>16. \A j \in (i + 1)..Len(slot), g \in Applied \cup {f} : g.at < slot[j].at
    BY <2>7, <2>9, <2>10
  <2>17. \A j, k \in (i + 1)..Len(slot) : j < k => slot[j].at < slot[k].at
    BY <2>9, <2>10
  <2> QED
    BY <2>1, <2>8, <2>11, <2>15, <2>16, <2>17 DEF AppliedInv
<1>11. ASSUME NEW seg \in segments, GcSegment(seg) PROVE AppliedInv'
  <2>1. /\ pc = "apply" /\ i > Len(batch) /\ Reclaimable(seg) /\ Unlink(seg)
        /\ UNCHANGED <<pc, slot, i, pending, segSeq>>
    BY <1>11 DEF GcSegment, CrashesOnly
  <2>2. Len(slot) < i /\ From = i /\ From' = i
    BY <2>1 DEF From, BaseInv, TypeInv, BatchOK
  <2>3. Indexed(pending, segSeq, frames)
    BY <1>f, <2>1, <2>2 DEF Running
  <2>4. /\ seg \in Nat /\ \A f \in frames : seg <= f.seg
    <3>1. files = segments
      BY <2>1 DEF NoErrors, Running
    <3> QED
      BY <2>1, <3>1 DEF Reclaimable, BaseInv, CountInv, SegmentsInv, TypeInv, TypeOK
  <2>5. \A e \in Events : pending[e] # {} => segSeq[e] # seg
    BY <2>1, ReclaimableUnpinned DEF BaseInv, Running
  <2>6. \A f, g \in frames : f.at <= g.at => f.seg <= g.seg
    BY DEF BaseInv, OrderInv
  <2>7. Indexed(pending, segSeq, {f \in frames : f.seg # seg})
    BY <1>0, <2>3, <2>4, <2>5, <2>6, IndexedDrop
  <2>8. frames' = {f \in frames : f.seg # seg}
    BY <2>1 DEF Unlink
  <2>9. Len(slot) \in Nat
    BY <1>0
  <2> QED
    BY <1>0, <1>e, <2>1, <2>2, <2>7, <2>8, <2>9 DEF Running
<1>12. CASE EndBatch
  <2>1. /\ pc = "apply" /\ i > Len(batch) /\ pc' = "idle" /\ slot' = <<>>
        /\ UNCHANGED <<frames, pending, segSeq>>
    BY <1>12 DEF EndBatch
  <2>2. Len(slot) < From
    BY <2>1 DEF From, BaseInv, TypeInv, BatchOK
  <2>3. Indexed(pending, segSeq, frames)
    BY <1>f, <2>1, <2>2 DEF Running
  <2>4. Len(slot') = 0 /\ From' = 1
    BY <2>1 DEF From
  <2> QED
    BY <1>e, <2>1, <2>3, <2>4 DEF Running
<1>13. CASE WriterExits
  BY <1>13, <1>b DEF WriterExits, Running
<1>14. CASE Close
  BY <1>14, <1>a DEF Close
<1>15. ASSUME NEW k \in 0..tail, NEW torn \in BOOLEAN, PowerLoss(k, torn)
       PROVE  AppliedInv'
  BY <1>15, <1>b DEF PowerLoss, Running
<1>16. CASE Kill
  BY <1>16, <1>b DEF Kill, Running
<1> QED
  BY <1>1, <1>2, <1>3, <1>4, <1>5, <1>6, <1>7, <1>8, <1>9, <1>10, <1>11, <1>12,
     <1>13, <1>14, <1>15, <1>16 DEF Next, Writer, CallAppend, CallAck

\* IndexMatchesLog, however often the process is restarted, killed or loses
\* power: at every moment the entries in memory are those a replay of the
\* applied records would rebuild, so that batching, superseding appends, acks and
\* reclaimed segments neither forget nor resurrect an entry.  With I/O errors it
\* is false: a frame whose sync failed, or a file that could not be removed,
\* stays in the log although its request was refused or its events are resolved.
THEOREM IndexMatches ==
  ASSUME Env \subseteq {"restart", "powerloss", "kill"}
  PROVE  Spec => []IndexMatchesLog
<1> DEFINE Inv == Untorn /\ BatchInv /\ NoErrors /\ AppliedInv
<1>0. CrashesOnly /\ "tear" \notin Env
  BY DEF CrashesOnly
<1>1. Init => Inv
  BY DEF Init, Untorn, BatchInv, NoErrors, AppliedInv, Running
<1>2. BaseInv /\ Inv /\ [Next]_vars => Inv'
  BY <1>0, UntornStep, BatchStep, NoErrorsStep, AppliedStep
<1>3. Inv => IndexMatchesLog
  BY DEF AppliedInv, Indexed, Applied, IndexMatchesLog
<1> HIDE DEF Inv
<1> QED
  BY BaseInvariant, <1>1, <1>2, <1>3, PTL DEF Spec

\* The segments that the index refers to are the ones the log needs: if an entry
\* refers to segment s and no record is older, then without the records of s the
\* event would be taken for resolved.
LEMMA PinnedIsNeeded ==
  ASSUME NEW D, D \subseteq Frames, NEW e \in Events, NEW s \in Nat,
         Unresolved(e, D) # {},
         NEW L, Latest(L, e, D), L.seg = s,
         \A f \in D : f.seg >= s,
         \A f, g \in D : f.at <= g.at => f.seg <= g.seg
  PROVE  Unresolved(e, D) # Unresolved(e, {f \in D : f.seg # s})
<1>1. ASSUME NEW f \in D, f.kind = "event", f.event = e PROVE f.seg = s
  <2>1. f.seg \in Nat /\ f.seg >= s
    BY FrameTypes
  <2>2. f.seg <= s
    BY <1>1 DEF Latest
  <2> QED
    BY <2>1, <2>2
<1>2. Unresolved(e, {f \in D : f.seg # s}) = {}
  BY <1>1 DEF Unresolved
<1> QED
  BY <1>2

\* OldestFileIsNeeded, however often the process is restarted, killed or loses
\* power: between batches the oldest file is the active one or holds a record that
\* an unresolved entry depends on, although what resolves its last entry (an ack,
\* a superseding append, the rotation that retires the file) need not be about
\* that file.  A file that could not be removed, or one that ends in a torn frame,
\* stays longer.
THEOREM OldestNeeded ==
  ASSUME Env \subseteq {"restart", "powerloss", "kill"}
  PROVE  Spec => []OldestFileIsNeeded
<1> DEFINE Inv == Untorn /\ BatchInv /\ NoErrors /\ AppliedInv
<1>0. CrashesOnly /\ "tear" \notin Env
  BY DEF CrashesOnly
<1>1. Init => Inv
  BY DEF Init, Untorn, BatchInv, NoErrors, AppliedInv, Running
<1>2. BaseInv /\ Inv /\ [Next]_vars => Inv'
  BY <1>0, UntornStep, BatchStep, NoErrorsStep, AppliedStep
<1>3. BaseInv /\ Inv /\ FrontInv => OldestFileIsNeeded
  <2> SUFFICES ASSUME BaseInv, Inv, FrontInv, pc = "idle",
                      NEW s \in files \ {active}, \A t \in files : s <= t
               PROVE  \E e \in Events : Unresolved(e, frames) #
                                         Unresolved(e, {f \in frames : f.seg # s})
    BY DEF OldestFileIsNeeded
  <2>1. files = segments /\ slot = <<>> /\ pc \in Running
    BY DEF NoErrors, Running
  <2>2. TypeOK
    BY DEF BaseInv, TypeInv
  <2>3. s \in Nat /\ frames \subseteq Frames
    BY <2>2 DEF TypeOK
  <2>4. refCount[s] # 0
    BY <2>1 DEF FrontInv, Reclaimable
  <2>5. refCount[s] = Cardinality(Pinned(s))
    BY <2>1 DEF BaseInv, CountInv, RefCountExact
  <2>6. Pinned(s) # {}
    BY <2>4, <2>5, FS_EmptySet
  <2>7. PICK e \in Events : pending[e] # {} /\ segSeq[e] = s
    BY <2>6 DEF Pinned
  <2>8. Applied = frames
    BY <2>1 DEF Applied, Unapplied
  <2>9. Indexed(pending, segSeq, frames)
    BY <2>1, <2>8 DEF AppliedInv
  <2>10. /\ Unresolved(e, frames) # {}
         /\ \E L \in frames : Latest(L, e, frames) /\ L.seg = s
    BY <2>7, <2>9 DEF Indexed
  <2>11. PICK L \in frames : Latest(L, e, frames) /\ L.seg = s
    BY <2>10
  <2>12. \A f \in frames : f.seg >= s
    <3>1. \A f \in frames : f.seg \in files /\ f.seg \in Nat
      BY <2>3, FrameTypes DEF BaseInv, CountInv, SegmentsInv
    <3> QED
      BY <2>3, <3>1
  <2>13. \A f, g \in frames : f.at <= g.at => f.seg <= g.seg
    BY DEF BaseInv, OrderInv
  <2> QED
    BY <2>3, <2>10, <2>11, <2>12, <2>13, PinnedIsNeeded
<1> HIDE DEF Inv
<1> QED
  BY BaseInvariant, FrontInvariant, <1>1, <1>2, <1>3, PTL DEF Spec
=============================================================================

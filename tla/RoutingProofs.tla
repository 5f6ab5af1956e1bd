---------------------------- MODULE RoutingProofs ----------------------------
(* Theorems about the daemon as a whole: where events go, and what it takes for *)
(* custody not to depend on what happens to be in progress.                     *)
EXTENDS DeliveryProofs

-----------------------------------------------------------------------------
(* Invariants. *)

\* A process that is down serves nobody.  Whatever a request still has to store is
\* for providers of the configuration that the process runs with.
RoutesInv ==
  /\ phase = "down" => \A h \in Handlers : handler[h] = Idle
  /\ \A h \in Handlers : handler[h] # Idle =>
       \A k \in DOMAIN handler[h].todo : Range(handler[h].todo[k].route) \subseteq known

\* Pair x is on its way: in a batcher, or in the hands of a request that has yet
\* to dispatch it.
UnderWay(x) ==
  \/ queued[x] + resting[x] + acking[x] > 0
  \/ \E h \in Handlers : /\ handler[h] # Idle /\ handler[h].left # <<>>
                         /\ Head(handler[h].todo).event = x[1]
                         /\ x[2] \in Range(handler[h].left)

\* While the process boots, unresolved pairs may also wait for ReplayPending.
OrphanInv ==
  /\ phase \in {"booting", "serving"} =>
       \A x \in Pending : x \in boot \/ x[2] \notin known \/ UnderWay(x)
  /\ phase = "serving" => boot = {}

\* Every request that is let in, whatever the daemon was started with, routes an
\* event to the same providers, R of the event.
RoutedTo(R) ==
  \A c \in {NoConfig} \cup Loaded : \A r \in Requests :
    Admissible(c, r) =>
      \A k \in DOMAIN r.body :
        Range(Targets(c, r.body[k])) = R[r.body[k].event]

\* Nothing has to be shared when events go where they always went, and nobody
\* replays the DLQ.
AlikeInv(R) ==
  /\ raced = {} /\ \A e \in Events : index[e] \subseteq R[e]
  /\ \A h \in Handlers : handler[h] # Idle =>
       /\ handler[h].kind # "replay"
       /\ \A k \in DOMAIN handler[h].todo :
            Range(handler[h].todo[k].route) = R[handler[h].todo[k].event]

-----------------------------------------------------------------------------
(* What requests carry. *)

\* All but the first.
LEMMA TailElements ==
  ASSUME NEW S, NEW s \in Seq(S), s # <<>>, NEW k \in DOMAIN Tail(s)
  PROVE  k + 1 \in DOMAIN s /\ Tail(s)[k] = s[k + 1]
OBVIOUS

\* An element is the first or one of the others.
LEMMA HeadOrTail ==
  ASSUME NEW S, NEW s \in Seq(S), s # <<>>, NEW p \in Range(s)
  PROVE  p = Head(s) \/ p \in Range(Tail(s))
<1>1. PICK i \in 1..Len(s) : p = s[i]
  BY DEF Range
<1>2. CASE i = 1
  BY <1>1, <1>2
<1>3. CASE i # 1
  <2>1. i - 1 \in DOMAIN Tail(s) /\ Tail(s)[i - 1] = s[i]
    BY <1>3
  <2> QED BY <1>1, <2>1 DEF Range
<1> QED BY <1>2, <1>3

\* Decoding changes neither an event's name nor its route.
LEMMA DecodedTargets ==
  ASSUME NEW c, NEW r \in Requests, NEW k \in DOMAIN r.body
  PROVE  Targets(c, Decoded(r)[k]) = Targets(c, r.body[k])
<1> DEFINE b == r.body[k]
           d == Decoded(r)[k]
<1>1. r.body \in Seq(WireEvents)
  BY DeliveryAssumption DEF WireRequests
<1>2. b \in WireEvents
  BY <1>1
<1>3. d = [b EXCEPT !.stamp = IF @ = "absent" THEN "zero" ELSE @]
  BY DEF Decoded, toEvents, decodeEvents
<1>4. d.name = b.name /\ d.route = b.route
  BY <1>2, <1>3 DEF WireEvents
<1> HIDE DEF b, d
<1>5. Targets(c, d) = Targets(c, b)
  BY <1>4 DEF Targets, Route
<1> QED BY <1>5 DEF b, d

\* What Ingest hands to its sink is for configured providers.
LEMMA HandedRoutes ==
  ASSUME NEW c \in {NoConfig} \cup Loaded, NEW r \in Requests, Admissible(c, r),
         NEW k \in DOMAIN Handed(c, r)
  PROVE  /\ k \in DOMAIN r.body
         /\ Handed(c, r)[k].event = r.body[k].event
         /\ Handed(c, r)[k].route = Targets(c, r.body[k])
         /\ Range(Targets(c, r.body[k])) \subseteq Known(c)
<1>1. k \in DOMAIN r.body
  BY DEF Handed
<1>2. Routable(c, Decoded(r)[k])
  BY <1>1 DEF Admissible
<1>3. Range(Targets(c, r.body[k])) \subseteq Known(c)
  BY <1>1, <1>2, DecodedTargets DEF Routable
<1> QED BY <1>1, <1>3 DEF Handed

\* A job is what it was, is an entry shorter, or is new.
LEMMA JobStep ==
  ASSUME TypeInv, [Next]_vars, NEW h \in Handlers, handler'[h] # Idle
  PROVE  \/ /\ handler[h] \in Jobs /\ handler'[h].kind = handler[h].kind
            /\ \/ handler'[h].todo = handler[h].todo
               \/ /\ handler[h].todo # <<>>
                  /\ handler'[h].todo = Tail(handler[h].todo)
         \/ \E r \in Requests : Ingest(h, r)
         \/ \E p \in Providers : ListRecords(h, p)
<1> USE DEF diskVars, ticketVars, procVars, outVars
<1> DEFINE Same == /\ handler[h] \in Jobs /\ handler'[h].kind = handler[h].kind
                   /\ \/ handler'[h].todo = handler[h].todo
                      \/ /\ handler[h].todo # <<>>
                         /\ handler'[h].todo = Tail(handler[h].todo)
<1>0. HandlersOK
  BY DEF TypeInv
<1>1. ASSUME handler'[h] = handler[h] PROVE Same
  BY <1>1, BusyTypes
<1>2. ASSUME NEW g \in Handlers, Handle(g) PROVE Same
  <2>1. CASE SinkAppend(g)
    BY <1>1, <2>1, SinkAppendJob
  <2>2. CASE SinkAppendFails(g)
    BY <1>1, <2>2, SinkAppendFailsJob
  <2>3. CASE Dispatch(g)
    BY <1>1, <2>3, DispatchJob
  <2>4. CASE Accepted(g) \/ RemoveRecords(g)
    BY <1>0, <1>1, <2>4 DEF Accepted, RemoveRecords, HandlersOK
  <2> QED BY <1>2, <2>1, <2>2, <2>3, <2>4 DEF Handle
<1>3. ASSUME NEW g \in Handlers, NEW r \in Requests, Ingest(g, r)
      PROVE  Same \/ Ingest(h, r)
  BY <1>0, <1>1, <1>3 DEF Ingest, HandlersOK
<1>4. ASSUME NEW g \in Handlers, NEW p \in Providers, ListRecords(g, p)
      PROVE  Same \/ ListRecords(h, p)
  <2>1. CASE g = h
    BY <1>4, <2>1
  <2>2. CASE g # h
    BY <1>0, <1>1, <1>4, <2>2 DEF ListRecords, HandlersOK
  <2> QED BY <2>1, <2>2
<1>5. ASSUME Exit \/ Crash PROVE FALSE
  BY <1>5 DEF Exit, Crash, LoseMemory
<1>6. ASSUME UNCHANGED handler PROVE Same
  BY <1>1, <1>6
<1> HIDE DEF Same
<1>7. ASSUME NEW x \in Pairs,
             ReplayPending(x) \/ Resolve(x) \/ Retry(x) \/ RetryFires(x) \/ Ack(x)
      PROVE  UNCHANGED handler
  BY <1>7 DEF ReplayPending, Resolve, Deliver, DeadLetter, Retry, RetryFires, Ack
<1>8. ASSUME \/ \E config \in Configs : Start(config)
             \/ Serve \/ Stop \/ Drain \/ CloseStores \/ UNCHANGED vars
             \/ \E p \in Providers : CloseBatcher(p)
      PROVE  UNCHANGED handler
  BY <1>8 DEF Start, Serve, Stop, Drain, CloseStores, CloseBatcher, vars
<1>9. Same \/ (\E r \in Requests : Ingest(h, r))
           \/ (\E p \in Providers : ListRecords(h, p))
  BY <1>2, <1>3, <1>4, <1>5, <1>6, <1>7, <1>8 DEF Next
<1> QED BY <1>9 DEF Same

\* What a replay has listed is for one provider, and it has a batcher.
LEMMA ListedRoutes ==
  ASSUME TypeInv, NEW h \in Handlers, NEW p \in Providers, ListRecords(h, p)
  PROVE  /\ handler'[h].kind = "replay" /\ p \in known /\ "replay" \in Env
         /\ \A k \in DOMAIN handler'[h].todo : handler'[h].todo[k].route = <<p>>
<1>1. PICK E \in SUBSET {e \in Events : parked[<<e, p>>] > 0} :
        \E order \in SetToSeqs(E) :
          handler' = [handler EXCEPT ![h] =
            [kind |-> "replay", left |-> <<>>, done |-> <<>>,
             todo |-> [k \in DOMAIN order |->
                         [event |-> order[k], route |-> <<p>>, encodes |-> TRUE,
                          record |-> parked[<<order[k], p>>]]]]]
  BY DEF ListRecords
<1>2. PICK order \in SetToSeqs(E) :
        handler' = [handler EXCEPT ![h] =
          [kind |-> "replay", left |-> <<>>, done |-> <<>>,
           todo |-> [k \in DOMAIN order |->
                       [event |-> order[k], route |-> <<p>>, encodes |-> TRUE,
                        record |-> parked[<<order[k], p>>]]]]]
  BY <1>1
<1> DEFINE t == [k \in DOMAIN order |->
                   [event |-> order[k], route |-> <<p>>, encodes |-> TRUE,
                    record |-> parked[<<order[k], p>>]]]
<1>3. \A k \in DOMAIN t : t[k].route = <<p>>
  OBVIOUS
<1>4. handler' = [handler EXCEPT ![h] =
        [kind |-> "replay", left |-> <<>>, done |-> <<>>, todo |-> t]]
  BY <1>2
<1> HIDE DEF t
<1>5. handler'[h].kind = "replay" /\ handler'[h].todo = t
  BY <1>4 DEF TypeInv, HandlersOK
<1> QED BY <1>3, <1>5 DEF ListRecords

-----------------------------------------------------------------------------
(* Every stored event has somewhere to go. *)

\* Every step keeps RoutesInv.
LEMMA RoutesStep == TypeInv /\ RoutesInv /\ [Next]_vars => RoutesInv'
<1> USE DEF diskVars, ticketVars, procVars, outVars
<1> SUFFICES ASSUME TypeInv, RoutesInv, [Next]_vars PROVE RoutesInv'
  OBVIOUS
<1>1. CASE Exit \/ Crash
  BY <1>1 DEF Exit, Crash, LoseMemory, RoutesInv
<1>2. ASSUME NEW config \in Configs, Start(config) PROVE RoutesInv'
  BY <1>2 DEF Start, RoutesInv
<1>3. ASSUME ~(Exit \/ Crash), ~\E config \in Configs : Start(config)
      PROVE  cfg' = cfg /\ (phase' = "down" => phase = "down" /\ handler' = handler)
  BY <1>3 DEF Next, vars, ReplayPending, Resolve, Deliver, DeadLetter, Retry,
              RetryFires, Ack, Serve, Handle, SinkAppend, SinkAppendFails, Dispatch,
              Accepted, RemoveRecords, Ingest, ListRecords, Stop, Drain,
              CloseBatcher, CloseStores, Busy, Up, Phases, Listening
<1>4. ASSUME ~(Exit \/ Crash), ~\E config \in Configs : Start(config),
             NEW h \in Handlers, handler'[h] # Idle, NEW k \in DOMAIN handler'[h].todo
      PROVE  Range(handler'[h].todo[k].route) \subseteq known'
  <2>1. known' = known
    BY <1>3, <1>4 DEF known
  <2>2. CASE /\ handler[h] \in Jobs
             /\ \/ handler'[h].todo = handler[h].todo
                \/ /\ handler[h].todo # <<>>
                   /\ handler'[h].todo = Tail(handler[h].todo)
    <3>1. handler[h].todo \in Seq(Entries) /\ handler[h] # Idle
      BY <2>2, JobTypes
    <3>2. \E i \in DOMAIN handler[h].todo : handler'[h].todo[k] = handler[h].todo[i]
      <4>1. CASE handler'[h].todo = handler[h].todo
        BY <1>4, <4>1
      <4>2. CASE /\ handler[h].todo # <<>>
                 /\ handler'[h].todo = Tail(handler[h].todo)
        <5>1. k \in DOMAIN Tail(handler[h].todo)
          BY <1>4, <4>2
        <5> QED BY <3>1, <4>2, <5>1, TailElements
      <4> QED BY <2>2, <4>1, <4>2
    <3> QED BY <2>1, <3>1, <3>2 DEF RoutesInv
  <2>3. ASSUME NEW r \in Requests, Ingest(h, r)
        PROVE  Range(handler'[h].todo[k].route) \subseteq known'
    <3>1. handler'[h].todo = Handed(cfg, r)
      BY <2>3 DEF Ingest, TypeInv, HandlersOK
    <3>2. Admissible(cfg, r) /\ cfg \in {NoConfig} \cup Loaded
      BY <2>3 DEF Ingest, TypeInv, TypeOK
    <3> QED BY <1>4, <2>1, <3>1, <3>2, HandedRoutes DEF known
  <2>4. ASSUME NEW p \in Providers, ListRecords(h, p)
        PROVE  Range(handler'[h].todo[k].route) \subseteq known'
    <3>1. p \in known /\ handler'[h].todo[k].route = <<p>>
      BY <1>4, <2>4, ListedRoutes
    <3> QED BY <2>1, <3>1 DEF Range
  <2> QED BY <1>4, <2>2, <2>3, <2>4, JobStep
<1>5. CASE ~(Exit \/ Crash) /\ ~\E config \in Configs : Start(config)
  BY <1>3, <1>4, <1>5 DEF RoutesInv
<1> QED BY <1>1, <1>2, <1>5

\* Invariance of RoutesInv.
LEMMA RoutesInvariant == Spec => []RoutesInv
<1>1. Init => RoutesInv
  BY DEF Init, RoutesInv
<1> QED BY <1>1, RoutesStep, TypeInvariant, PTL DEF Spec

\* Only SinkAppend makes the WAL wait for more.
LEMMA PendingGrows ==
  ASSUME [Next]_vars, NEW x \in Pairs, x \in Pending', x \notin Pending, TypeInv
  PROVE  \E h \in Handlers : SinkAppend(h) /\ x \in EntryPairs(Head(handler[h].todo))
<1> USE DEF diskVars, ticketVars, procVars, outVars
<1>1. index' # index
  BY DEF Pending
<1>2. ASSUME NEW y \in Pairs, Ack(y) PROVE FALSE
  BY <1>1, <1>2, PendingIndex DEF Ack, TypeInv, TypeOK, Pairs
<1>3. \E h \in Handlers : SinkAppend(h)
  BY <1>1, <1>2
     DEF Next, vars, Start, ReplayPending, Resolve, Deliver, DeadLetter, Retry,
         RetryFires, Serve, Handle, SinkAppendFails, Dispatch, Accepted,
         RemoveRecords, Ingest, ListRecords, Stop, Drain, CloseBatcher,
         CloseStores, Exit, Crash
<1>4. PICK h \in Handlers : SinkAppend(h)
  BY <1>3
<1> DEFINE y == Head(handler[h].todo)
<1>5. index' = [index EXCEPT ![y.event] = Range(y.route)] /\ y.event \in Events
  BY <1>4, SinkAppendJob DEF SinkAppend
<1>6. x[1] = y.event /\ x[2] \in Range(y.route)
  <2> HIDE DEF y
  <2> QED BY <1>5, PendingIndex DEF TypeInv, TypeOK, Pairs
<1> QED BY <1>4, <1>6 DEF EntryPairs

\* The WAL never comes to wait for a provider that has no batcher, whatever clients
\* ask for, whatever is replayed and however the configuration changes.
THEOREM RoutableHolds == Spec => StoredIsRoutable
<1> DEFINE A == \A x \in Pending' \ Pending : x[2] \in known
<1>1. TypeInv /\ RoutesInv /\ [Next]_vars => [A]_vars
  <2> SUFFICES ASSUME TypeInv, RoutesInv, [Next]_vars,
                      NEW x \in Pending' \ Pending
               PROVE  x[2] \in known
    OBVIOUS
  <2>1. x \in Pairs
    BY DEF Pending
  <2>2. PICK h \in Handlers :
          SinkAppend(h) /\ x \in EntryPairs(Head(handler[h].todo))
    BY <2>1, PendingGrows
  <2>3. handler[h] # Idle /\ handler[h].todo # <<>> /\ handler[h].todo \in Seq(Entries)
    BY <2>2, SinkAppendJob, JobTypes
  <2>4. 1 \in DOMAIN handler[h].todo /\ handler[h].todo[1] = Head(handler[h].todo)
    BY <2>3
  <2>5. Range(Head(handler[h].todo).route) \subseteq known
    BY <2>3, <2>4 DEF RoutesInv
  <2> QED BY <2>2, <2>5 DEF EntryPairs
<1> QED BY <1>1, TypeInvariant, RoutesInvariant, PTL DEF Spec, StoredIsRoutable

-----------------------------------------------------------------------------
(* Nothing unresolved is left lying. *)

\* What keeps a pair under way: its tickets do not become fewer, and a request
\* that has yet to dispatch it still has.
LEMMA StaysUnderWay ==
  ASSUME NEW x, UnderWay(x),
         queued[x] + resting[x] + acking[x] > 0 =>
           queued'[x] + resting'[x] + acking'[x] > 0,
         \A h \in Handlers :
           handler[h] # Idle /\ handler[h].left # <<>> => handler'[h] = handler[h]
  PROVE  UnderWay(x)'
BY DEF UnderWay

\* Every step keeps OrphanInv, if no ack fails.
LEMMA OrphanStep ==
  ASSUME "ack" \notin Env
  PROVE  TypeInv /\ TypeInv' /\ OrphanInv /\ [Next]_vars => OrphanInv'
<1> USE DEF diskVars, ticketVars, procVars, outVars
<1> SUFFICES ASSUME TypeInv, TypeInv', OrphanInv, [Next]_vars PROVE OrphanInv'
  OBVIOUS
<1>0. TypeOK /\ HandlersOK /\ ProcessOK /\ TypeOK'
  BY DEF TypeInv
<1>a. \A x \in Pairs : /\ queued[x] \in Nat /\ resting[x] \in Nat /\ acking[x] \in Nat
                       /\ queued'[x] \in Nat /\ resting'[x] \in Nat
                       /\ acking'[x] \in Nat
  BY <1>0 DEF TypeOK
<1>b. Pending \subseteq Pairs /\ Pending' \subseteq Pairs
  BY DEF Pending
\* A step that leaves the process, the WAL and the requests alone.
<1>c. ASSUME UNCHANGED <<index, phase, cfg, boot, handler>>,
             \A x \in Pairs : queued[x] + resting[x] + acking[x] > 0 =>
               queued'[x] + resting'[x] + acking'[x] > 0
      PROVE  OrphanInv'
  BY <1>b, <1>c, StaysUnderWay DEF OrphanInv, Pending, known
\* A step of a request that dispatches nothing.
<1>d. ASSUME UNCHANGED <<ticketVars, procVars>>,
             NEW h \in Handlers, handler[h] = Idle \/ handler[h].left = <<>>,
             \A g \in Handlers : g # h => handler'[g] = handler[g]
      PROVE  /\ UNCHANGED index => OrphanInv'
             /\ \A x \in Pairs : UnderWay(x) => UnderWay(x)'
  <2>1. ASSUME NEW x \in Pairs, UnderWay(x) PROVE UnderWay(x)'
    BY <1>d, <2>1, StaysUnderWay
  <2> QED BY <1>b, <1>d, <2>1 DEF OrphanInv, Pending, known
<1>1. CASE UNCHANGED vars
  BY <1>1, <1>c DEF vars
<1>2. ASSUME NEW config \in Configs, Start(config) PROVE OrphanInv'
  BY <1>2 DEF Start, OrphanInv, Pending
<1>3. ASSUME NEW y \in Pairs, ReplayPending(y) PROVE OrphanInv'
  <2>1. /\ UNCHANGED <<index, phase, cfg, handler, resting, acking>>
        /\ phase = "booting" /\ boot' = boot \ {y}
        /\ IF y[2] \in known THEN queued' = Plus(queued, y, 1) ELSE UNCHANGED queued
    BY <1>3 DEF ReplayPending
  <2>2. \A x \in Pairs : queued'[x] >= queued[x]
    BY <1>0, <2>1 DEF Plus, TypeOK
  <2>3. y[2] \in known => queued'[y] > 0
    BY <1>0, <2>1 DEF Plus, TypeOK
  <2>4. \A x \in Pairs : UnderWay(x) => UnderWay(x)'
    <3>1. \A x \in Pairs : queued[x] + resting[x] + acking[x] > 0 =>
            queued'[x] + resting'[x] + acking'[x] > 0
      BY <1>a, <2>1, <2>2
    <3> QED BY <2>1, <3>1, StaysUnderWay
  <2>5. y[2] \in known => UnderWay(y)'
    BY <1>a, <2>3 DEF UnderWay
  <2>6. Pending' = Pending /\ known' = known
    BY <2>1 DEF Pending, known
  <2> QED BY <1>b, <2>1, <2>4, <2>5, <2>6 DEF OrphanInv
<1>4. CASE Serve
  <2>1. \A x \in Pairs : UnderWay(x) => UnderWay(x)'
    BY <1>4, StaysUnderWay DEF Serve
  <2> QED BY <1>4, <1>b, <2>1 DEF Serve, OrphanInv, Pending, known
<1>5. ASSUME NEW h \in Handlers, NEW r \in Requests, Ingest(h, r) PROVE OrphanInv'
  BY <1>0, <1>5, <1>d DEF Ingest, HandlersOK
<1>6. ASSUME NEW h \in Handlers, NEW p \in Providers, ListRecords(h, p)
      PROVE  OrphanInv'
  BY <1>0, <1>6, <1>d DEF ListRecords, HandlersOK
<1>7. ASSUME NEW h \in Handlers, SinkAppend(h) PROVE OrphanInv'
  <2> DEFINE y == Head(handler[h].todo)
  <2>1. /\ \A g \in Handlers : g # h => handler'[g] = handler[g]
        /\ handler'[h] \in Jobs /\ handler'[h].todo = handler[h].todo
        /\ handler'[h].left = y.route /\ y.event \in Events
        /\ y.route \in Seq(Providers)
    BY <1>7, SinkAppendJob
  <2>2. /\ UNCHANGED <<ticketVars, procVars>> /\ handler[h].left = <<>>
        /\ index' = [index EXCEPT ![y.event] = Range(y.route)]
    BY <1>7 DEF SinkAppend
  <2>3. \A x \in Pairs : UnderWay(x) => UnderWay(x)'
    BY <1>d, <2>1, <2>2
  <2>4. ASSUME NEW x \in Pending', x[1] = y.event PROVE UnderWay(x)'
    <3>1. x[2] \in Range(y.route)
      BY <1>0, <2>1, <2>2, <2>4, <1>b, PendingIndex DEF TypeOK
    <3>2. y.route # <<>>
      BY <3>1 DEF Range
    <3>3. handler'[h] # Idle
      BY <2>1, JobTypes
    <3> QED BY <2>1, <2>4, <3>1, <3>2, <3>3 DEF UnderWay
  <2>5. ASSUME NEW x \in Pending', x[1] # y.event PROVE x \in Pending
    BY <1>0, <1>b, <2>1, <2>2, <2>5, PendingIndex DEF TypeOK, Pairs
  <2> QED BY <1>b, <2>2, <2>3, <2>4, <2>5 DEF OrphanInv, known
<1>8. ASSUME NEW h \in Handlers, SinkAppendFails(h) PROVE OrphanInv'
  <2>1. /\ handler[h].left = <<>>
        /\ \A g \in Handlers : g # h => handler'[g] = handler[g]
    BY <1>8, SinkAppendFailsJob
  <2> QED BY <1>8, <1>d, <2>1 DEF SinkAppendFails
<1>9. ASSUME NEW h \in Handlers, Dispatch(h) PROVE OrphanInv'
  <2> DEFINE j == handler[h]
             k == handler'[h]
             e == Head(j.todo).event
             y == <<e, Head(j.left)>>
  <2> SUFFICES ASSUME phase' \in {"booting", "serving"} PROVE OrphanInv'
    BY <1>9 DEF OrphanInv, Dispatch
  <2>1. /\ \A g \in Handlers : g # h => handler'[g] = handler[g]
        /\ j \in Jobs /\ k \in Jobs /\ j.left # <<>> /\ e \in Events
        /\ Head(j.left) \in Providers /\ k.left = Tail(j.left)
        /\ k.left # <<>> => k.todo = j.todo
    BY <1>9, DispatchJob
  <2>2. /\ UNCHANGED <<index, procVars, resting, acking>>
        /\ queued' = Plus(queued, y, 1) \/ Head(j.left) \in shut
    BY <1>9 DEF Dispatch
  <2>3. y \in Pairs /\ queued' = Plus(queued, y, 1)
    BY <1>0, <2>1, <2>2 DEF Pairs, ProcessOK
  <2>4. /\ queued'[y] > 0
        /\ \A x \in Pairs : queued'[x] >= queued[x]
    <3> HIDE DEF y
    <3> QED BY <1>0, <2>3 DEF Plus, TypeOK
  <2>5. j.left \in Seq(Providers) /\ k # Idle
    BY <2>1, JobTypes
  <2>6. \A p \in Range(j.left) : p = Head(j.left) \/ p \in Range(k.left)
    BY <2>1, <2>5, HeadOrTail
  <2>7. ASSUME NEW x \in Pairs, UnderWay(x) PROVE UnderWay(x)'
    <3>1. CASE queued[x] + resting[x] + acking[x] > 0
      BY <1>a, <2>2, <2>4, <3>1 DEF UnderWay
    <3>2. ASSUME NEW g \in Handlers, g # h, handler[g] # Idle, handler[g].left # <<>>,
                 Head(handler[g].todo).event = x[1], x[2] \in Range(handler[g].left)
          PROVE  UnderWay(x)'
      BY <2>1, <3>2 DEF UnderWay
    <3>3. CASE e = x[1] /\ x[2] \in Range(j.left)
      <4>1. CASE x[2] = Head(j.left)
        <5>1. x = y
          BY <3>3, <4>1 DEF Pairs
        <5>2. queued'[x] > 0
          BY <2>4, <5>1
        <5> QED BY <1>a, <5>2 DEF UnderWay
      <4>2. CASE x[2] \in Range(k.left)
        <5>1. k.left # <<>>
          BY <4>2 DEF Range
        <5>2. Head(k.todo).event = x[1]
          BY <2>1, <3>3, <5>1
        <5> QED BY <2>5, <4>2, <5>1, <5>2 DEF UnderWay
      <4> QED BY <2>6, <3>3, <4>1, <4>2
    <3> QED BY <2>7, <3>1, <3>2, <3>3 DEF UnderWay
  <2> QED BY <1>b, <2>2, <2>7 DEF OrphanInv, Pending, known
<1>10. ASSUME NEW h \in Handlers, Accepted(h) \/ RemoveRecords(h) PROVE OrphanInv'
  <2>1. handler[h].left = <<>>
    BY <1>0, <1>10 DEF Accepted, RemoveRecords, Busy, HandlersOK
  <2>2. \A g \in Handlers : g # h => handler'[g] = handler[g]
    BY <1>0, <1>10 DEF Accepted, RemoveRecords, HandlersOK
  <2> QED BY <1>10, <1>d, <2>1, <2>2 DEF Accepted, RemoveRecords
<1>11. ASSUME NEW y \in Pairs, Resolve(y) \/ Retry(y) \/ RetryFires(y) PROVE OrphanInv'
  <2>1. \A x \in Pairs :
          queued'[x] + resting'[x] + acking'[x] = queued[x] + resting[x] + acking[x]
    BY <1>0, <1>11
       DEF Resolve, Deliver, DeadLetter, Retry, RetryFires, Plus, TypeOK
  <2>2. UNCHANGED <<index, phase, cfg, boot, handler>>
    BY <1>11 DEF Resolve, Deliver, DeadLetter, Retry, RetryFires
  <2> QED BY <1>c, <2>1, <2>2
<1>12. ASSUME NEW y \in Pairs, Ack(y) PROVE OrphanInv'
  <2>1. /\ index' = [index EXCEPT ![y[1]] = @ \ {y[2]}]
        /\ acking' = Plus(acking, y, -1)
        /\ UNCHANGED <<queued, resting, procVars, handler>>
    BY <1>12 DEF Ack
  <2>2. ASSUME NEW x \in Pending' PROVE x \in Pending /\ x # y
    BY <1>0, <1>b, <2>1, PendingIndex DEF TypeOK, Pairs
  <2>3. \A x \in Pairs : x # y => acking'[x] = acking[x]
    BY <1>0, <2>1 DEF Plus, TypeOK
  <2>4. ASSUME NEW x \in Pairs, x # y, UnderWay(x) PROVE UnderWay(x)'
    BY <2>1, <2>3, <2>4, StaysUnderWay
  <2> QED BY <1>b, <2>1, <2>2, <2>4 DEF OrphanInv, known
<1>13. ASSUME \/ Stop \/ Drain \/ CloseStores \/ Exit \/ Crash
              \/ \E p \in Providers : CloseBatcher(p)
       PROVE  OrphanInv'
  BY <1>13 DEF Stop, Drain, CloseStores, Exit, Crash, CloseBatcher, LoseMemory,
               OrphanInv
<1> QED BY <1>1, <1>2, <1>3, <1>4, <1>5, <1>6, <1>7, <1>8, <1>9, <1>10, <1>11,
           <1>12, <1>13
        DEF Next, Handle

\* If no ack fails, then whatever the WAL still waits for while requests are served
\* has a ticket or is about to get one: after half-stored requests, replays and
\* crashes alike, nothing has to wait for a restart to be sent.
THEOREM NothingOrphaned ==
  ASSUME "ack" \notin Env
  PROVE  Spec => []NoOrphan
<1>1. Init => OrphanInv
  BY DEF Init, OrphanInv
<1>2. TypeInv /\ TypeInv' /\ OrphanInv /\ [Next]_vars => OrphanInv'
  BY OrphanStep
<1>3. OrphanInv => NoOrphan
  BY DEF OrphanInv, NoOrphan, UnderWay
<1> QED BY <1>1, <1>2, <1>3, TypeInvariant, PTL DEF Spec

-----------------------------------------------------------------------------
(* Custody of events that are routed alike. *)

\* An ack, and a new entry of the same event, are all that takes a pair out of the
\* WAL; the pair is resolved or given up then, or it had to be shared.
LEMMA PendingShrinks ==
  ASSUME TypeInv, CustodyInv, [Next]_vars, NEW x \in Pending, x \notin Pending'
  PROVE  x \in Resolved \cup lost \cup raced'
<1> USE DEF diskVars, ticketVars, procVars, outVars
<1>0. TypeOK /\ x \in Pairs /\ index' # index
  BY DEF TypeInv, Pending
<1>1. ASSUME NEW y \in Pairs, Ack(y) PROVE x \in Resolved \cup lost \cup raced'
  <2>1. /\ acking[y] > 0 /\ UNCHANGED raced
        /\ index' = [index EXCEPT ![y[1]] = @ \ {y[2]}]
    BY <1>0, <1>1 DEF Ack
  <2>2. x[1] \in Events /\ y[1] \in Events
        /\ (x[1] = y[1] /\ x[2] = y[2] => x = y)
    BY <1>0 DEF Pairs
  <2>3. x = y
    BY <1>0, <2>1, <2>2, PendingIndex DEF TypeOK
  <2> QED BY <1>0, <2>1, <2>3 DEF CustodyInv, Kept
<1>2. ASSUME NEW h \in Handlers, SinkAppend(h) PROVE x \in Resolved \cup lost \cup raced'
  <2> DEFINE y == Head(handler[h].todo)
  <2>1. /\ index' = [index EXCEPT ![y.event] = Range(y.route)]
        /\ raced' = raced \cup Races(y, handler[h].kind)
    BY <1>2 DEF SinkAppend
  <2> HIDE DEF y
  <2>2. x[1] = y.event /\ x[2] \notin Range(y.route)
    BY <1>0, <2>1, PendingIndex DEF TypeOK, Pairs
  <2> QED BY <2>1, <2>2 DEF Races
<1>3. (\E y \in Pairs : Ack(y)) \/ (\E h \in Handlers : SinkAppend(h))
  BY <1>0
     DEF Next, vars, Start, ReplayPending, Resolve, Deliver, DeadLetter, Retry,
         RetryFires, Serve, Handle, SinkAppendFails, Dispatch, Accepted,
         RemoveRecords, Ingest, ListRecords, Stop, Drain, CloseBatcher,
         CloseStores, Exit, Crash
<1> QED BY <1>1, <1>2, <1>3

\* Every step keeps AlikeInv.
LEMMA AlikeStep ==
  ASSUME "replay" \notin Env, NEW R, RoutedTo(R)
  PROVE  TypeInv /\ AlikeInv(R) /\ [Next]_vars => AlikeInv(R)'
<1> USE DEF diskVars, ticketVars, procVars, outVars
<1> SUFFICES ASSUME TypeInv, AlikeInv(R), [Next]_vars PROVE AlikeInv(R)'
  OBVIOUS
<1>0. TypeOK /\ HandlersOK
  BY DEF TypeInv
<1>1. ASSUME NEW h \in Handlers, handler'[h] # Idle
      PROVE  /\ handler'[h].kind # "replay"
             /\ \A k \in DOMAIN handler'[h].todo :
                  Range(handler'[h].todo[k].route) = R[handler'[h].todo[k].event]
  <2>1. CASE /\ handler[h] \in Jobs /\ handler'[h].kind = handler[h].kind
             /\ \/ handler'[h].todo = handler[h].todo
                \/ /\ handler[h].todo # <<>>
                   /\ handler'[h].todo = Tail(handler[h].todo)
    <3>1. handler[h].todo \in Seq(Entries) /\ handler[h] # Idle
      BY <2>1, JobTypes
    <3>2. ASSUME NEW k \in DOMAIN handler'[h].todo
          PROVE  \E i \in DOMAIN handler[h].todo :
                   handler'[h].todo[k] = handler[h].todo[i]
      <4>1. CASE handler'[h].todo = handler[h].todo
        BY <3>2, <4>1
      <4>2. CASE /\ handler[h].todo # <<>>
                 /\ handler'[h].todo = Tail(handler[h].todo)
        <5>1. k \in DOMAIN Tail(handler[h].todo)
          BY <3>2, <4>2
        <5> QED BY <3>1, <4>2, <5>1, TailElements
      <4> QED BY <2>1, <4>1, <4>2
    <3> QED BY <2>1, <3>1, <3>2 DEF AlikeInv
  <2>2. ASSUME NEW r \in Requests, Ingest(h, r)
        PROVE  /\ handler'[h].kind # "replay"
               /\ \A k \in DOMAIN handler'[h].todo :
                    Range(handler'[h].todo[k].route) = R[handler'[h].todo[k].event]
    <3>1. handler'[h].todo = Handed(cfg, r) /\ handler'[h].kind = r.via
      BY <1>0, <2>2 DEF Ingest, HandlersOK
    <3>2. Admissible(cfg, r) /\ cfg \in {NoConfig} \cup Loaded
      BY <1>0, <2>2 DEF Ingest, TypeOK
    <3>3. r.via # "replay"
      BY <3>2, HandedType DEF Transports
    <3>4. \A k \in DOMAIN r.body : Range(Targets(cfg, r.body[k])) = R[r.body[k].event]
      BY <3>2 DEF RoutedTo
    <3> QED BY <3>1, <3>2, <3>3, <3>4, HandedRoutes
  <2>3. ASSUME NEW p \in Providers, ListRecords(h, p) PROVE FALSE
    BY <2>3 DEF ListRecords
  <2> QED BY <1>1, <2>1, <2>2, <2>3, JobStep
<1>2. ASSUME NEW h \in Handlers, SinkAppend(h) PROVE AlikeInv(R)'
  <2> DEFINE y == Head(handler[h].todo)
  <2>1. /\ index' = [index EXCEPT ![y.event] = Range(y.route)]
        /\ raced' = raced \cup Races(y, handler[h].kind)
    BY <1>2 DEF SinkAppend
  <2>2. handler[h] \in Jobs /\ handler[h].todo # <<>> /\ y.event \in Events
    BY <1>2, SinkAppendJob
  <2>3. handler[h].todo \in Seq(Entries) /\ handler[h] # Idle
    BY <2>2, JobTypes
  <2>4. 1 \in DOMAIN handler[h].todo /\ handler[h].todo[1] = y
    BY <2>2, <2>3
  <2>5. Range(y.route) = R[y.event] /\ handler[h].kind # "replay"
    BY <2>3, <2>4 DEF AlikeInv
  <2> HIDE DEF y
  <2>6. Races(y, handler[h].kind) = {}
    BY <2>2, <2>5 DEF Races, Pending, AlikeInv
  <2>7. raced' = {} /\ \A e \in Events : index'[e] \subseteq R[e]
    BY <1>0, <2>1, <2>2, <2>5, <2>6 DEF AlikeInv, TypeOK
  <2> QED BY <1>1, <2>7 DEF AlikeInv
<1>3. ASSUME NEW x \in Pairs, DeadLetter(x) PROVE AlikeInv(R)'
  <2>1. ~Held(x)
    BY DEF Held, AlikeInv
  <2>2. UNCHANGED <<index, raced>>
    BY <1>3, <2>1 DEF DeadLetter
  <2> QED BY <1>1, <2>2 DEF AlikeInv
<1>4. ASSUME NEW x \in Pairs, Ack(x) PROVE AlikeInv(R)'
  <2>1. raced' = raced /\ \A e \in Events : index'[e] \subseteq index[e]
    BY <1>0, <1>4 DEF Ack, TypeOK
  <2> QED BY <1>1, <2>1 DEF AlikeInv
<1>5. CASE UNCHANGED <<index, raced>>
  BY <1>1, <1>5 DEF AlikeInv
<1>6. ASSUME ~\E h \in Handlers : SinkAppend(h),
             ~\E x \in Pairs : DeadLetter(x) \/ Ack(x)
      PROVE  UNCHANGED <<index, raced>>
  BY <1>6
     DEF Next, vars, Start, ReplayPending, Resolve, Deliver, Retry,
         RetryFires, Serve, Handle, SinkAppendFails, Dispatch, Accepted,
         RemoveRecords, Ingest, ListRecords, Stop, Drain, CloseBatcher,
         CloseStores, Exit, Crash
<1> QED BY <1>2, <1>3, <1>4, <1>5, <1>6

\* If every event is routed to the same providers each time it is sent, and the DLQ
\* is not replayed, then every event that a client got 202 for is in the WAL until
\* the provider or the DLQ has it.  The one exception left is the documented one, a
\* DLQ record that could not be written.
THEOREM CustodyWhenRoutedAlike ==
  ASSUME "replay" \notin Env, NEW R, RoutedTo(R)
  PROVE  Spec => []Custody
<1>1. Init => AlikeInv(R)
  BY DEF Init, AlikeInv
<1>2. TypeInv /\ AlikeInv(R) /\ [Next]_vars => AlikeInv(R)'
  BY AlikeStep
<1>3. AlikeInv(R) /\ CustodyUnlessRaced => Custody
  BY DEF AlikeInv, CustodyUnlessRaced, Custody
<1> QED BY <1>1, <1>2, <1>3, TypeInvariant, CustodyHolds, PTL DEF Spec

\* On the same condition no pair leaves the WAL before its provider has it or the
\* DLQ has, or could not be made to have it.
THEOREM ForgottenWhenRoutedAlike ==
  ASSUME "replay" \notin Env, NEW R, RoutedTo(R)
  PROVE  Spec => ForgottenOnlyWhenResolved
<1>1. Init => AlikeInv(R) /\ CustodyInv
  BY DEF Init, AlikeInv, CustodyInv, Kept, StoredBy, None
<1>2. TypeInv /\ AlikeInv(R) /\ [Next]_vars => AlikeInv(R)'
  BY AlikeStep
<1>3. TypeInv /\ TypeInv' /\ CustodyInv /\ [Next]_vars => CustodyInv'
  BY CustodyStep
<1>4. TypeInv /\ CustodyInv /\ AlikeInv(R)' /\ [Next]_vars =>
        [Pending \ Pending' \subseteq Resolved \cup lost]_vars
  BY PendingShrinks DEF AlikeInv
<1> QED BY <1>1, <1>2, <1>3, <1>4, TypeInvariant, PTL
        DEF Spec, ForgottenOnlyWhenResolved

=============================================================================

--------------------------- MODULE DeliveryProofs ---------------------------
(* Theorems about the daemon as a whole. *)
EXTENDS Delivery, FiniteSetTheorems, TLAPS

-----------------------------------------------------------------------------
(* Invariants. *)

\* The pairs that one entry of a request stands for, and what request h has put
\* into the WAL so far.
EntryPairs(x) == {y \in Pairs : y[1] = x.event /\ y[2] \in Range(x.route)}

StoredBy(h) ==
  IF handler[h] = Idle THEN {}
  ELSE PairsOf(handler[h].done) \cup
       (IF handler[h].left = <<>> THEN {} ELSE EntryPairs(Head(handler[h].todo)))

\* Nothing loses pair y.  A client may be told of it any moment if a request has
\* stored it, so it has to be in safe hands then already; and because a replay
\* will remove the DLQ record of what it has stored, that record does not count.
\* An ack takes a pair out of the WAL, so it has to be resolved by then, or given
\* up because DLQ.Put failed.
Kept(y) ==
  /\ y \in accepted => y \in Resolved \cup Pending \cup lost
  /\ acking[y] > 0 => y \in Resolved \cup lost
  /\ \A h \in Handlers : y \in StoredBy(h) => y \in Resolved \cup Pending \cup lost
  /\ \A h \in Handlers :
       y \in StoredBy(h) /\ handler[h].kind = "replay" =>
         y \in delivered \cup Pending /\ (acking[y] > 0 => y \in delivered)

CustodyInv == \A y \in Pairs \ raced : Kept(y)

-----------------------------------------------------------------------------
(* Types. *)

\* What a request still has to store, or has stored.
Entries ==
  [event : Events, route : Seq(Providers), encodes : BOOLEAN] \cup
  [event : Events, route : Seq(Providers), encodes : BOOLEAN, record : Nat]

Jobs == [kind : Transports \cup {"replay"}, todo : Seq(Entries),
         left : Seq(Providers), done : Seq(Entries)]

\* What is being dispatched is the first of the entries that are left to store.
HandlersOK ==
  /\ handler \in [Handlers -> {Idle} \cup Jobs]
  /\ \A h \in Handlers :
       handler[h] # Idle /\ handler[h].left # <<>> => handler[h].todo # <<>>

\* A batcher is closed only while the daemon shuts down.
ProcessOK ==
  /\ phase = "down" => cfg = NoConfig
  /\ phase \notin {"draining", "closed"} => shut = {}

TypeInv == TypeOK /\ HandlersOK /\ ProcessOK

\* The fields of an entry.
LEMMA EntryTypes ==
  ASSUME NEW x \in Entries
  PROVE  x.event \in Events /\ x.route \in Seq(Providers)
BY DEF Entries

\* The fields of a job.
LEMMA JobTypes ==
  ASSUME NEW j \in Jobs
  PROVE  /\ j.kind \in {"http", "grpc", "replay"} /\ j.todo \in Seq(Entries)
         /\ j.left \in Seq(Providers) /\ j.done \in Seq(Entries)
         /\ j # Idle
BY DEF Jobs, Transports, Idle

\* A goroutine that is not idle has a job.
LEMMA BusyTypes ==
  ASSUME TypeInv, NEW h \in Handlers, handler[h] # Idle
  PROVE  handler[h] \in Jobs
BY DEF TypeInv, HandlersOK

\* One more or one less ticket.
LEMMA PlusType ==
  ASSUME NEW f \in [Pairs -> Nat], NEW x \in Pairs, NEW d \in {1, -1},
         d = -1 => f[x] > 0
  PROVE  /\ Plus(f, x, d) \in [Pairs -> Nat]
         /\ Plus(f, x, d)[x] = f[x] + d
         /\ \A y \in Pairs : y # x => Plus(f, x, d)[y] = f[y]
BY DEF Plus

\* No tickets.
LEMMA NoneType == None \in [Pairs -> Nat]
BY DEF None

\* Its elements.
LEMMA RangeType ==
  ASSUME NEW S, NEW s \in Seq(S) PROVE Range(s) \subseteq S
BY DEF Range

\* A non-empty set of naturals has a least element.
LEMMA NatMin ==
  ASSUME NEW T, T \subseteq Nat, T # {}
  PROVE  Min(T) \in T /\ \A m \in T : Min(T) <= m
<1> DEFINE R == {ss \in Nat \X Nat : ss[1] < ss[2]}
<1>1. IsWellFoundedOn(R, Nat)
  BY NatLessThanWellFounded DEF OpToRel
<1>2. \E n \in T : \A m \in T : ~(<<m, n>> \in R)
  <2> HIDE DEF R
  <2> QED BY <1>1, WFMin
<1>3. \E n \in T : \A m \in T : n <= m
  <2>1. PICK n \in T : \A m \in T : ~(<<m, n>> \in R)
    BY <1>2
  <2>2. \A m \in T : ~(m < n)
    BY <2>1
  <2> QED BY <2>2
<1> QED BY <1>3 DEF Min

\* The router names providers only.
LEMMA RouteType ==
  ASSUME NEW c, c.default \in Seq(Providers),
         c.rules \in Seq([name : Names, route : Seq(Providers)]), NEW e
  PROVE  Route(c, e) \in Seq(Providers)
<1> DEFINE I == {k \in 1..Len(c.rules) : c.rules[k].name = e.name}
<1>1. CASE I = {}
  BY <1>1 DEF Route, SelectInSeq
<1>2. CASE I # {}
  <2>1. Min(I) \in I
    <3>1. I \subseteq Nat
      OBVIOUS
    <3> HIDE DEF I
    <3> QED BY <1>2, <3>1, NatMin
  <2>2. Route(c, e) = c.rules[Min(I)].route
    BY <1>2, <2>1 DEF Route, SelectInSeq
  <2>3. Min(I) \in 1..Len(c.rules)
    BY <2>1
  <2>4. \A k \in 1..Len(c.rules) : c.rules[k].route \in Seq(Providers)
    <3> DEFINE S == [name : Names, route : Seq(Providers)]
    <3>1. \A x \in S : x.route \in Seq(Providers)
      OBVIOUS
    <3>0. c.rules \in Seq(S)
      OBVIOUS
    <3> HIDE DEF S
    <3>2. \A k \in 1..Len(c.rules) : c.rules[k] \in S
      BY <3>0
    <3> QED BY <3>1, <3>2
  <2> HIDE DEF I
  <2> QED BY <2>2, <2>3, <2>4
<1> QED BY <1>1, <1>2

\* Defaults add and remove no provider and no route.
LEMMA LoadedTypes ==
  ASSUME NEW c \in {NoConfig} \cup Loaded
  PROVE  /\ c.default \in Seq(Providers) /\ Known(c) \subseteq Providers
         /\ c.rules \in Seq([name : Names, route : Seq(Providers)])
<1>1. CASE c = NoConfig
  <2>1. c.providers = <<>> /\ c.default = <<>> /\ c.rules = <<>>
    BY <1>1 DEF NoConfig
  <2> QED BY <2>1 DEF Known
<1>2. ASSUME NEW f \in Configs, c = applyDefaults(f)
      PROVE  /\ c.default \in Seq(Providers) /\ Known(c) \subseteq Providers
             /\ c.rules \in Seq([name : Names, route : Seq(Providers)])
  <2>1. f \in ConfigFiles
    BY DeliveryAssumption
  <2>2. /\ f.default \in Seq(Providers) /\ DOMAIN f.providers \subseteq Providers
        /\ f.rules \in Seq([name : Names, route : Seq(Providers)])
    BY <2>1 DEF ConfigFiles
  <2>3. /\ c.default = f.default /\ c.rules = f.rules
        /\ DOMAIN c.providers = DOMAIN f.providers
    BY <1>2, <2>1 DEF applyDefaults, ConfigFiles, Known
  <2> QED BY <2>2, <2>3 DEF Known
<1> QED BY <1>1, <1>2 DEF Loaded

\* What Ingest hands to its sink.
LEMMA HandedType ==
  ASSUME NEW c \in {NoConfig} \cup Loaded, NEW r \in Requests
  PROVE  Handed(c, r) \in Seq(Entries) /\ r.via \in Transports
<1>1. r \in WireRequests
  BY DeliveryAssumption
<1>2. r.body \in Seq(WireEvents) /\ r.via \in Transports
  BY <1>1 DEF WireRequests
<1>3. \A k \in 1..Len(r.body) :
        /\ r.body[k].event \in Events
        /\ Targets(c, r.body[k]) \in Seq(Providers)
  <2>1. \A e \in WireEvents : e.event \in Events /\ e.route \in Seq(Providers)
    BY DEF WireEvents
  <2>2. \A e : Route(c, e) \in Seq(Providers)
    BY LoadedTypes, RouteType
  <2>3. \A k \in 1..Len(r.body) : r.body[k] \in WireEvents
    BY <1>2
  <2> QED BY <2>1, <2>2, <2>3 DEF Targets
<1>4. \A k \in 1..Len(r.body) :
        [event |-> r.body[k].event, route |-> Targets(c, r.body[k]),
         encodes |-> r.body[k].stamp # "ancient"] \in Entries
  <2>1. \A e \in Events, s \in Seq(Providers), b \in BOOLEAN :
          [event |-> e, route |-> s, encodes |-> b] \in Entries
    BY DEF Entries
  <2> TAKE k \in 1..Len(r.body)
  <2> DEFINE b == r.body[k].stamp # "ancient"
  <2>2. b \in BOOLEAN
    BY Zenon
  <2> HIDE DEF b
  <2>3. [event |-> r.body[k].event, route |-> Targets(c, r.body[k]),
         encodes |-> b] \in Entries
    BY <1>3, <2>1, <2>2
  <2> QED BY <2>3 DEF b
<1> HIDE DEF Entries
<1>5. Handed(c, r) = [k \in 1..Len(r.body) |->
        [event |-> r.body[k].event, route |-> Targets(c, r.body[k]),
         encodes |-> r.body[k].stamp # "ancient"]]
  BY <1>2 DEF Handed
<1> QED BY <1>2, <1>4, <1>5

\* What the replay handler lists.
LEMMA ListedType ==
  ASSUME TypeOK, NEW p \in Providers, NEW E \in SUBSET Events,
         NEW order \in SetToSeqs(E)
  PROVE  [k \in DOMAIN order |->
            [event |-> order[k], route |-> <<p>>, encodes |-> TRUE,
             record |-> parked[<<order[k], p>>]]] \in Seq(Entries)
<1>1. IsFiniteSet(E) /\ Cardinality(E) \in Nat
  BY DeliveryAssumption, FS_Subset, FS_CardinalityType
<1>2. DOMAIN order = 1..Cardinality(E)
  BY DEF SetToSeqs
<1>3. \A k \in DOMAIN order : order[k] \in Events
  BY DEF SetToSeqs
<1>4. \A k \in DOMAIN order : parked[<<order[k], p>>] \in Nat
  BY <1>3 DEF TypeOK, Pairs
<1>5. \A k \in DOMAIN order :
        [event |-> order[k], route |-> <<p>>, encodes |-> TRUE,
         record |-> parked[<<order[k], p>>]] \in Entries
  BY <1>3, <1>4 DEF Entries
<1> DEFINE n == Cardinality(E)
           L == [k \in 1..n |->
                   [event |-> order[k], route |-> <<p>>, encodes |-> TRUE,
                    record |-> parked[<<order[k], p>>]]]
<1>6. L \in [1..n -> Entries]
  BY <1>2, <1>5
<1>7. n \in Nat
  BY <1>1
<1> HIDE DEF L, n
<1>8. L \in Seq(Entries)
  BY <1>6, <1>7
<1> QED BY <1>2, <1>8 DEF L, n

\* What the sink does to a job: it stores an entry and begins to dispatch it, or
LEMMA JobLeft ==
  ASSUME NEW j \in Jobs, NEW s \in Seq(Providers), NEW k,
         k = [j EXCEPT !.left = s]
  PROVE  /\ k \in Jobs /\ k.left = s
         /\ k.todo = j.todo /\ k.done = j.done /\ k.kind = j.kind
BY DEF Jobs

\* passes over it.
LEMMA JobTodo ==
  ASSUME NEW j \in Jobs, NEW t \in Seq(Entries), NEW k,
         k = [j EXCEPT !.todo = t]
  PROVE  /\ k \in Jobs /\ k.left = j.left
         /\ k.todo = t /\ k.done = j.done /\ k.kind = j.kind
BY DEF Jobs

\* The first entry of a job and the ones after it.
LEMMA JobHead ==
  ASSUME NEW j \in Jobs, j.todo # <<>>
  PROVE  /\ Head(j.todo) \in Entries /\ Tail(j.todo) \in Seq(Entries)
         /\ Append(j.done, Head(j.todo)) \in Seq(Entries)
<1>1. j.todo \in Seq(Entries) /\ j.done \in Seq(Entries)
  BY JobTypes
<1>2. Head(j.todo) \in Entries /\ Tail(j.todo) \in Seq(Entries)
  BY <1>1
<1> QED BY <1>1, <1>2

\* Only one job changes at a time.
LEMMA OneJob ==
  ASSUME HandlersOK, NEW h \in Handlers, NEW j \in {Idle} \cup Jobs,
         j # Idle /\ j.left # <<>> => j.todo # <<>>,
         handler' = [handler EXCEPT ![h] = j]
  PROVE  /\ HandlersOK' /\ handler'[h] = j
         /\ \A g \in Handlers : g # h => handler'[g] = handler[g]
BY DEF HandlersOK

\* The job of a request whose next entry is put into the WAL,
LEMMA SinkAppendJob ==
  ASSUME TypeInv, NEW h \in Handlers, SinkAppend(h)
  PROVE  LET j == handler[h]
             k == handler'[h]
             x == Head(j.todo)
         IN  /\ HandlersOK' /\ j \in Jobs /\ k \in Jobs /\ j.todo # <<>>
             /\ \A g \in Handlers : g # h => handler'[g] = handler[g]
             /\ x \in Entries /\ x.event \in Events /\ x.route \in Seq(Providers)
             /\ Range(x.route) \subseteq Providers
             /\ k.kind = j.kind /\ k.todo = j.todo /\ k.done = j.done
             /\ k.left = x.route
<1> DEFINE x == Head(handler[h].todo)
           k == [handler[h] EXCEPT !.left = x.route]
<1>1. handler[h] \in Jobs /\ handler[h].todo # <<>>
  BY BusyTypes DEF SinkAppend, Busy
<1>2. /\ x \in Entries /\ x.event \in Events /\ x.route \in Seq(Providers)
      /\ Range(x.route) \subseteq Providers
  BY <1>1, JobHead, EntryTypes, RangeType
<1>3. /\ k \in Jobs /\ k.kind = handler[h].kind /\ k.todo = handler[h].todo
      /\ k.done = handler[h].done /\ k.left = x.route
  BY <1>1, <1>2, JobLeft
<1>4. handler' = [handler EXCEPT ![h] = k]
  BY DEF SinkAppend
<1>5. k.todo # <<>>
  BY <1>1, <1>3
<1> HIDE DEF k
<1>6. /\ HandlersOK' /\ handler'[h] = k
      /\ \A g \in Handlers : g # h => handler'[g] = handler[g]
  BY <1>3, <1>4, <1>5, OneJob DEF TypeInv
<1> QED BY <1>1, <1>2, <1>3, <1>6

\* of one whose next entry cannot be stored,
LEMMA SinkAppendFailsJob ==
  ASSUME TypeInv, NEW h \in Handlers, SinkAppendFails(h)
  PROVE  LET j == handler[h]
             k == handler'[h]
         IN  /\ HandlersOK' /\ j \in Jobs /\ j.left = <<>> /\ j.todo # <<>>
             /\ \A g \in Handlers : g # h => handler'[g] = handler[g]
             /\ \/ k = Idle
                \/ /\ k \in Jobs /\ k.kind = j.kind /\ k.todo = Tail(j.todo)
                   /\ k.done = j.done /\ k.left = <<>>
<1> DEFINE j == handler[h]
           m == [j EXCEPT !.todo = Tail(j.todo)]
           k == IF j.kind # "replay" THEN Idle ELSE m
<1>1. j \in Jobs /\ j.todo # <<>> /\ j.left = <<>>
  BY BusyTypes DEF SinkAppendFails, Busy
<1>2. Tail(j.todo) \in Seq(Entries)
  BY <1>1, JobHead
<1>3. /\ m \in Jobs /\ m.kind = j.kind /\ m.todo = Tail(j.todo)
      /\ m.done = j.done /\ m.left = <<>>
  <2> DEFINE t == Tail(j.todo)
  <2>1. t \in Seq(Entries)
    BY <1>2
  <2> HIDE DEF j, t
  <2>2. LET n == [j EXCEPT !.todo = t]
        IN  n \in Jobs /\ n.kind = j.kind /\ n.todo = t /\ n.done = j.done
            /\ n.left = j.left
    BY <1>1, <2>1, JobTodo
  <2> QED BY <1>1, <2>2 DEF t
<1>4. handler' = [handler EXCEPT ![h] = k]
  BY DEF SinkAppendFails
<1> HIDE DEF m
<1>5. k \in {Idle} \cup Jobs /\ (k # Idle => k = m)
  BY <1>3, Zenon
<1> HIDE DEF k
<1>6. /\ HandlersOK' /\ handler'[h] = k
      /\ \A g \in Handlers : g # h => handler'[g] = handler[g]
  BY <1>3, <1>4, <1>5, OneJob DEF TypeInv
<1> QED BY <1>1, <1>3, <1>5, <1>6, Zenon

\* and of one whose entry is dispatched to the next provider.
LEMMA DispatchJob ==
  ASSUME TypeInv, NEW h \in Handlers, Dispatch(h)
  PROVE  LET j == handler[h]
             k == handler'[h]
             x == Head(j.todo)
         IN  /\ HandlersOK' /\ j \in Jobs /\ k \in Jobs
             /\ \A g \in Handlers : g # h => handler'[g] = handler[g]
             /\ j.todo # <<>> /\ j.left # <<>> /\ k.kind = j.kind
             /\ x \in Entries /\ x.event \in Events
             /\ Head(j.left) \in Providers /\ Tail(j.left) \in Seq(Providers)
             /\ k.left = Tail(j.left)
             /\ \/ k.left # <<>> /\ k.todo = j.todo /\ k.done = j.done
                \/ /\ k.left = <<>> /\ k.todo = Tail(j.todo)
                   /\ k.done = Append(j.done, x)
<1> DEFINE j == handler[h]
           x == Head(j.todo)
           rest == Tail(j.left)
           l == [j EXCEPT !.left = rest]
           m == [kind |-> j.kind, left |-> <<>>, todo |-> Tail(j.todo),
                 done |-> Append(j.done, x)]
           k == IF rest # <<>> THEN l ELSE m
<1>1. j \in Jobs /\ j.todo # <<>> /\ j.left # <<>>
  BY BusyTypes DEF Dispatch, Busy, TypeInv, HandlersOK
<1>2. /\ x \in Entries /\ x.event \in Events
      /\ Head(j.left) \in Providers /\ rest \in Seq(Providers)
  BY <1>1, JobHead, EntryTypes, JobTypes
<1>3. /\ l \in Jobs /\ l.kind = j.kind /\ l.left = rest
      /\ l.todo = j.todo /\ l.done = j.done
  <2> HIDE DEF j, rest
  <2> QED BY <1>1, <1>2, JobLeft
<1>4. m \in Jobs
  <2>1. /\ Tail(j.todo) \in Seq(Entries)
        /\ Append(j.done, x) \in Seq(Entries)
    BY <1>1, JobHead
  <2>2. j.kind \in Transports \cup {"replay"}
    BY <1>1 DEF Jobs
  <2>3. <<>> \in Seq(Providers)
    OBVIOUS
  <2> QED BY <2>1, <2>2, <2>3 DEF Jobs
<1>5. /\ m.kind = j.kind /\ m.left = <<>> /\ m.todo = Tail(j.todo)
      /\ m.done = Append(j.done, x)
  OBVIOUS
<1>6. handler' = [handler EXCEPT ![h] = k]
  BY DEF Dispatch
<1> HIDE DEF l, m, rest, x
<1>7. /\ k \in Jobs /\ k.kind = j.kind /\ k.left = rest
      /\ \/ rest # <<>> /\ k.todo = j.todo /\ k.done = j.done
         \/ rest = <<>> /\ k.todo = Tail(j.todo) /\ k.done = Append(j.done, x)
  BY <1>3, <1>4, <1>5
<1>8. k.left # <<>> => k.todo # <<>>
  BY <1>1, <1>7
<1> HIDE DEF k
<1>9. /\ HandlersOK' /\ handler'[h] = k
      /\ \A g \in Handlers : g # h => handler'[g] = handler[g]
  BY <1>6, <1>7, <1>8, OneJob DEF TypeInv
<1> QED BY <1>1, <1>2, <1>7, <1>9 DEF x, rest

\* The initial state is well typed.
LEMMA TypeInit == Init => TypeInv
<1> SUFFICES ASSUME Init PROVE TypeInv
  OBVIOUS
<1>1. TypeOK
  BY NoneType DEF Init, TypeOK, known, Known, NoConfig, Phases
<1>2. HandlersOK /\ ProcessOK
  BY DEF Init, HandlersOK, ProcessOK
<1> QED BY <1>1, <1>2 DEF TypeInv

\* A process that ends leaves well-typed memory.
LEMMA LoseMemoryType ==
  ASSUME LoseMemory
  PROVE  /\ phase' = "down" /\ cfg' = NoConfig /\ boot' = {} /\ shut' = {}
         /\ HandlersOK' /\ queued' \in [Pairs -> Nat]
         /\ resting' \in [Pairs -> Nat] /\ acking' \in [Pairs -> Nat]
BY NoneType DEF LoseMemory, HandlersOK

\* Every step keeps the types.
LEMMA TypeStep == TypeInv /\ [Next]_vars => TypeInv'
<1> USE DEF diskVars, ticketVars, procVars, outVars, Phases, Up, known
<1> SUFFICES ASSUME TypeInv, [Next]_vars PROVE TypeInv'
  OBVIOUS
<1>0. TypeOK /\ HandlersOK /\ ProcessOK
  BY DEF TypeInv
<1>1. CASE UNCHANGED vars
  BY <1>0, <1>1 DEF TypeInv, ProcessOK, TypeOK, HandlersOK, vars
<1>2. ASSUME NEW config \in Configs, Start(config) PROVE TypeInv'
  <2>1. cfg' \in Loaded /\ boot' \subseteq Pairs
    BY <1>2 DEF Start, Loaded, Pending
  <2>2. shut = {}
    BY <1>0, <1>2 DEF Start, ProcessOK
  <2> QED BY <1>0, <1>2, <2>1, <2>2 DEF Start, TypeInv, ProcessOK, TypeOK, HandlersOK
<1>3. ASSUME NEW x \in Pairs, ReplayPending(x) PROVE TypeInv'
  <2>1. queued' \in [Pairs -> Nat]
    BY <1>0, <1>3, PlusType DEF ReplayPending, TypeOK
  <2> QED BY <1>0, <1>3, <2>1 DEF ReplayPending, TypeInv, ProcessOK, TypeOK, HandlersOK
<1>4. CASE Serve
  BY <1>0, <1>4 DEF Serve, TypeInv, ProcessOK, TypeOK, HandlersOK
<1>5. ASSUME NEW h \in Handlers, NEW r \in Requests, Ingest(h, r) PROVE TypeInv'
  <2> DEFINE j == [kind |-> r.via, todo |-> Handed(cfg, r), left |-> <<>>,
                   done |-> <<>>]
  <2>1. j \in Jobs /\ j.left = <<>>
    <3>1. Handed(cfg, r) \in Seq(Entries) /\ r.via \in Transports
      BY <1>0, HandedType DEF TypeOK
    <3> QED BY <3>1 DEF Jobs
  <2>2. handler' = [handler EXCEPT ![h] = j]
    BY <1>5 DEF Ingest
  <2> HIDE DEF j
  <2>3. HandlersOK'
    BY <1>0, <2>1, <2>2, OneJob
  <2> QED BY <1>0, <1>5, <2>3 DEF Ingest, TypeInv, ProcessOK, TypeOK
<1>6. ASSUME NEW h \in Handlers, NEW p \in Providers, ListRecords(h, p)
      PROVE  TypeInv'
  <2>0. PICK E \in SUBSET {e \in Events : parked[<<e, p>>] > 0} :
          \E order \in SetToSeqs(E) :
            handler' = [handler EXCEPT ![h] =
              [kind |-> "replay", left |-> <<>>, done |-> <<>>,
               todo |-> [k \in DOMAIN order |->
                           [event |-> order[k], route |-> <<p>>, encodes |-> TRUE,
                            record |-> parked[<<order[k], p>>]]]]]
    BY <1>6 DEF ListRecords
  <2>1. PICK order \in SetToSeqs(E) :
          handler' = [handler EXCEPT ![h] =
            [kind |-> "replay", left |-> <<>>, done |-> <<>>,
             todo |-> [k \in DOMAIN order |->
                         [event |-> order[k], route |-> <<p>>, encodes |-> TRUE,
                          record |-> parked[<<order[k], p>>]]]]]
    BY <2>0
  <2> DEFINE t == [k \in DOMAIN order |->
                     [event |-> order[k], route |-> <<p>>, encodes |-> TRUE,
                      record |-> parked[<<order[k], p>>]]]
             j == [kind |-> "replay", left |-> <<>>, done |-> <<>>, todo |-> t]
  <2>2. E \in SUBSET Events
    OBVIOUS
  <2>3. t \in Seq(Entries)
    BY <1>0, <2>2, ListedType
  <2>4. handler' = [handler EXCEPT ![h] = j]
    BY <2>1
  <2> HIDE DEF t
  <2>5. j \in Jobs /\ j.left = <<>>
    BY <2>3 DEF Jobs
  <2> HIDE DEF j
  <2>6. HandlersOK'
    BY <1>0, <2>4, <2>5, OneJob
  <2> QED BY <1>0, <1>6, <2>6 DEF ListRecords, TypeInv, ProcessOK, TypeOK
<1>7. ASSUME NEW h \in Handlers, SinkAppend(h) PROVE TypeInv'
  <2> DEFINE x == Head(handler[h].todo)
  <2>1. /\ HandlersOK' /\ x.event \in Events /\ x.route \in Seq(Providers)
        /\ Range(x.route) \subseteq Providers
    BY <1>7, SinkAppendJob
  <2>2. /\ index' = [index EXCEPT ![x.event] = Range(x.route)]
        /\ raced' = raced \cup Races(x, handler[h].kind) /\ lost' \subseteq lost
    BY <1>7 DEF SinkAppend
  <2>3. Races(x, handler[h].kind) \subseteq Pairs
    BY <2>1 DEF Races, Pending, Pairs
  <2> HIDE DEF x
  <2>4. /\ index' \in [Events -> SUBSET Providers] /\ raced' \subseteq Pairs
        /\ lost' \subseteq Pairs
    BY <1>0, <2>1, <2>2, <2>3 DEF TypeOK
  <2> QED BY <1>0, <1>7, <2>1, <2>4 DEF SinkAppend, TypeInv, ProcessOK, TypeOK
<1>8. ASSUME NEW h \in Handlers, SinkAppendFails(h) PROVE TypeInv'
  <2>1. HandlersOK'
    BY <1>8, SinkAppendFailsJob
  <2> QED BY <1>0, <1>8, <2>1 DEF SinkAppendFails, TypeInv, ProcessOK, TypeOK
<1>9. ASSUME NEW h \in Handlers, Dispatch(h) PROVE TypeInv'
  <2> DEFINE y == <<Head(handler[h].todo).event, Head(handler[h].left)>>
  <2>1. HandlersOK' /\ y \in Pairs
    BY <1>9, DispatchJob DEF Pairs
  <2>2. queued' = queued \/ queued' = Plus(queued, y, 1)
    BY <1>9 DEF Dispatch
  <2> HIDE DEF y
  <2>3. queued' \in [Pairs -> Nat]
    BY <1>0, <2>1, <2>2, PlusType DEF TypeOK
  <2> QED BY <1>0, <1>9, <2>1, <2>3 DEF Dispatch, TypeInv, ProcessOK, TypeOK
<1>10. ASSUME NEW h \in Handlers, Accepted(h) PROVE TypeInv'
  <2>1. HandlersOK'
    BY <1>0, <1>10, OneJob DEF Accepted
  <2>2. accepted' \subseteq Pairs
    BY <1>0, <1>10 DEF Accepted, TypeOK, PairsOf
  <2> QED BY <1>0, <1>10, <2>1, <2>2 DEF Accepted, TypeInv, ProcessOK, TypeOK
<1>11. ASSUME NEW h \in Handlers, RemoveRecords(h) PROVE TypeInv'
  <2>1. HandlersOK'
    BY <1>0, <1>11, OneJob DEF RemoveRecords
  <2>2. parked' \in [Pairs -> Nat]
    <3>1. parked \in [Pairs -> Nat]
      BY <1>0 DEF TypeOK
    <3>2. PICK gone : parked' = [x \in Pairs |-> IF x \in gone THEN 0 ELSE parked[x]]
      BY <1>11 DEF RemoveRecords
    <3> QED BY <3>1, <3>2
  <2> QED BY <1>0, <1>11, <2>1, <2>2 DEF RemoveRecords, TypeInv, ProcessOK, TypeOK
<1>12. ASSUME NEW x \in Pairs,
              Deliver(x) \/ Retry(x) \/ DeadLetter(x) \/ RetryFires(x) \/ Ack(x)
       PROVE  TypeInv'
  <2>1. /\ queued' \in [Pairs -> Nat] /\ resting' \in [Pairs -> Nat]
        /\ acking' \in [Pairs -> Nat]
    BY <1>0, <1>12, PlusType
       DEF Deliver, Retry, DeadLetter, RetryFires, Ack, TypeOK
  <2>2. /\ delivered' \subseteq Pairs /\ accepted' \subseteq Pairs
        /\ raced' \subseteq Pairs /\ lost' \subseteq Pairs
    BY <1>0, <1>12 DEF Deliver, Retry, DeadLetter, RetryFires, Ack, TypeOK
  <2>3. rejects' \in [Pairs -> Nat] /\ parked' \in [Pairs -> Nat]
    <3>1. CASE DeadLetter(x)
      <4>1. rejects[x] + 1 \in Nat /\ rejects' = Plus(rejects, x, 1)
            /\ \/ parked' = parked
               \/ \E n \in Nat : parked' = [parked EXCEPT ![x] = n]
        BY <1>0, <3>1 DEF DeadLetter, TypeOK
      <4>2. rejects' \in [Pairs -> Nat]
        BY <1>0, <4>1, PlusType DEF TypeOK
      <4> QED BY <1>0, <4>1, <4>2 DEF TypeOK
    <3> QED BY <1>0, <1>12, <3>1 DEF Deliver, Retry, RetryFires, Ack, TypeOK
  <2>4. index' \in [Events -> SUBSET Providers]
    BY <1>0, <1>12 DEF Deliver, Retry, DeadLetter, RetryFires, Ack, TypeOK
  <2>5. UNCHANGED <<procVars, handler>>
    BY <1>12 DEF Deliver, Retry, DeadLetter, RetryFires, Ack
  <2> QED BY <1>0, <2>1, <2>2, <2>3, <2>4, <2>5 DEF TypeInv, ProcessOK, TypeOK, HandlersOK
<1>13. CASE Stop \/ Drain \/ CloseStores
  BY <1>0, <1>13 DEF Stop, Drain, CloseStores, TypeInv, ProcessOK, TypeOK, HandlersOK
<1>14. ASSUME NEW p \in Providers, CloseBatcher(p) PROVE TypeInv'
  BY <1>0, <1>14 DEF CloseBatcher, TypeInv, ProcessOK, TypeOK, HandlersOK
<1>15. CASE Exit \/ Crash
  BY <1>0, <1>15, LoseMemoryType DEF Exit, Crash, TypeInv, ProcessOK, TypeOK
<1> QED BY <1>1, <1>2, <1>3, <1>4, <1>5, <1>6, <1>7, <1>8, <1>9, <1>10, <1>11,
           <1>12, <1>13, <1>14, <1>15
        DEF Next, Handle, Resolve

\* The strengthened type invariant holds throughout.
LEMMA TypeInvariant == Spec => []TypeInv
<1>1. Init => TypeInv
  BY TypeInit
<1>2. TypeInv /\ [Next]_vars => TypeInv'
  BY TypeStep
<1> QED BY <1>1, <1>2, PTL DEF Spec

\* Type correctness of the composed daemon: in particular no batcher ever owes a
\* negative number of tickets, and only configured batchers are closed, for every
\* set of events, providers, requests, configurations and mishaps.
THEOREM TypeCorrect == Spec => []TypeOK
<1>1. TypeInv => TypeOK
  BY DEF TypeInv
<1> QED BY <1>1, TypeInvariant, PTL

-----------------------------------------------------------------------------
(* Custody. *)

\* The pairs of a request's entries.
LEMMA PairsOfEntries ==
  ASSUME NEW s, NEW y
  PROVE  y \in PairsOf(s) <=> y \in Pairs /\ \E k \in DOMAIN s : y \in EntryPairs(s[k])
BY DEF PairsOf, EntryPairs

\* An entry more.
LEMMA PairsOfAppend ==
  ASSUME NEW s \in Seq(Entries), NEW x \in Entries, NEW y
  PROVE  y \in PairsOf(Append(s, x)) => y \in PairsOf(s) \cup EntryPairs(x)
<1> SUFFICES ASSUME y \in PairsOf(Append(s, x)), y \notin PairsOf(s)
             PROVE  y \in EntryPairs(x)
  OBVIOUS
<1>1. PICK k \in DOMAIN Append(s, x) : y \in EntryPairs(Append(s, x)[k])
  BY PairsOfEntries
<1>2. k \in 1..Len(s) => k \in DOMAIN s /\ Append(s, x)[k] = s[k]
  OBVIOUS
<1>3. ~(k \in 1..Len(s)) => Append(s, x)[k] = x
  OBVIOUS
<1>4. y \in Pairs
  BY <1>1 DEF EntryPairs
<1> QED BY <1>1, <1>2, <1>3, <1>4, PairsOfEntries

\* Entries of two sequences.
LEMMA PairsOfConcat ==
  ASSUME NEW s \in Seq(Entries), NEW t \in Seq(Entries), NEW y
  PROVE  /\ y \in PairsOf(t) => y \in PairsOf(s \o t)
         /\ s # <<>> /\ y \in EntryPairs(Head(s)) => y \in PairsOf(s \o t)
<1>1. ASSUME NEW k \in DOMAIN t
      PROVE  k + Len(s) \in DOMAIN (s \o t) /\ (s \o t)[k + Len(s)] = t[k]
  OBVIOUS
<1>2. ASSUME s # <<>> PROVE 1 \in DOMAIN (s \o t) /\ (s \o t)[1] = Head(s)
  BY <1>2
<1>3. y \in PairsOf(t) => y \in PairsOf(s \o t)
  BY <1>1, PairsOfEntries
<1>4. y \in EntryPairs(Head(s)) => y \in Pairs
  BY DEF EntryPairs
<1> QED BY <1>2, <1>3, <1>4, PairsOfEntries

\* A replay holds what it has stored until it has removed the records.
LEMMA StoredIsHeld ==
  ASSUME TypeInv, NEW h \in Handlers, NEW y \in StoredBy(h),
         handler[h].kind = "replay"
  PROVE  Held(y)
<1> DEFINE j == handler[h]
<1>1. j # Idle /\ j \in Jobs
  BY BusyTypes DEF StoredBy
<1>2. j.todo \in Seq(Entries) /\ j.done \in Seq(Entries)
  BY <1>1, JobTypes
<1>3. y \in PairsOf(j.todo \o j.done)
  <2>1. CASE y \in PairsOf(j.done)
    BY <1>2, <2>1, PairsOfConcat
  <2>2. CASE j.left # <<>> /\ y \in EntryPairs(Head(j.todo))
    <3>1. j.todo # <<>>
      BY <1>1, <2>2 DEF TypeInv, HandlersOK
    <3> QED BY <1>2, <2>2, <3>1, PairsOfConcat
  <2> QED BY <1>1, <2>1, <2>2 DEF StoredBy
<1> QED BY <1>1, <1>3 DEF Held

\* What stays kept: a step that takes away none of the hands a pair is in, and
\* that lets no request store it, keeps it.
LEMMA KeptStays ==
  ASSUME NEW y \in Pairs, Kept(y),
         y \in accepted' => y \in accepted,
         y \in delivered => y \in delivered',
         parked'[y] = parked[y],
         y \in lost => y \in lost',
         y \in Pending => y \in Pending',
         acking'[y] > 0 => acking[y] > 0 \/ y \in delivered',
         \A h \in Handlers : y \in StoredBy(h)' =>
           y \in StoredBy(h) /\ handler'[h].kind = handler[h].kind
  PROVE  Kept(y)'
BY DEF Kept, Resolved

\* Pending is what the index says.
LEMMA PendingIndex ==
  ASSUME NEW y \in Pairs
  PROVE  /\ y \in Pending <=> y[2] \in index[y[1]]
         /\ y \in Pending' <=> y[2] \in index'[y[1]]
BY DEF Pending

\* Every step keeps CustodyInv.
LEMMA CustodyStep ==
  TypeInv /\ TypeInv' /\ CustodyInv /\ [Next]_vars => CustodyInv'
<1> USE DEF diskVars, ticketVars, procVars, outVars
<1> SUFFICES ASSUME TypeInv, TypeInv', CustodyInv, [Next]_vars,
                    NEW y \in Pairs, y \notin raced'
             PROVE  Kept(y)'
  BY DEF CustodyInv
<1>0. TypeOK /\ HandlersOK /\ TypeOK'
  BY DEF TypeInv
<1>a. raced \subseteq raced'
  BY DEF Next, vars, Start, ReplayPending, Resolve, Deliver, DeadLetter, Retry,
         RetryFires, Ack, Serve, Handle, SinkAppend, SinkAppendFails, Dispatch,
         Accepted, RemoveRecords, Ingest, ListRecords, Stop, Drain, CloseBatcher,
         CloseStores, Exit, Crash
<1>b. Kept(y)
  BY <1>a DEF CustodyInv
<1>c. ASSUME UNCHANGED <<handler, diskVars, acking, delivered, accepted, lost>>
      PROVE  Kept(y)'
  BY <1>b, <1>c, KeptStays DEF Pending, StoredBy
<1>1. CASE UNCHANGED vars
  BY <1>1, <1>c DEF vars
<1>2. ASSUME NEW config \in Configs, Start(config) PROVE Kept(y)'
  BY <1>2, <1>c DEF Start
<1>3. ASSUME NEW x \in Pairs, ReplayPending(x) \/ RetryFires(x) PROVE Kept(y)'
  BY <1>3, <1>c DEF ReplayPending, RetryFires
<1>4. CASE Serve \/ Stop \/ Drain \/ CloseStores
  BY <1>4, <1>c DEF Serve, Stop, Drain, CloseStores
<1>5. ASSUME NEW p \in Providers, CloseBatcher(p) PROVE Kept(y)'
  BY <1>5, <1>c DEF CloseBatcher
<1>6. ASSUME NEW h \in Handlers,
             handler'[h] = Idle \/ (handler'[h].left = <<>> /\ handler'[h].done = <<>>),
             \A g \in Handlers : g # h => handler'[g] = handler[g],
             UNCHANGED <<diskVars, acking, delivered, accepted, lost>>
      PROVE  Kept(y)'
  <2>1. y \notin StoredBy(h)'
    BY <1>6 DEF StoredBy, PairsOf
  <2>2. \A g \in Handlers : y \in StoredBy(g)' =>
          y \in StoredBy(g) /\ handler'[g].kind = handler[g].kind
    BY <1>6, <2>1 DEF StoredBy
  <2> QED BY <1>b, <1>6, <2>2, KeptStays DEF Pending
<1>7. ASSUME NEW h \in Handlers, NEW r \in Requests, Ingest(h, r) PROVE Kept(y)'
  BY <1>0, <1>6, <1>7 DEF Ingest, HandlersOK
<1>8. ASSUME NEW h \in Handlers, NEW p \in Providers, ListRecords(h, p)
      PROVE  Kept(y)'
  <2>1. PICK t : handler' = [handler EXCEPT ![h] =
                   [kind |-> "replay", left |-> <<>>, done |-> <<>>, todo |-> t]]
    BY <1>8 DEF ListRecords
  <2> QED BY <1>0, <1>6, <1>8, <2>1 DEF ListRecords, HandlersOK
<1>9. ASSUME NEW h \in Handlers, SinkAppend(h) PROVE Kept(y)'
  <2> DEFINE j == handler[h]
             k == handler'[h]
             x == Head(j.todo)
  <2>1. /\ j \in Jobs /\ k \in Jobs /\ k.kind = j.kind /\ x \in Entries
        /\ \A g \in Handlers : g # h => handler'[g] = handler[g]
        /\ k.todo = j.todo /\ k.done = j.done
        /\ x.event \in Events /\ x.route \in Seq(Providers)
    BY <1>9, SinkAppendJob
  <2>2. j # Idle /\ k # Idle
    BY <2>1, JobTypes
  <2>3. /\ index' = [index EXCEPT ![x.event] = Range(x.route)]
        /\ raced' = raced \cup Races(x, j.kind)
        /\ lost' = {z \in lost : z \notin PairsOf(<<x>>) \/ acking[z] > 0}
        /\ UNCHANGED <<parked, acking, delivered, accepted>>
    BY <1>9 DEF SinkAppend
  <2>4. y \in StoredBy(h)' => y \in StoredBy(h) \cup EntryPairs(x)
    BY <2>1, <2>2 DEF StoredBy
  <2>5. \A g \in Handlers \ {h} : y \in StoredBy(g)' => y \in StoredBy(g)
    BY <2>1 DEF StoredBy
  <2>6. \A g \in Handlers \ {h} : handler'[g].kind = handler[g].kind
    BY <2>1
  <2>7. CASE y \in EntryPairs(x)
    <3>1. y \in Pending'
      BY <1>0, <2>1, <2>3, <2>7, PendingIndex DEF EntryPairs, TypeOK
    <3>2. acking[y] > 0 /\ j.kind = "replay" => y \in raced'
      <4>1. y = <<x.event, y[2]>> /\ y[2] \in Range(x.route)
        BY <2>7 DEF EntryPairs, Pairs
      <4>2. queued[y] \in Nat /\ resting[y] \in Nat /\ acking[y] \in Nat
        BY <1>0 DEF TypeOK
      <4> HIDE DEF x, j
      <4> QED BY <2>3, <4>1, <4>2 DEF Races
    <3>3. acking[y] > 0 /\ k.kind = "replay" => FALSE
      BY <2>1, <3>2
    <3>4. acking'[y] > 0 => y \in Resolved' \cup lost'
      <4> HIDE DEF x, j
      <4> QED BY <1>b, <2>3 DEF Kept, Resolved
    <3>5. \A g \in Handlers :
            y \in StoredBy(g)' /\ handler'[g].kind = "replay" =>
              (acking'[y] > 0 => y \in delivered')
      BY <1>b, <2>3, <2>5, <2>6, <3>3 DEF Kept
    <3> QED BY <3>1, <3>4, <3>5 DEF Kept
  <2>8. CASE y \notin EntryPairs(x)
    <3>1. \A g \in Handlers : y \in StoredBy(g)' =>
            y \in StoredBy(g) /\ handler'[g].kind = handler[g].kind
      BY <2>1, <2>4, <2>5, <2>6, <2>8
    <3>2. y \in Pending => y \in Pending'
      <4>1. y[1] # x.event => (y \in Pending => y \in Pending')
        BY <1>0, <2>1, <2>3, PendingIndex DEF TypeOK, Pairs
      <4>2. y[1] = x.event /\ y \in Pending => y \in raced'
        BY <2>3, <2>8 DEF Races, EntryPairs
      <4> QED BY <4>1, <4>2
    <3>3. y \in lost => y \in lost'
      <4>1. y \notin PairsOf(<<x>>)
        BY <2>8 DEF PairsOf, EntryPairs
      <4> QED BY <2>3, <4>1
    <3> QED BY <1>b, <2>3, <3>1, <3>2, <3>3, KeptStays
  <2> QED BY <2>7, <2>8
<1>10. ASSUME NEW h \in Handlers, SinkAppendFails(h) PROVE Kept(y)'
  <2>1. \A g \in Handlers : y \in StoredBy(g)' =>
          y \in StoredBy(g) /\ handler'[g].kind = handler[g].kind
    BY <1>10, SinkAppendFailsJob, JobTypes DEF StoredBy
  <2> QED BY <1>b, <1>10, <2>1, KeptStays DEF SinkAppendFails, Pending
<1>11. ASSUME NEW h \in Handlers, Dispatch(h) PROVE Kept(y)'
  <2> DEFINE j == handler[h]
             k == handler'[h]
             x == Head(j.todo)
  <2>1. /\ j \in Jobs /\ k \in Jobs /\ k.kind = j.kind /\ x \in Entries
        /\ \A g \in Handlers : g # h => handler'[g] = handler[g]
        /\ j.left # <<>>
        /\ \/ k.left # <<>> /\ k.todo = j.todo /\ k.done = j.done
           \/ k.left = <<>> /\ k.done = Append(j.done, x)
    BY <1>11, DispatchJob
  <2>2. /\ j # Idle /\ k # Idle /\ j.done \in Seq(Entries)
    BY <2>1, JobTypes
  <2>3. y \in StoredBy(h)' => y \in StoredBy(h)
    <3>1. CASE k.left # <<>> /\ k.todo = j.todo /\ k.done = j.done
      BY <2>1, <2>2, <3>1 DEF StoredBy
    <3>2. CASE k.left = <<>> /\ k.done = Append(j.done, x)
      BY <2>1, <2>2, <3>2, PairsOfAppend DEF StoredBy
    <3> QED BY <2>1, <3>1, <3>2
  <2>4. \A g \in Handlers : y \in StoredBy(g)' =>
          y \in StoredBy(g) /\ handler'[g].kind = handler[g].kind
    BY <2>1, <2>3 DEF StoredBy
  <2> QED BY <1>b, <1>11, <2>4, KeptStays DEF Dispatch, Pending
<1>12. ASSUME NEW h \in Handlers, Accepted(h) PROVE Kept(y)'
  <2>1. \A g \in Handlers : y \in StoredBy(g)' =>
          y \in StoredBy(g) /\ handler'[g].kind = handler[g].kind
    BY <1>0, <1>12 DEF Accepted, StoredBy, HandlersOK
  <2>2. UNCHANGED <<diskVars, acking, delivered, lost>>
    BY <1>12 DEF Accepted
  <2>3. y \in accepted' => y \in accepted \/ y \in StoredBy(h)
    BY <1>12 DEF Accepted, Busy, StoredBy
  <2>4. y \in accepted' => y \in Resolved \cup Pending \cup lost
    BY <1>b, <2>3 DEF Kept
  <2> QED BY <1>b, <2>1, <2>2, <2>4 DEF Kept, Resolved, Pending
<1>13. ASSUME NEW h \in Handlers, RemoveRecords(h) PROVE Kept(y)'
  <2>1. \A g \in Handlers : y \in StoredBy(g)' =>
          y \in StoredBy(g) /\ handler'[g].kind = handler[g].kind
    BY <1>0, <1>13 DEF RemoveRecords, StoredBy, HandlersOK
  <2>2. UNCHANGED <<index, acking, delivered, accepted, lost>>
    BY <1>13 DEF RemoveRecords
  <2>3. CASE parked'[y] = parked[y]
    BY <1>b, <2>1, <2>2, <2>3, KeptStays DEF Pending
  <2>4. CASE parked'[y] # parked[y]
    <3>1. y \in StoredBy(h) /\ handler[h].kind = "replay"
      BY <1>0, <1>13, <2>4 DEF RemoveRecords, StoredBy, Busy, TypeOK
    <3>2. y \in delivered \cup Pending /\ (acking[y] > 0 => y \in delivered)
      BY <1>b, <3>1 DEF Kept
    <3> QED BY <2>2, <3>2 DEF Kept, Resolved, Pending
  <2> QED BY <2>3, <2>4
<1>14. ASSUME NEW x \in Pairs, Deliver(x) PROVE Kept(y)'
  <2>1. /\ delivered' = delivered \cup {x} /\ acking' = Plus(acking, x, 1)
        /\ UNCHANGED <<diskVars, handler, accepted, lost>>
    BY <1>14 DEF Deliver
  <2>2. acking'[y] > 0 => acking[y] > 0 \/ y \in delivered'
    <3>1. CASE y # x
      BY <1>0, <2>1, <3>1 DEF TypeOK, Plus
    <3> QED BY <2>1, <3>1
  <2> QED BY <1>b, <2>1, <2>2, KeptStays DEF Pending, StoredBy
<1>15. ASSUME NEW x \in Pairs, Retry(x) PROVE Kept(y)'
  <2>1. /\ delivered \subseteq delivered'
        /\ UNCHANGED <<diskVars, handler, accepted, acking, lost>>
    BY <1>15 DEF Retry
  <2> QED BY <1>b, <2>1, KeptStays DEF Pending, StoredBy
<1>16. ASSUME NEW x \in Pairs, DeadLetter(x) PROVE Kept(y)'
  <2>0. acking' = Plus(acking, x, 1)
    BY <1>16 DEF DeadLetter
  <2>1. /\ \/ parked' = [parked EXCEPT ![x] = rejects[x] + 1] /\ lost' = lost
           \/ /\ lost' = lost \cup {x}
              /\ parked' = parked \/ parked' = [parked EXCEPT ![x] = 0]
        /\ raced' = (IF Held(x) THEN raced \cup {x} ELSE raced)
        /\ UNCHANGED <<index, handler, delivered, accepted>>
    BY <1>16 DEF DeadLetter
  <2>2. CASE y # x
    <3>1. acking'[y] = acking[y]
      BY <1>0, <2>0, <2>2 DEF TypeOK, Plus
    <3>2. parked'[y] = parked[y] /\ (y \in lost => y \in lost')
      BY <1>0, <2>1, <2>2 DEF TypeOK
    <3> QED BY <1>b, <2>1, <3>1, <3>2, KeptStays DEF Pending, StoredBy
  <2>3. CASE y = x
    <3>1. ~Held(y)
      BY <2>1, <2>3
    <3>2. y \in Resolved' \cup lost'
      BY <1>0, <2>1, <2>3 DEF TypeOK, Resolved
    <3>3. \A g \in Handlers : y \in StoredBy(g)' => handler'[g].kind # "replay"
      BY <2>1, <3>1, StoredIsHeld DEF StoredBy
    <3> QED BY <3>2, <3>3 DEF Kept
  <2> QED BY <2>2, <2>3
<1>17. ASSUME NEW x \in Pairs, Ack(x) PROVE Kept(y)'
  <2>1. /\ acking[x] > 0 /\ acking' = Plus(acking, x, -1)
        /\ \/ index' = [index EXCEPT ![x[1]] = @ \ {x[2]}]
           \/ UNCHANGED index
        /\ UNCHANGED <<parked, handler, delivered, accepted, lost>>
    BY <1>17 DEF Ack
  <2>2. acking'[y] > 0 => acking[y] > 0
    <3>1. CASE y # x
      BY <1>0, <2>1, <3>1 DEF TypeOK, Plus
    <3> QED BY <2>1, <3>1
  <2>3. CASE y # x
    <3>1. y \in Pending => y \in Pending'
      <4>1. x[1] \in Events /\ y[1] \in Events
            /\ ~(x[1] = y[1] /\ x[2] = y[2])
        BY <2>3 DEF Pairs
      <4> QED BY <1>0, <2>1, <4>1, PendingIndex DEF TypeOK
    <3> QED BY <1>b, <2>1, <2>2, <3>1, KeptStays DEF StoredBy
  <2>4. CASE y = x
    <3>1. y \in Resolved \cup lost
      BY <1>b, <2>1, <2>4 DEF Kept
    <3>2. y \in Resolved' \cup lost'
      BY <2>1, <3>1 DEF Resolved
    <3>3. \A g \in Handlers :
            y \in StoredBy(g) /\ handler[g].kind = "replay" => y \in delivered
      BY <1>b, <2>1, <2>4 DEF Kept
    <3>4. \A g \in Handlers : StoredBy(g)' = StoredBy(g)
      BY <2>1 DEF StoredBy
    <3> QED BY <2>1, <3>2, <3>3, <3>4 DEF Kept
  <2> QED BY <2>3, <2>4
<1>18. CASE Exit \/ Crash
  <2>1. UNCHANGED <<diskVars, delivered, accepted, lost>> /\ LoseMemory
    BY <1>18 DEF Exit, Crash
  <2>2. acking'[y] = 0
    BY <2>1 DEF LoseMemory, None
  <2>3. \A g \in Handlers : y \notin StoredBy(g)'
    BY <2>1 DEF LoseMemory, StoredBy
  <2> QED BY <1>b, <2>1, <2>2, <2>3 DEF Kept, Resolved, Pending
<1> QED BY <1>1, <1>2, <1>3, <1>4, <1>5, <1>7, <1>8, <1>9, <1>10, <1>11, <1>12,
           <1>13, <1>14, <1>15, <1>16, <1>17, <1>18
        DEF Next, Handle, Resolve

\* An event that a client got 202 for is in the WAL until the provider or the DLQ
\* has it, for every pair that nothing raced with and that was not given up with
\* a DLQ.Put that failed: whatever requests are sent again, half stored or
\* replayed, whichever appends, acks and removals fail, whenever the process dies
\* and however its configuration changes.
THEOREM CustodyHolds == Spec => []CustodyUnlessRaced
<1>1. Init => CustodyInv
  BY DEF Init, CustodyInv, Kept, StoredBy, None
<1>2. TypeInv /\ TypeInv' /\ CustodyInv /\ [Next]_vars => CustodyInv'
  BY CustodyStep
<1>3. TypeInv /\ CustodyInv => CustodyUnlessRaced
  BY DEF CustodyInv, Kept, CustodyUnlessRaced, TypeInv, TypeOK
<1> QED BY <1>1, <1>2, <1>3, TypeInvariant, PTL DEF Spec

=============================================================================

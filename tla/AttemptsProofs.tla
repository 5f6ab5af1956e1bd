--------------------------- MODULE AttemptsProofs ---------------------------
(***************************************************************************)
(* Proofs about the attempts, for any events, settings and durations: what *)
(* the retry budget bounds, and that a provider whose dedup window covers  *)
(* that bound counts a life of an event once.                              *)
(***************************************************************************)
EXTENDS Attempts, TLAPS

-----------------------------------------------------------------------------
(* The inductive invariant. *)

\* The settings are those of some config file, and so within the window.
Configured == \E s \in Settings : cfg = applyDefaults(s)

\* Only a running process holds items, and each of them is in a life.
Living ==
  /\ \A e \in Events : item[e].stage \in Active => up /\ life[e] > 0
  /\ \A e \in Events : life[e] <= MaxLives

\* The latest age at which an item fires its timer, is sent, and returns.
OnTime ==
  \A e \in Events :
    /\ item[e].stage = "resting" =>
         item[e].age + item[e].wait <= cfg.maxElapsed - 1 + cfg.maxInterval
    /\ item[e].stage = "queued" =>
         item[e].age + item[e].wait <= LastSend(cfg)
    /\ item[e].stage = "sending" =>
         item[e].age + item[e].wait <= LastSend(cfg) + SendTimeout

\* What is on the wire was sent at most Late ago, by then at an age that leaves
\* this much of the window, and in a life of its event that has begun.
WireInTime ==
  \A m \in wire : /\ m.sent <= Late /\ m.born + Late <= m.sent + Window
                  /\ m.life <= life[m.event]

\* The item can come to another Send.
MaySend(e) ==
  \/ item[e].stage \in {"queued", "resting"}
  \/ item[e].stage = "sending" /\ item[e].age < cfg.maxElapsed

\* If life n of e was counted, the record of that is no older than b.
Remembered(e, n, b) ==
  counts[e][n] > 0 => seen[e] # None /\ seen[e] <= b

\* A life is counted at most once, not before it begins, and while any of it can
\* still reach the provider the record of it is there.
Counted ==
  /\ \A e \in Events, n \in 1..MaxLives : counts[e][n] <= 1
  /\ \A e \in Events, n \in 1..MaxLives : n > life[e] => counts[e][n] = 0
  /\ \A m \in wire : Remembered(m.event, m.life, m.born)
  /\ \A e \in Events : MaySend(e) => Remembered(e, life[e], item[e].age)

LifeInv == TypeOK /\ Configured /\ Living

AttemptsInv == LifeInv /\ OnTime /\ WireInTime /\ Counted

-----------------------------------------------------------------------------
(* What the defaults leave of a provider section. *)

LEMMA DefaultsApplied ==
  ASSUME NEW s \in Settings
  PROVE  /\ applyDefaults(s) \in Times
         /\ \A f \in DOMAIN applyDefaults(s) : applyDefaults(s)[f] > 0
         /\ LastSend(applyDefaults(s)) + Late <= Window
<1>1. s \in Times
  BY AttemptsAssumption
<1>2. /\ Default(s.linger, DefaultLinger) \in Nat \ {0}
      /\ Default(s.maxEvents, DefaultEvents) \in Nat \ {0}
      /\ Default(s.maxElapsed, DefaultElapsed) \in Nat \ {0}
      /\ Default(s.maxInterval, DefaultBackoff) \in Nat \ {0}
  BY <1>1, AttemptsAssumption DEF Times, Default
<1>3. DOMAIN applyDefaults(s) = {"linger", "maxEvents", "maxElapsed", "maxInterval"}
  BY DEF applyDefaults
<1>4. \A f \in DOMAIN applyDefaults(s) : applyDefaults(s)[f] > 0
  BY <1>2, <1>3 DEF applyDefaults
<1>5. LastSend(applyDefaults(s)) + Late <= Window
  BY AttemptsAssumption
<1> QED
  BY <1>2, <1>4, <1>5 DEF applyDefaults, Times

\* The durations in use.
LEMMA InUse ==
  ASSUME TypeOK, Configured
  PROVE  /\ cfg.linger \in Nat \ {0} /\ cfg.maxElapsed \in Nat \ {0}
         /\ cfg.maxInterval \in Nat \ {0} /\ cfg.maxEvents \in Nat \ {0}
         /\ MaxWait(cfg) \in Nat /\ LastSend(cfg) \in Nat
         /\ LastSend(cfg) = cfg.maxElapsed - 1 + cfg.maxInterval + MaxWait(cfg)
         /\ LastSend(cfg) + Late <= Window
         /\ SendTimeout \in Nat /\ Late \in Nat /\ Window \in Nat
<1>1. cfg \in Times /\ \A f \in DOMAIN cfg : cfg[f] > 0
  BY DEF TypeOK
<1>2. DOMAIN cfg = {"linger", "maxEvents", "maxElapsed", "maxInterval"}
  BY <1>1 DEF Times
<1>3. /\ cfg.linger \in Nat \ {0} /\ cfg.maxElapsed \in Nat \ {0}
      /\ cfg.maxInterval \in Nat \ {0} /\ cfg.maxEvents \in Nat \ {0}
  BY <1>1, <1>2 DEF Times
<1>4. LastSend(cfg) + Late <= Window
  BY DefaultsApplied DEF Configured
<1>5. /\ QueueTime \in Nat /\ SendTimeout \in Nat /\ Late \in Nat /\ Window \in Nat
  BY AttemptsAssumption
<1> QED
  BY <1>3, <1>4, <1>5 DEF MaxWait, LastSend

-----------------------------------------------------------------------------
(* What resolve makes of an item. *)

\* An item that leaves the batcher.
Gone == {Outside("accepted"), Outside("rejected"), Outside("exhausted")}

LEMMA OutsideIsItem ==
  ASSUME NEW stage \in Stages
  PROVE  Outside(stage) \in Items
  BY DEF Outside, Items

LEMMA Resolved ==
  ASSUME NEW q, NEW disposition, NEW delay
  PROVE  \/ resolve(q, disposition, delay) \in Gone
         \/ /\ ~(q.age >= cfg.maxElapsed)
            /\ resolve(q, disposition, delay) = scheduleRetry(q, delay)
<1>1. CASE disposition = "Ok"
  BY <1>1 DEF resolve, Gone
<1>2. CASE disposition = "DeadLetter"
  BY <1>2 DEF resolve, Gone
<1>3. CASE disposition # "Ok" /\ disposition # "DeadLetter"
  BY <1>3, Zenon DEF resolve, Gone
<1> QED
  BY <1>1, <1>2, <1>3

\* Send has returned: who was sent is gone, or rests, with budget left and for no
\* longer than the longest backoff.
LEMMA Returned ==
  ASSUME LifeInv, NEW B \in SUBSET Events, NEW answer \in Answers,
         Return(B, answer), NEW e \in Events
  PROVE  \/ item'[e] = item[e]
         \/ item'[e] \in Gone
         \/ /\ item[e].stage = "sending" /\ item[e].age < cfg.maxElapsed
            /\ item'[e] \in Items
            /\ item'[e].stage = "resting" /\ item'[e].age = item[e].age
            /\ item'[e].wait \in 0..cfg.maxInterval
<1> DEFINE disposition == IF answer = "2xx" THEN "Ok" ELSE Classify(answer)
<1>1. PICK delay :
        /\ \A x \in B : delay[x] \in backoff(item[x].attempt + 1)
        /\ item' = [x \in Events |->
             IF x \in B THEN resolve(item[x], disposition, delay[x]) ELSE item[x]]
  BY DEF Return
<1> HIDE DEF disposition
<1>2. CASE e \notin B
  BY <1>1, <1>2
<1>3. CASE e \in B
  <2>1. item[e].stage = "sending" /\ item[e] \in Items
    BY <1>3 DEF Return, LifeInv, TypeOK
  <2>2. delay[e] \in 0..cfg.maxInterval
    BY <1>1, <1>3 DEF backoff
  <2>3. item'[e] = resolve(item[e], disposition, delay[e])
    BY <1>1, <1>3
  <2>4. CASE /\ ~(item[e].age >= cfg.maxElapsed)
             /\ item'[e] = scheduleRetry(item[e], delay[e])
    <3>1. cfg.maxElapsed \in Nat /\ cfg.maxInterval \in Nat
      BY InUse DEF LifeInv
    <3>2. item'[e] = [stage |-> "resting", age |-> item[e].age,
                      attempt |-> item[e].attempt + 1, wait |-> delay[e],
                      batch |-> {}]
      BY <2>1, <2>4 DEF scheduleRetry, Items
    <3> QED
      BY <2>1, <2>2, <2>4, <3>1, <3>2 DEF Items, Stages, Active
  <2> QED
    BY <2>3, <2>4, Resolved
<1> QED
  BY <1>2, <1>3

LEMMA GoneIsItem ==
  ASSUME NEW q \in Gone
  PROVE  /\ q \in Items /\ q.stage \notin Active
         /\ q.stage \in {"accepted", "rejected", "exhausted"}
  BY OutsideIsItem DEF Gone, Outside, Stages, Active

-----------------------------------------------------------------------------
(* Types, and lives. *)

\* The messages the type invariant allows.
Messages == [event : Events, life : 1..MaxLives, attempt : Nat,
             born : Nat, sent : Nat]

\* What Tick makes of a message.
LEMMA MessageAges ==
  ASSUME NEW k \in Messages
  PROVE  LET m == [k EXCEPT !.born = @ + 1, !.sent = @ + 1]
         IN  /\ m \in Messages /\ m.event = k.event /\ m.life = k.life
             /\ m.born = k.born + 1 /\ m.sent = k.sent + 1
<1> DEFINE m == [k EXCEPT !.born = @ + 1, !.sent = @ + 1]
<1>1. /\ m.event = k.event /\ m.life = k.life /\ m.attempt = k.attempt
      /\ m.born = k.born + 1 /\ m.sent = k.sent + 1
  BY DEF Messages
<1>2. /\ DOMAIN m = {"event", "life", "attempt", "born", "sent"}
      /\ m = [f \in DOMAIN m |-> m[f]]
  BY DEF Messages
<1>3. /\ k.event \in Events /\ k.life \in 1..MaxLives /\ k.attempt \in Nat
      /\ k.born + 1 \in Nat /\ k.sent + 1 \in Nat
  BY DEF Messages
<1> HIDE DEF m
<1>4. m \in Messages
  BY <1>1, <1>2, <1>3 DEF Messages
<1> QED
  BY <1>1, <1>4 DEF m

\* g is f with one more for life n of e.
OneMore(g, f, e, n) == g = [f EXCEPT ![e][n] = @ + 1]

\* What counting a life once more makes of the counts.
LEMMA CountAdded ==
  ASSUME NEW f \in [Events -> [1..MaxLives -> Nat]],
         NEW e \in Events, NEW n \in 1..MaxLives,
         NEW g, OneMore(g, f, e, n)
  PROVE  /\ g \in [Events -> [1..MaxLives -> Nat]]
         /\ \A x \in Events, k \in 1..MaxLives :
              g[x][k] = IF x = e /\ k = n THEN f[x][k] + 1 ELSE f[x][k]
<1> DEFINE L == 1..MaxLives
           h == [f[e] EXCEPT ![n] = f[e][n] + 1]
<1> HIDE DEF L
<1>1. f \in [Events -> [L -> Nat]] /\ n \in L
  BY DEF L
<1>2. f[e] \in [L -> Nat]
  BY <1>1
<1>3. h \in [L -> Nat] /\ \A k \in L : h[k] = IF k = n THEN f[e][k] + 1 ELSE f[e][k]
  BY <1>1, <1>2
<1>4. g = [f EXCEPT ![e] = h]
  BY DEF OneMore
<1> HIDE DEF h
<1>5. /\ g \in [Events -> [L -> Nat]]
      /\ \A x \in Events : g[x] = IF x = e THEN h ELSE f[x]
  BY <1>1, <1>3, <1>4
<1>6. \A x \in Events, k \in L :
        g[x][k] = IF x = e /\ k = n THEN f[x][k] + 1 ELSE f[x][k]
  BY <1>3, <1>5
<1> QED
  BY <1>5, <1>6 DEF L

LEMMA InitLife == Init => LifeInv
<1> SUFFICES ASSUME Init PROVE LifeInv
  OBVIOUS
<1>1. PICK s \in Settings : cfg = applyDefaults(s)
  BY DEF Init
<1>2. Outside("new") \in Items /\ Outside("new").stage \notin Active
  BY OutsideIsItem DEF Outside, Stages, Active
<1>3. TypeOK
  BY <1>1, <1>2, DefaultsApplied DEF Init, TypeOK, None
<1> QED
  BY <1>1, <1>2, <1>3, AttemptsAssumption DEF Init, LifeInv, Configured, Living

LEMMA NextLife ==
  ASSUME LifeInv, [Next]_vars
  PROVE  LifeInv'
<1> USE DEF LifeInv
<1>0. /\ up \in BOOLEAN
      /\ item \in [Events -> Items] /\ life \in [Events -> Nat]
      /\ wire \subseteq Messages
      /\ seen \in [Events -> Nat \cup {None}]
      /\ counts \in [Events -> [1..MaxLives -> Nat]]
  BY DEF TypeOK, Messages
<1>u. MaxWait(cfg) \in Nat /\ SendTimeout \in Nat /\ MaxLives \in Nat
  BY InUse, AttemptsAssumption
<1>1. CASE UNCHANGED vars
  BY <1>1 DEF vars, TypeOK, Configured, Living
<1>2. CASE Tick
  <2>1. item' \in [Events -> Items] /\ \A e \in Events : item'[e].stage = item[e].stage
    <3> SUFFICES ASSUME NEW e \in Events
                 PROVE  item'[e] \in Items /\ item'[e].stage = item[e].stage
      BY <1>2 DEF Tick
    <3>1. CASE item[e].stage \in Active
      <4>0. item[e] \in Items
        BY <1>0
      <4>1. item'[e] = [item[e] EXCEPT !.age = @ + 1, !.wait = @ - 1]
        BY <1>2, <3>1 DEF Tick
      <4>2. item[e].wait > 0
        BY <1>2, <3>1 DEF Tick
      <4>3. item'[e] = [stage |-> item[e].stage, age |-> item[e].age + 1,
                        attempt |-> item[e].attempt, wait |-> item[e].wait - 1,
                        batch |-> item[e].batch]
        BY <4>0, <4>1 DEF Items
      <4> QED
        BY <4>0, <4>2, <4>3 DEF Items
    <3> QED
      BY <1>0, <1>2, <3>1 DEF Tick
  <2>2. wire' \subseteq Messages
    <3> SUFFICES ASSUME NEW m \in wire' PROVE m \in Messages
      OBVIOUS
    <3>1. PICK k \in wire : m = [k EXCEPT !.born = @ + 1, !.sent = @ + 1]
      BY <1>2 DEF Tick
    <3> QED
      BY <1>0, <3>1, MessageAges
  <2>3. seen' \in [Events -> Nat \cup {None}]
    <3>1. \A e \in Events :
            (IF seen[e] \in {None, Window} THEN None ELSE seen[e] + 1)
              \in Nat \cup {None}
      BY <1>0
    <3>2. seen' = [e \in Events |->
            IF seen[e] \in {None, Window} THEN None ELSE seen[e] + 1]
      BY <1>2 DEF Tick
    <3> QED
      BY <3>1, <3>2
  <2> QED
    BY <1>0, <1>2, <2>1, <2>2, <2>3
    DEF Tick, TypeOK, Messages, Configured, Living
<1>3. CASE Crash
  <2>1. Outside("stored") \in Items /\ Outside("stored").stage \notin Active
    BY OutsideIsItem DEF Outside, Stages, Active
  <2>2. /\ item' \in [Events -> Items]
        /\ \A e \in Events : item'[e].stage \notin Active
    BY <1>0, <1>3, <2>1 DEF Crash
  <2> QED
    BY <1>0, <1>3, <2>2 DEF Crash, TypeOK, Configured, Living
<1>4. ASSUME NEW s \in Settings, Start(s) PROVE LifeInv'
  <2>1. /\ cfg' = applyDefaults(s) /\ up' = TRUE
        /\ UNCHANGED <<item, life, wire, seen, counts>>
    BY <1>4 DEF Start
  <2>2. TypeOK'
    BY <2>1, DefaultsApplied DEF TypeOK
  <2> QED
    BY <1>4, <2>1, <2>2 DEF Configured, Living, Start
<1>5. ASSUME NEW e \in Events, Enqueue(e) PROVE LifeInv'
  <2> DEFINE q == [Outside("queued") EXCEPT !.wait = MaxWait(cfg)]
  <2>0. life[e] < MaxLives /\ life' = [life EXCEPT ![e] = life[e] + 1]
    BY <1>5, Zenon DEF Enqueue
  <2>1. q \in Items /\ q.stage = "queued"
    BY <1>u, OutsideIsItem DEF Outside, Items, Stages, Active
  <2>2. item' = [item EXCEPT ![e] = q] /\ up = TRUE
    BY <1>0, <1>5 DEF Enqueue
  <2> HIDE DEF q
  <2>3. item' \in [Events -> Items] /\ life' \in [Events -> Nat]
    BY <1>0, <2>0, <2>1, <2>2
  <2>4. \A x \in Events : /\ life'[x] <= MaxLives
                          /\ item'[x].stage \in Active => life'[x] > 0 /\ up
    BY <1>0, <1>u, <2>0, <2>1, <2>2 DEF Living
  <2> QED
    BY <1>5, <2>3, <2>4 DEF Enqueue, TypeOK, Configured, Living
<1>6. ASSUME NEW e \in Events, RetryFires(e) PROVE LifeInv'
  <2>1. /\ item' \in [Events -> Items] /\ item[e].stage \in Active
        /\ \A x \in Events : x # e => item'[x] = item[x]
    <3> DEFINE q == [item[e] EXCEPT !.stage = "queued", !.wait = MaxWait(cfg)]
    <3>1. item' = [item EXCEPT ![e] = q] /\ item[e].stage = "resting"
      BY <1>0, <1>6 DEF RetryFires
    <3>2. q \in Items
      <4> DEFINE o == item[e]
      <4>1. o \in Items
        BY <1>0
      <4> HIDE DEF o
      <4>2. [o EXCEPT !.stage = "queued", !.wait = MaxWait(cfg)] \in Items
        BY <1>u, <4>1 DEF Items, Stages, Active
      <4> QED
        BY <4>2 DEF o
    <3> HIDE DEF q
    <3> QED
      BY <1>0, <3>1, <3>2 DEF Active
  <2> QED
    BY <1>6, <2>1 DEF RetryFires, TypeOK, Configured, Living
<1>7. ASSUME NEW B \in SUBSET Events, Send(B) PROVE LifeInv'
  <2>1. /\ item' \in [Events -> Items]
        /\ \A e \in Events : item'[e].stage \in Active => item[e].stage \in Active
    <3> SUFFICES ASSUME NEW e \in Events
                 PROVE  /\ item'[e] \in Items
                        /\ item'[e].stage \in Active => item[e].stage \in Active
      BY <1>7 DEF Send
    <3>1. CASE e \in B
      <4>1. item'[e] = [item[e] EXCEPT !.stage = "sending", !.batch = B,
                                       !.wait = SendTimeout]
        BY <1>7, <3>1 DEF Send
      <4>2. item[e].stage = "queued"
        BY <1>7, <3>1 DEF Send, In
      <4> QED
        BY <1>0, <1>u, <4>1, <4>2 DEF Items, Stages, Active
    <3> QED
      BY <1>0, <1>7, <3>1 DEF Send
  <2>2. \A e \in B : Message(e) \in Messages
    <3> SUFFICES ASSUME NEW e \in B PROVE Message(e) \in Messages
      OBVIOUS
    <3>1. item[e].stage \in Active
      BY <1>7 DEF Send, In, Active
    <3>2. life[e] \in 1..MaxLives
      BY <1>0, <1>u, <3>1 DEF Living
    <3> QED
      BY <1>0, <3>2 DEF Message, Messages, Items
  <2>3. wire' \subseteq Messages
    BY <1>0, <1>7, <2>2 DEF Send
  <2> QED
    BY <1>7, <2>1, <2>3 DEF Send, TypeOK, Messages, Configured, Living
<1>8. ASSUME NEW B \in SUBSET Events, NEW answer \in Answers, Return(B, answer)
      PROVE LifeInv'
  <2>1. /\ item' \in [Events -> Items]
        /\ \A e \in Events : item'[e].stage \in Active => item[e].stage \in Active
    <3> SUFFICES ASSUME NEW e \in Events
                 PROVE  /\ item'[e] \in Items
                        /\ item'[e].stage \in Active => item[e].stage \in Active
      BY <1>8 DEF Return
    <3> QED
      BY <1>0, <1>8, Returned, GoneIsItem DEF Active
  <2> QED
    BY <1>8, <2>1 DEF Return, TypeOK, Configured, Living
<1>9. ASSUME NEW m \in wire, Ingest(m) PROVE LifeInv'
  <2>1. m \in Messages /\ wire' \subseteq Messages
    BY <1>0, <1>9 DEF Ingest
  <2>2. \/ UNCHANGED <<seen, counts>>
        \/ /\ seen' = [seen EXCEPT ![m.event] = 0]
           /\ counts' = [counts EXCEPT ![m.event][m.life] = @ + 1]
    BY <1>9, Zenon DEF Ingest
  <2>3. /\ seen' \in [Events -> Nat \cup {None}]
        /\ counts' \in [Events -> [1..MaxLives -> Nat]]
    <3>1. m.event \in Events /\ m.life \in 1..MaxLives
      BY <2>1 DEF Messages
    <3>2. CASE UNCHANGED <<seen, counts>>
      BY <1>0, <3>2
    <3>3. CASE /\ seen' = [seen EXCEPT ![m.event] = 0]
               /\ counts' = [counts EXCEPT ![m.event][m.life] = @ + 1]
      <4>m. OneMore(counts', counts, m.event, m.life)
        BY <3>3 DEF OneMore
      <4>1. counts' \in [Events -> [1..MaxLives -> Nat]]
        BY <1>0, <3>1, <4>m, CountAdded
      <4> QED
        BY <1>0, <3>1, <3>3, <4>1
    <3> QED
      BY <2>2, <3>2, <3>3
  <2> QED
    BY <1>9, <2>1, <2>3 DEF Ingest, TypeOK, Messages, Configured, Living
<1> QED
  BY <1>1, <1>2, <1>3, <1>4, <1>5, <1>6, <1>7, <1>8, <1>9 DEF Next

\* TypeOK holds for every number of events and lives, any settings, and any
\* positive defaults: no duration in use is ever zero, and every message belongs
\* to a life that the bound allows.
THEOREM TypeCorrect == Spec => []TypeOK
<1>1. Spec => []LifeInv
  BY InitLife, NextLife, PTL DEF Spec
<1>2. LifeInv => TypeOK
  BY DEF LifeInv
<1> QED
  BY <1>1, <1>2, PTL

-----------------------------------------------------------------------------
(* The deadlines. *)

\* What Tick makes of an item.
LEMMA ItemAges ==
  ASSUME LifeInv, Tick, NEW e \in Events
  PROVE  \/ item[e].stage \notin Active /\ item'[e] = item[e]
         \/ /\ item[e].stage \in Active /\ item[e].wait > 0
            /\ item'[e].stage = item[e].stage
            /\ item'[e].age = item[e].age + 1
            /\ item'[e].wait = item[e].wait - 1
<1>1. item[e] \in Items
  BY DEF LifeInv, TypeOK
<1>2. CASE item[e].stage \in Active
  <2>1. item'[e] = [item[e] EXCEPT !.age = @ + 1, !.wait = @ - 1]
    BY <1>2 DEF Tick
  <2>2. item[e].wait > 0
    BY <1>2 DEF Tick
  <2> QED
    BY <1>1, <1>2, <2>1, <2>2 DEF Items
<1> QED
  BY <1>2 DEF Tick

\* What Send makes of an item.
LEMMA ItemSent ==
  ASSUME LifeInv, NEW B \in SUBSET Events, Send(B), NEW e \in Events
  PROVE  \/ e \notin B /\ item'[e] = item[e]
         \/ /\ e \in B /\ item[e].stage = "queued"
            /\ item'[e].stage = "sending" /\ item'[e].age = item[e].age
            /\ item'[e].wait = SendTimeout
<1>1. item[e] \in Items
  BY DEF LifeInv, TypeOK
<1>2. CASE e \in B
  <2>1. item'[e] = [item[e] EXCEPT !.stage = "sending", !.batch = B,
                                   !.wait = SendTimeout]
    BY <1>2 DEF Send
  <2>2. item[e].stage = "queued"
    BY <1>2 DEF Send, In
  <2> QED
    BY <1>1, <1>2, <2>1, <2>2 DEF Items
<1> QED
  BY <1>2 DEF Send

\* What Enqueue makes of an item, and of the count of lives.
LEMMA ItemEnqueued ==
  ASSUME LifeInv, NEW e \in Events, Enqueue(e)
  PROVE  /\ UNCHANGED <<up, cfg, wire, seen, counts>>
         /\ \A x \in Events : x # e => item'[x] = item[x] /\ life'[x] = life[x]
         /\ item'[e].stage = "queued" /\ item'[e].age = 0
         /\ item'[e].wait = MaxWait(cfg) /\ life'[e] = life[e] + 1
         /\ life[e] < MaxLives
<1> DEFINE q == [Outside("queued") EXCEPT !.wait = MaxWait(cfg)]
<1>1. q.stage = "queued" /\ q.age = 0 /\ q.wait = MaxWait(cfg)
  BY DEF Outside
<1> HIDE DEF q
<1>2. /\ UNCHANGED <<up, cfg, wire, seen, counts>> /\ life[e] < MaxLives
      /\ item' = [item EXCEPT ![e] = q] /\ life' = [life EXCEPT ![e] = life[e] + 1]
  BY Zenon DEF Enqueue, q
<1> QED
  BY <1>1, <1>2 DEF LifeInv, TypeOK

LEMMA NextOnTime ==
  ASSUME LifeInv, OnTime, [Next]_vars
  PROVE  OnTime'
<1>0. item \in [Events -> Items]
  BY DEF LifeInv, TypeOK
<1>t. \A e \in Events : item[e].age \in Nat /\ item[e].wait \in Nat
  BY <1>0 DEF Items
<1>u. /\ cfg.maxElapsed \in Nat \ {0} /\ cfg.maxInterval \in Nat
      /\ MaxWait(cfg) \in Nat /\ SendTimeout \in Nat
      /\ LastSend(cfg) = cfg.maxElapsed - 1 + cfg.maxInterval + MaxWait(cfg)
  BY InUse DEF LifeInv
<1>1. CASE UNCHANGED vars
  BY <1>1 DEF vars, OnTime
<1>2. CASE Tick
  <2>1. cfg' = cfg
    BY <1>2 DEF Tick
  <2>2. \A e \in Events :
          \/ item'[e] = item[e]
          \/ /\ item'[e].stage = item[e].stage
             /\ item'[e].age + item'[e].wait = item[e].age + item[e].wait
    BY <1>2, <1>t, ItemAges
  <2> QED
    BY <2>1, <2>2 DEF OnTime
<1>3. CASE Crash
  BY <1>3 DEF Crash, OnTime, Outside, Active
<1>4. ASSUME NEW s \in Settings, Start(s) PROVE OnTime'
  <2>1. \A e \in Events : item'[e].stage \notin Active
    BY <1>4 DEF Start, LifeInv, Living
  <2> QED
    BY <2>1 DEF OnTime, Active
<1>5. ASSUME NEW e \in Events, Enqueue(e) PROVE OnTime'
  BY <1>5, <1>u, ItemEnqueued DEF OnTime
<1>6. ASSUME NEW e \in Events, RetryFires(e) PROVE OnTime'
  <2>1. /\ cfg' = cfg /\ \A x \in Events : x # e => item'[x] = item[x]
        /\ item[e].stage = "resting" /\ item[e].wait = 0
        /\ item'[e].stage = "queued" /\ item'[e].age = item[e].age
        /\ item'[e].wait = MaxWait(cfg)
    BY <1>0, <1>6 DEF RetryFires, Items
  <2> QED
    BY <1>t, <1>u, <2>1 DEF OnTime
<1>7. ASSUME NEW B \in SUBSET Events, Send(B) PROVE OnTime'
  <2>1. cfg' = cfg
    BY <1>7 DEF Send
  <2> QED
    BY <1>7, <1>t, <1>u, <2>1, ItemSent DEF OnTime
<1>8. ASSUME NEW B \in SUBSET Events, NEW answer \in Answers, Return(B, answer)
      PROVE OnTime'
  <2>1. cfg' = cfg
    BY <1>8 DEF Return
  <2>2. \A q \in Gone : q.stage \notin {"queued", "resting", "sending"}
    BY GoneIsItem DEF Active
  <2> QED
    BY <1>8, <1>t, <1>u, <2>1, <2>2, Returned DEF OnTime
<1>9. ASSUME NEW m \in wire, Ingest(m) PROVE OnTime'
  BY <1>9 DEF Ingest, OnTime
<1> QED
  BY <1>1, <1>2, <1>3, <1>4, <1>5, <1>6, <1>7, <1>8, <1>9 DEF Next

\* ResolvedInTime, whatever the provider answers, however long the jitter makes
\* each item rest, and across restarts with other settings: the age of an item
\* in a batcher is at most that of the last Send plus the time limit of Send.
\* The bound is not inductive; the deadline of each stage is, as resolve looks at
\* the budget only when an attempt has failed.
THEOREM ResolvedInTimeHolds == Spec => []ResolvedInTime
<1>1. Init => OnTime
  BY DEF Init, OnTime, Outside
<1>2. Spec => [](LifeInv /\ OnTime)
  BY <1>1, InitLife, NextLife, NextOnTime, PTL DEF Spec
<1>3. LifeInv /\ OnTime => ResolvedInTime
  <2> SUFFICES ASSUME LifeInv, OnTime, NEW e \in Events, item[e].stage \in Active
               PROVE  item[e].age <= LastSend(cfg) + SendTimeout
    BY DEF ResolvedInTime
  <2>1. item[e].age \in Nat /\ item[e].wait \in Nat
    BY DEF LifeInv, TypeOK, Items
  <2> QED
    BY <2>1, InUse DEF LifeInv, OnTime, Active
<1> QED
  BY <1>2, <1>3, PTL

-----------------------------------------------------------------------------
(* The dedup window. *)

LEMMA NextWire ==
  ASSUME LifeInv, OnTime, WireInTime, [Next]_vars
  PROVE  WireInTime'
<1>0. wire \subseteq Messages /\ life \in [Events -> Nat]
  BY DEF LifeInv, TypeOK, Messages
<1>t. \A m \in wire : /\ m.event \in Events /\ m.life \in Nat
                      /\ m.born \in Nat /\ m.sent \in Nat
  BY <1>0, AttemptsAssumption DEF Messages
<1>u. Late \in Nat /\ Window \in Nat
  BY AttemptsAssumption
<1>1. CASE UNCHANGED vars
  BY <1>1 DEF vars, WireInTime
<1>2. CASE Tick
  <2> SUFFICES ASSUME NEW m \in wire'
               PROVE  /\ m.sent <= Late /\ m.born + Late <= m.sent + Window
                      /\ m.life <= life'[m.event]
    BY DEF WireInTime
  <2>1. PICK k \in wire : /\ k.sent < Late
                          /\ m = [k EXCEPT !.born = @ + 1, !.sent = @ + 1]
    BY <1>2 DEF Tick
  <2>2. /\ m.event = k.event /\ m.life = k.life
        /\ m.born = k.born + 1 /\ m.sent = k.sent + 1
    BY <1>0, <2>1, MessageAges
  <2>3. life' = life
    BY <1>2 DEF Tick
  <2> QED
    BY <1>t, <1>u, <2>1, <2>2, <2>3 DEF WireInTime
<1>3. CASE Crash
  BY <1>3 DEF Crash, WireInTime
<1>4. ASSUME NEW s \in Settings, Start(s) PROVE WireInTime'
  BY <1>4 DEF Start, WireInTime
<1>5. ASSUME NEW e \in Events, Enqueue(e) PROVE WireInTime'
  <2>1. wire' = wire /\ \A x \in Events : life[x] <= life'[x] /\ life'[x] \in Nat
    BY <1>0, <1>5, ItemEnqueued
  <2> QED
    BY <1>0, <1>t, <2>1 DEF WireInTime
<1>6. ASSUME NEW e \in Events, RetryFires(e) PROVE WireInTime'
  BY <1>6 DEF RetryFires, WireInTime
<1>7. ASSUME NEW B \in SUBSET Events, Send(B) PROVE WireInTime'
  <2> SUFFICES ASSUME NEW m \in wire', m \notin wire
               PROVE  /\ m.sent <= Late /\ m.born + Late <= m.sent + Window
                      /\ m.life <= life'[m.event]
    BY <1>7 DEF Send, WireInTime
  <2>1. PICK e \in B : m = Message(e)
    BY <1>7 DEF Send
  <2>2. /\ m.event = e /\ m.life = life[e] /\ m.born = item[e].age /\ m.sent = 0
        /\ life' = life
    BY <1>7, <2>1 DEF Message, Send
  <2>3. item[e].age \in Nat /\ item[e].wait \in Nat
    BY DEF LifeInv, TypeOK, Items
  <2>4. item[e].age + item[e].wait <= LastSend(cfg)
    BY <1>7 DEF OnTime, Send, In
  <2> QED
    BY <1>0, <1>u, <2>2, <2>3, <2>4, InUse DEF LifeInv
<1>8. ASSUME NEW B \in SUBSET Events, NEW answer \in Answers, Return(B, answer)
      PROVE WireInTime'
  BY <1>8 DEF Return, WireInTime
<1>9. ASSUME NEW m \in wire, Ingest(m) PROVE WireInTime'
  BY <1>9 DEF Ingest, WireInTime
<1> QED
  BY <1>1, <1>2, <1>3, <1>4, <1>5, <1>6, <1>7, <1>8, <1>9 DEF Next

\* The record of a life outlives everything of that life.
LEMMA WindowCovers ==
  ASSUME AttemptsInv, Tick,
         NEW e \in Events, NEW n \in 1..MaxLives, NEW b \in Nat,
         Remembered(e, n, b), b < Window
  PROVE  counts[e][n] > 0 => seen'[e] # None /\ seen'[e] <= b + 1
<1> SUFFICES ASSUME counts[e][n] > 0
             PROVE  seen'[e] # None /\ seen'[e] <= b + 1
  OBVIOUS
<1>1. seen[e] # None /\ seen[e] <= b
  BY DEF Remembered
<1>2. seen[e] \in Nat
  BY <1>1 DEF AttemptsInv, LifeInv, TypeOK
<1>3. Window \in Nat
  BY AttemptsAssumption
<1>4. seen[e] \notin {None, Window}
  BY <1>1, <1>2, <1>3
<1>5. seen' = [x \in Events |->
        IF seen[x] \in {None, Window} THEN None ELSE seen[x] + 1]
  BY DEF Tick
<1>6. seen'[e] = seen[e] + 1
  BY <1>4, <1>5
<1> QED
  BY <1>1, <1>2, <1>6 DEF None

\* An item that may be sent again, or whose Send has just begun, is younger than
\* the window.
LEMMA MaySendInWindow ==
  ASSUME AttemptsInv, NEW e \in Events, MaySend(e), item[e].wait > 0
  PROVE  item[e].age < Window
<1>1. item[e].age \in Nat /\ item[e].wait \in Nat
  BY DEF AttemptsInv, LifeInv, TypeOK, Items
<1> QED
  BY <1>1, InUse DEF AttemptsInv, LifeInv, OnTime, MaySend

LEMMA NextCounted ==
  ASSUME AttemptsInv, [Next]_vars
  PROVE  Counted'
<1> USE DEF AttemptsInv
<1>0. /\ wire \subseteq Messages /\ life \in [Events -> Nat]
      /\ item \in [Events -> Items]
      /\ seen \in [Events -> Nat \cup {None}]
      /\ counts \in [Events -> [1..MaxLives -> Nat]]
  BY DEF LifeInv, TypeOK, Messages
<1>m. \A m \in wire : /\ m.event \in Events /\ m.life \in 1..MaxLives
                      /\ m.born \in Nat /\ m.sent \in Nat
  BY <1>0 DEF Messages
<1>i. \A e \in Events : item[e].age \in Nat /\ item[e].wait \in Nat
  BY <1>0 DEF Items
<1>s. \A e \in Events : MaySend(e) => life[e] \in 1..MaxLives
  BY <1>0, AttemptsAssumption DEF LifeInv, Living, MaySend, Active
<1>1. CASE UNCHANGED vars
  BY <1>1 DEF vars, Counted, MaySend, Remembered
<1>2. CASE Tick
  <2>0. counts' = counts /\ life' = life /\ cfg' = cfg
    BY <1>2 DEF Tick
  <2>1. ASSUME NEW m \in wire' PROVE Remembered(m.event, m.life, m.born)'
    <3>1. PICK k \in wire : /\ k.sent < Late
                            /\ m = [k EXCEPT !.born = @ + 1, !.sent = @ + 1]
      BY <1>2 DEF Tick
    <3>2. m.event = k.event /\ m.life = k.life /\ m.born = k.born + 1
      BY <1>0, <3>1, MessageAges
    <3>3. k.born < Window
      BY <1>m, <3>1, AttemptsAssumption DEF WireInTime
    <3>4. Remembered(k.event, k.life, k.born)
      BY DEF Counted
    <3>5. counts[k.event][k.life] > 0 =>
            seen'[k.event] # None /\ seen'[k.event] <= k.born + 1
      BY <1>2, <1>m, <3>3, <3>4, WindowCovers
    <3> QED
      BY <2>0, <3>2, <3>5 DEF Remembered
  <2>2. ASSUME NEW e \in Events, MaySend(e)'
        PROVE  Remembered(e, life[e], item[e].age)'
    <3>1. /\ MaySend(e) /\ item[e].wait > 0 /\ item'[e].age = item[e].age + 1
      BY <1>2, <1>i, <2>0, <2>2, ItemAges, InUse DEF MaySend, Active, LifeInv
    <3>2. item[e].age < Window
      BY <3>1, MaySendInWindow
    <3>3. Remembered(e, life[e], item[e].age)
      BY <3>1 DEF Counted
    <3>4. counts[e][life[e]] > 0 => seen'[e] # None /\ seen'[e] <= item[e].age + 1
      BY <1>2, <1>i, <1>s, <3>1, <3>2, <3>3, WindowCovers
    <3> QED
      BY <2>0, <3>1, <3>4 DEF Remembered
  <2> QED
    BY <2>0, <2>1, <2>2 DEF Counted
<1>3. CASE Crash
  <2>1. /\ UNCHANGED <<cfg, life, wire, seen, counts>>
        /\ \A e \in Events : item'[e].stage \notin Active
    BY <1>3 DEF Crash, Outside, Active
  <2> QED
    BY <2>1 DEF Counted, MaySend, Remembered, Active
<1>4. ASSUME NEW s \in Settings, Start(s) PROVE Counted'
  <2>1. /\ UNCHANGED <<item, life, wire, seen, counts>>
        /\ \A e \in Events : item'[e].stage \notin Active
    BY <1>4 DEF Start, LifeInv, Living
  <2> QED
    BY <2>1 DEF Counted, MaySend, Remembered, Active
<1>5. ASSUME NEW e \in Events, Enqueue(e) PROVE Counted'
  <2>1. /\ UNCHANGED <<up, cfg, wire, seen, counts>>
        /\ \A x \in Events : x # e => item'[x] = item[x] /\ life'[x] = life[x]
        /\ life'[e] = life[e] + 1 /\ life[e] < MaxLives
    BY <1>5, ItemEnqueued
  <2>2. counts[e][life[e] + 1] = 0
    BY <1>0, <2>1, AttemptsAssumption DEF Counted
  <2>3. \A x \in Events, n \in 1..MaxLives : n > life'[x] => counts[x][n] = 0
    <3> SUFFICES ASSUME NEW x \in Events, NEW n \in 1..MaxLives, n > life'[x]
                 PROVE  counts[x][n] = 0
      OBVIOUS
    <3>1. n \in Nat /\ life[x] \in Nat
      BY <1>0, AttemptsAssumption
    <3>2. n > life[x]
      BY <2>1, <3>1
    <3> QED
      BY <3>2 DEF Counted
  <2>4. ASSUME NEW x \in Events, MaySend(x)'
        PROVE  Remembered(x, life[x], item[x].age)'
    <3>1. CASE x = e
      BY <2>1, <2>2, <3>1 DEF Remembered
    <3>2. CASE x # e
      BY <2>1, <2>4, <3>2 DEF Counted, MaySend, Remembered
    <3> QED
      BY <3>1, <3>2
  <2> QED
    BY <2>1, <2>3, <2>4 DEF Counted, Remembered
<1>6. ASSUME NEW e \in Events, RetryFires(e) PROVE Counted'
  <2>1. /\ UNCHANGED <<cfg, life, wire, seen, counts>>
        /\ \A x \in Events : x # e => item'[x] = item[x]
        /\ item[e].stage = "resting" /\ item'[e].age = item[e].age
    BY <1>0, <1>6 DEF RetryFires, Items
  <2>2. \A x \in Events : MaySend(x)' => MaySend(x) /\ item'[x].age = item[x].age
    BY <2>1 DEF MaySend
  <2> QED
    BY <2>1, <2>2 DEF Counted, Remembered
<1>7. ASSUME NEW B \in SUBSET Events, Send(B) PROVE Counted'
  <2>1. UNCHANGED <<cfg, life, seen, counts>>
    BY <1>7 DEF Send
  <2>2. \A x \in Events : MaySend(x)' => MaySend(x) /\ item'[x].age = item[x].age
    BY <1>7, <2>1, ItemSent DEF LifeInv, MaySend
  <2>3. ASSUME NEW m \in wire' PROVE Remembered(m.event, m.life, m.born)
    <3>1. CASE m \in wire
      BY <3>1 DEF Counted
    <3>2. CASE m \notin wire
      <4>1. PICK e \in B : m = Message(e)
        BY <1>7, <3>2 DEF Send
      <4>2. m.event = e /\ m.life = life[e] /\ m.born = item[e].age
        BY <4>1 DEF Message
      <4>3. MaySend(e)
        BY <1>7 DEF Send, In, MaySend
      <4> QED
        BY <4>2, <4>3 DEF Counted
    <3> QED
      BY <3>1, <3>2
  <2> QED
    BY <2>1, <2>2, <2>3 DEF Counted, Remembered
<1>8. ASSUME NEW B \in SUBSET Events, NEW answer \in Answers, Return(B, answer)
      PROVE Counted'
  <2>1. UNCHANGED <<cfg, life, wire, seen, counts>>
    BY <1>8 DEF Return
  <2>2. \A q \in Gone : q.stage \notin {"queued", "resting", "sending"}
    BY GoneIsItem DEF Active
  <2>3. \A x \in Events : MaySend(x)' => MaySend(x) /\ item'[x].age = item[x].age
    BY <1>8, <2>1, <2>2, Returned DEF MaySend
  <2> QED
    BY <2>1, <2>3 DEF Counted, Remembered
<1>9. ASSUME NEW m \in wire, Ingest(m) PROVE Counted'
  <2>1. UNCHANGED <<up, cfg, item, life>> /\ wire' = wire \ {m}
    BY <1>9 DEF Ingest
  <2>2. CASE seen[m.event] # None
    <3>1. UNCHANGED <<seen, counts>>
      BY <1>9, <2>2 DEF Ingest
    <3> QED
      BY <2>1, <3>1 DEF Counted, MaySend, Remembered
  <2>3. CASE seen[m.event] = None
    <3>1. /\ seen' = [seen EXCEPT ![m.event] = 0]
          /\ counts' = [counts EXCEPT ![m.event][m.life] = @ + 1]
      BY <1>9, <2>3 DEF Ingest
    <3>2. counts[m.event][m.life] = 0
      <4>1. ~(counts[m.event][m.life] > 0)
        BY <2>3 DEF Counted, Remembered
      <4>2. counts[m.event][m.life] \in Nat
        BY <1>0, <1>m
      <4> QED
        BY <4>1, <4>2
    <3>3. \A x \in Events, n \in 1..MaxLives :
            counts'[x][n] = IF x = m.event /\ n = m.life
                              THEN 1 ELSE counts[x][n]
      <4>1. m.event \in Events /\ m.life \in 1..MaxLives
        BY <1>m
      <4>c. counts \in [Events -> [1..MaxLives -> Nat]]
        BY <1>0
      <4>m. OneMore(counts', counts, m.event, m.life)
        BY <3>1 DEF OneMore
      <4>2. \A x \in Events, n \in 1..MaxLives :
              counts'[x][n] = IF x = m.event /\ n = m.life
                                THEN counts[x][n] + 1 ELSE counts[x][n]
        BY <4>1, <4>c, <4>m, CountAdded
      <4> QED
        BY <3>2, <4>2
    <3>4. /\ seen'[m.event] = 0 /\ 0 # None
          /\ \A x \in Events : x # m.event => seen'[x] = seen[x]
      BY <1>0, <1>m, <3>1 DEF None
    <3>5. ASSUME NEW x \in Events, NEW n \in 1..MaxLives, NEW b \in Nat,
                 Remembered(x, n, b)
          PROVE  Remembered(x, n, b)'
      BY <1>0, <1>m, <3>3, <3>4, <3>5 DEF Remembered
    <3>6. \A k \in wire' : Remembered(k.event, k.life, k.born)'
      BY <1>m, <2>1, <3>5 DEF Counted
    <3>7. ASSUME NEW x \in Events, MaySend(x)'
          PROVE  Remembered(x, life[x], item[x].age)'
      <4>1. MaySend(x)
        BY <2>1, <3>7 DEF MaySend
      <4>2. Remembered(x, life[x], item[x].age)
        BY <4>1 DEF Counted
      <4> QED
        BY <1>i, <1>s, <2>1, <3>5, <4>1, <4>2 DEF Remembered
    <3>8. \A x \in Events, n \in 1..MaxLives :
            counts'[x][n] <= 1 /\ (n > life'[x] => counts'[x][n] = 0)
      <4> SUFFICES ASSUME NEW x \in Events, NEW n \in 1..MaxLives
                   PROVE  /\ counts'[x][n] <= 1
                          /\ n > life'[x] => counts'[x][n] = 0
        OBVIOUS
      <4>1. CASE x = m.event /\ n = m.life
        <5>1. counts'[x][n] = 1 /\ n <= life[x]
          BY <3>3, <4>1 DEF WireInTime
        <5>2. n \in Nat /\ life[x] \in Nat
          BY <1>0, AttemptsAssumption
        <5> QED
          BY <2>1, <5>1, <5>2
      <4>2. CASE ~(x = m.event /\ n = m.life)
        BY <2>1, <3>3, <4>2 DEF Counted
      <4> QED
        BY <4>1, <4>2
    <3> QED
      BY <3>6, <3>7, <3>8 DEF Counted
  <2> QED
    BY <2>2, <2>3
<1> QED
  BY <1>1, <1>2, <1>3, <1>4, <1>5, <1>6, <1>7, <1>8, <1>9 DEF Next

\* CountedOncePerLife: a provider whose dedup window covers the age of the last
\* Send and the time a batch may take to reach it (AttemptsAssumption) counts no
\* life of an event twice, whichever of its attempts get through, in whichever
\* order, and although a batch may arrive after its Send has been given up.
\* Inductive is that, while anything of a counted life can still arrive, the
\* provider has its record, and that is no older than the life.
THEOREM CountedOnceHolds == Spec => []CountedOncePerLife
<1>1. Init => AttemptsInv
  <2> SUFFICES ASSUME Init PROVE AttemptsInv
    OBVIOUS
  <2>1. LifeInv
    BY InitLife
  <2>2. OnTime /\ WireInTime
    BY DEF Init, OnTime, WireInTime, Outside
  <2>3. Counted
    BY DEF Init, Counted, MaySend, Outside
  <2> QED
    BY <2>1, <2>2, <2>3 DEF AttemptsInv
<1>2. AttemptsInv /\ [Next]_vars => AttemptsInv'
  BY NextLife, NextOnTime, NextWire, NextCounted DEF AttemptsInv
<1>3. AttemptsInv => CountedOncePerLife
  BY DEF AttemptsInv, Counted, CountedOncePerLife
<1> QED
  BY <1>1, <1>2, <1>3, PTL DEF Spec
=============================================================================

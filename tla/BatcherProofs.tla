---------------------------- MODULE BatcherProofs ----------------------------
(* Theorems about a provider's batcher, for every queue capacity, batch size,  *)
(* number of concurrent flushes and set of items.                              *)
EXTENDS BatcherRefinement, Functions, FiniteSetTheorems, SequenceTheorems, TLAPS

-----------------------------------------------------------------------------
(* Invariants. *)

\* A holder of sem has something left to resolve, and run asks for sem only with
\* a batch in hand.
Holding ==
  /\ \A s \in Slots : flights[s].stage = "free" <=> flights[s].todo = <<>>
  /\ run \in {"acquire", "last"} => pending # <<>>

\* How full a batch is where run is; run leaves its select loop only to end.
Cut ==
  /\ run = "select" => Len(pending) < MaxBatch
  /\ run = "acquire" => Len(pending) <= MaxBatch
  /\ run \in {"drain", "last", "done"} => closing
  /\ BatchFitsUntilClose

\* Once Close has returned, nobody is left who could ack or record anything.
Quiet ==
  returned => closing /\ run = "done" /\ \A s \in Slots : flights[s] = Free

\* The places that an item can be at, a flight for each holder of sem, and
\* whether it is there.
Lobby == {"entering", "in", "pending", "timers", "accepted", "rejected", "unacked",
          "dropped"}

Rooms == (Lobby \X {0}) \cup ({"flight"} \X Slots)

At(x, r) ==
  CASE r[1] = "entering" -> x \in entering [] r[1] = "in" -> x \in Range(in)
    [] r[1] = "pending" -> x \in Range(pending) [] r[1] = "timers" -> x \in timers
    [] r[1] = "accepted" -> x \in accepted [] r[1] = "rejected" -> x \in rejected
    [] r[1] = "unacked" -> x \in unacked [] r[1] = "dropped" -> x \in dropped
    [] r[1] = "flight" -> x \in Range(flights[r[2]].todo)

\* Every item is at one place, once Enqueue was called for it.
Placed ==
  /\ \A x \in Items : \A q, r \in Rooms : At(x, q) /\ At(x, r) => q = r
  /\ \A x \in Items : x \in issued <=> \E r \in Rooms : At(x, r)

\* And it is there once.
Single ==
  /\ IsInjective(in) /\ IsInjective(pending)
  /\ \A s \in Slots : IsInjective(flights[s].todo)

\* An item is recorded in the DLQ, or failed to be, once, right before its ack.
BeingAcked(x) == \E s \in Slots : flights[s].stage = "ack" /\ Current(s) = x

Recorded ==
  /\ parked \cap unparked = {}
  /\ \A x \in Items : BeingAcked(x) => x \in parked \cup unparked
  /\ \A x \in parked \cup unparked : BeingAcked(x) \/ x \in rejected \cup unacked

ShapeInv == TypeOK /\ Holding /\ Cut /\ Quiet

PlaceInv == Placed /\ Single

-----------------------------------------------------------------------------
(* Types, and the size of batches. *)

\* What is left after the first.
LEMMA TailShape ==
  ASSUME NEW S, NEW s \in Seq(S), s # <<>>
  PROVE  /\ Tail(s) \in Seq(S) /\ Len(Tail(s)) = Len(s) - 1
         /\ Tail(s) = <<>> <=> Len(s) = 1
<1> DEFINE t == Tail(s)
<1>1. t \in Seq(S) /\ Len(t) = Len(s) - 1 /\ Len(s) \in Nat
  OBVIOUS
<1> HIDE DEF t
<1>2. t = <<>> <=> Len(t) = 0
  BY <1>1, EmptySeq
<1>3. t = <<>> <=> Len(s) = 1
  BY <1>1, <1>2
<1> QED BY <1>1, <1>3 DEF t

Flights == [stage : {"free", "resolve", "ack"}, todo : Seq(Items)]

\* A flush that is at an item has one.
LEMMA FlightTypes ==
  ASSUME ShapeInv, NEW s \in Slots
  PROVE  /\ flights[s] \in Flights /\ flights[s].todo \in Seq(Items)
         /\ flights[s].stage \in {"resolve", "ack"} =>
              /\ flights[s].todo # <<>> /\ Current(s) \in Items
              /\ Tail(flights[s].todo) \in Seq(Items)
              /\ Len(Tail(flights[s].todo)) = Len(flights[s].todo) - 1
<1>1. flights[s] \in Flights
  BY DEF ShapeInv, TypeOK, Flights
<1>2. flights[s].todo \in Seq(Items)
  BY <1>1 DEF Flights
<1>3. flights[s].stage \in {"resolve", "ack"} => flights[s].todo # <<>>
  BY DEF ShapeInv, Holding
<1> QED BY <1>1, <1>2, <1>3 DEF Current

\* What Advance leaves of a flight.
LEMMA AdvanceShape ==
  ASSUME ShapeInv, NEW s \in Slots, flights[s].stage \in {"resolve", "ack"},
         Advance(s)
  PROVE  /\ flights' \in [Slots -> Flights]
         /\ flights'[s].todo = Tail(flights[s].todo)
         /\ flights'[s].stage \in {"free", "resolve"}
         /\ flights'[s].stage = "free" <=> flights'[s].todo = <<>>
         /\ \A t \in Slots : t # s => flights'[t] = flights[t]
<1> DEFINE f == IF Len(flights[s].todo) = 1 THEN Free
                ELSE [stage |-> "resolve", todo |-> Tail(flights[s].todo)]
<1>1. flights \in [Slots -> Flights]
  BY DEF ShapeInv, TypeOK, Flights
<1>2. /\ flights[s].todo \in Seq(Items) /\ flights[s].todo # <<>>
      /\ Tail(flights[s].todo) \in Seq(Items)
  BY FlightTypes
<1>3. /\ f \in Flights /\ f.todo = Tail(flights[s].todo)
      /\ f.stage \in {"free", "resolve"} /\ (f.stage = "free" <=> f.todo = <<>>)
  <2> DEFINE q == flights[s].todo
             t == Tail(q)
  <2>1. CASE Len(q) = 1
    <3>1. t = <<>>
      BY <1>2, <2>1, TailShape
    <3> HIDE DEF t
    <3> QED BY <2>1, <3>1 DEF Free, Flights, t
  <2>2. CASE Len(q) # 1
    <3>1. t # <<>> /\ t \in Seq(Items)
      BY <1>2, <2>2, TailShape
    <3>2. f = [stage |-> "resolve", todo |-> t]
      BY <2>2
    <3> HIDE DEF t, f
    <3>3. f \in Flights /\ f.todo = t /\ f.stage = "resolve"
      BY <3>1, <3>2 DEF Flights
    <3> QED BY <3>1, <3>3 DEF t
  <2> QED BY <2>1, <2>2
<1>4. flights' = [flights EXCEPT ![s] = f]
  BY DEF Advance
<1> HIDE DEF f
<1> QED BY <1>1, <1>3, <1>4

\* The initial state.
LEMMA ShapeInit == Init => ShapeInv
<1> SUFFICES ASSUME Init PROVE ShapeInv
  OBVIOUS
<1> USE DEF Init, Free
<1>0. MaxBatch \in Nat /\ MaxBatch >= 1
  BY BatcherAssumption
<1>1. TypeOK
  <2>1. Free \in [stage : {"free", "resolve", "ack"}, todo : Seq(Items)]
    OBVIOUS
  <2>2. <<>> \in Seq(Items)
    OBVIOUS
  <2> HIDE DEF Free
  <2> QED BY <2>1, <2>2 DEF TypeOK, Stops
<1>2. Holding /\ Quiet
  BY DEF Holding, Quiet
<1>3. Cut
  BY <1>0 DEF Cut, BatchFitsUntilClose, BatchFits
<1> QED BY <1>1, <1>2, <1>3 DEF ShapeInv

\* A step of the queue: none of run, its batch, the flights and Close.
LEMMA ShapeOfQueueStep ==
  ASSUME ShapeInv, UNCHANGED <<runVars, flights, closeVars>>, TypeOK'
  PROVE  ShapeInv'
BY DEF ShapeInv, Holding, Cut, Quiet, BatchFitsUntilClose, BatchFits, runVars,
       closeVars

\* A step of flush s, that leaves less or as much to do.
LEMMA ShapeOfFlushStep ==
  ASSUME ShapeInv, UNCHANGED <<runVars, closeVars>>, TypeOK', NEW s \in Slots,
         flights[s] # Free, \A t \in Slots : t # s => flights'[t] = flights[t],
         flights'[s].stage = "free" <=> flights'[s].todo = <<>>,
         Len(flights'[s].todo) <= Len(flights[s].todo)
  PROVE  ShapeInv'
<1> USE DEF runVars, closeVars
<1>1. Holding' /\ Quiet'
  BY DEF ShapeInv, Holding, Quiet
<1>2. \A t \in Slots : Len(flights[t].todo) \in Nat /\ Len(flights'[t].todo) \in Nat
  BY DEF ShapeInv, TypeOK
<1>3. Cut'
  BY <1>2, BatcherAssumption DEF ShapeInv, Cut, BatchFitsUntilClose, BatchFits
<1> QED BY <1>1, <1>3 DEF ShapeInv

\* Every step keeps the types and the shape of batches.
LEMMA ShapeStep == ShapeInv /\ [Next]_vars => ShapeInv'
<1> USE DEF queueVars, timeVars, closeVars, ackVars, dlqVars
<1> SUFFICES ASSUME ShapeInv, [Next]_vars PROVE ShapeInv'
  OBVIOUS
<1>0. TypeOK /\ Holding /\ Cut /\ Quiet
  BY DEF ShapeInv
<1>a. MaxBatch \in Nat /\ MaxBatch >= 1
  BY BatcherAssumption
<1>b. flights \in [Slots -> Flights]
  BY <1>0 DEF TypeOK, Flights
<1>1. CASE UNCHANGED vars
  BY <1>0, <1>1, ShapeOfQueueStep DEF vars, TypeOK, runVars
<1>2. ASSUME NEW x \in Items,
             Enqueue(x) \/ Enter(x) \/ GiveUp(x) \/ RetryFires(x) \/ Expire(x)
      PROVE  ShapeInv'
  <2>1. UNCHANGED <<runVars, flights, closeVars>>
    BY <1>2 DEF Enqueue, Enter, GiveUp, RetryFires, Expire
  <2>2. TypeOK'
    <3> USE <1>0, <2>1 DEF TypeOK, runVars
    <3>1. CASE Enqueue(x)
      BY <3>1 DEF Enqueue
    <3>2. CASE Enter(x)
      BY <3>2 DEF Enter
    <3>3. CASE GiveUp(x)
      BY <3>3 DEF GiveUp
    <3>4. CASE RetryFires(x)
      BY <3>4 DEF RetryFires
    <3>5. CASE Expire(x)
      BY <3>5 DEF Expire
    <3> QED BY <1>2, <3>1, <3>2, <3>3, <3>4, <3>5
  <2> QED BY <2>1, <2>2, ShapeOfQueueStep
<1>3. ASSUME in # <<>>, pending' = Append(pending, Head(in)), in' = Tail(in),
             run' \in Stops,
             UNCHANGED <<entering, timers, dropped, flights, timeVars, closeVars,
                         ackVars, dlqVars>>
      PROVE  TypeOK' /\ Len(pending') = Len(pending) + 1 /\ pending' # <<>>
  <2>1. pending \in Seq(Items) /\ in \in Seq(Items)
    BY <1>0 DEF TypeOK
  <2>2. /\ pending' \in Seq(Items) /\ in' \in Seq(Items)
        /\ Len(pending') = Len(pending) + 1 /\ pending' # <<>>
    BY <1>3, <2>1
  <2> QED BY <1>0, <1>3, <2>2 DEF TypeOK
<1>4. CASE Receive
  <2>1. /\ TypeOK' /\ Len(pending') = Len(pending) + 1 /\ pending' # <<>>
        /\ Len(pending) \in Nat
    BY <1>0, <1>3, <1>4 DEF Receive, Stops, TypeOK
  <2>2. /\ run = "select" /\ UNCHANGED <<flights, closeVars>>
        /\ run' = IF Len(pending') >= MaxBatch THEN "acquire" ELSE "select"
    BY <1>4 DEF Receive
  <2>3. Holding' /\ Quiet'
    BY <1>0, <2>1, <2>2 DEF Holding, Quiet
  <2>4. Cut'
    BY <1>0, <1>a, <2>1, <2>2 DEF Cut, BatchFitsUntilClose, BatchFits
  <2> QED BY <2>1, <2>3, <2>4 DEF ShapeInv
<1>5. CASE Linger \/ SeeClose
  <2>1. UNCHANGED <<pending, flights, closeVars>> /\ run = "select"
        /\ ((run' = "acquire" /\ pending # <<>>) \/ (run' = "drain" /\ closing))
    BY <1>5 DEF Linger, SeeClose
  <2>2. TypeOK'
    BY <1>0, <1>5 DEF Linger, SeeClose, TypeOK, Stops
  <2>3. Holding' /\ Quiet'
    BY <1>0, <2>1 DEF Holding, Quiet
  <2>4. Len(pending) \in Nat
    BY <1>0 DEF TypeOK
  <2>5. Cut'
    BY <1>0, <1>a, <2>1, <2>4 DEF Cut, BatchFitsUntilClose, BatchFits
  <2> QED BY <2>2, <2>3, <2>5 DEF ShapeInv
<1>6. ASSUME NEW s \in Slots, StartFlush(s) PROVE ShapeInv'
  <2> DEFINE f == [stage |-> "resolve", todo |-> pending]
  <2>1. /\ run \in {"acquire", "last"} /\ pending' = <<>>
        /\ run' = (IF run = "acquire" THEN "select" ELSE "done")
        /\ flights' = [flights EXCEPT ![s] = f] /\ UNCHANGED closeVars
        /\ flights[s] = Free
    BY <1>6 DEF StartFlush
  <2>2. pending \in Seq(Items) /\ pending # <<>>
    BY <1>0, <2>1 DEF TypeOK, Holding
  <2>3. f \in Flights /\ f.stage # "free" /\ f.todo = pending
    BY <2>2 DEF Flights
  <2> HIDE DEF f
  <2>4. /\ flights' \in [Slots -> Flights] /\ flights'[s] = f
        /\ \A t \in Slots : t # s => flights'[t] = flights[t]
    BY <1>b, <2>1, <2>3
  <2>5. TypeOK'
    BY <1>0, <1>6, <2>1, <2>4 DEF StartFlush, TypeOK, Stops, Flights
  <2>6. Holding' /\ Quiet'
    BY <1>0, <2>1, <2>2, <2>3, <2>4 DEF Holding, Quiet
  <2>7. Cut'
    <3>1. ~closing => Len(pending) <= MaxBatch
      BY <1>0, <2>1 DEF Cut
    <3>2. ~closing' => \A t \in Slots : Len(flights'[t].todo) <= MaxBatch
      BY <1>0, <2>1, <2>3, <2>4, <3>1 DEF Cut, BatchFitsUntilClose, BatchFits
    <3> QED BY <1>0, <1>a, <2>1, <3>2 DEF Cut, BatchFitsUntilClose, BatchFits
  <2> QED BY <2>5, <2>6, <2>7 DEF ShapeInv
<1>7. CASE Drain
  <2>1. TypeOK' /\ (run' = "last" => pending' # <<>>)
    BY <1>0, <1>3, <1>7 DEF Drain, Stops, TypeOK
  <2>2. run = "drain" /\ run' \in {"drain", "last", "done"}
        /\ UNCHANGED <<flights, closeVars>>
    BY <1>7 DEF Drain
  <2>3. Holding' /\ Quiet'
    BY <1>0, <2>1, <2>2 DEF Holding, Quiet
  <2>4. Cut'
    BY <1>0, <2>2 DEF Cut, BatchFitsUntilClose, BatchFits
  <2> QED BY <2>1, <2>3, <2>4 DEF ShapeInv
<1>8. ASSUME NEW s \in Slots, Accept(s) \/ AckDeadLetter(s) \/ scheduleRetry(s)
      PROVE  ShapeInv'
  <2>1. flights[s].stage \in {"resolve", "ack"} /\ Advance(s)
        /\ UNCHANGED <<runVars, closeVars>>
    BY <1>8 DEF Accept, AckDeadLetter, scheduleRetry
  <2>2. /\ flights' \in [Slots -> Flights]
        /\ flights'[s].todo = Tail(flights[s].todo)
        /\ flights'[s].stage = "free" <=> flights'[s].todo = <<>>
        /\ \A t \in Slots : t # s => flights'[t] = flights[t]
    BY <2>1, AdvanceShape
  <2>3. Current(s) \in Items /\ Len(flights'[s].todo) <= Len(flights[s].todo)
    BY <2>1, <2>2, FlightTypes
  <2>4. TypeOK'
    BY <1>0, <1>8, <2>1, <2>2, <2>3
       DEF Accept, AckDeadLetter, scheduleRetry, TypeOK, Flights, runVars
  <2>5. flights[s] # Free
    BY <2>1 DEF Free
  <2> QED BY <2>1, <2>2, <2>3, <2>4, <2>5, ShapeOfFlushStep
<1>9. ASSUME NEW s \in Slots, DeadLetter(s) PROVE ShapeInv'
  <2>1. flights[s].stage = "resolve" /\ flights' = [flights EXCEPT ![s].stage = "ack"]
        /\ UNCHANGED <<runVars, closeVars>>
    BY <1>9 DEF DeadLetter
  <2>2. Current(s) \in Items /\ flights[s].todo # <<>>
    BY <2>1, FlightTypes
  <2>3. /\ flights' \in [Slots -> Flights] /\ flights'[s].todo = flights[s].todo
        /\ flights'[s].stage = "ack"
        /\ \A t \in Slots : t # s => flights'[t] = flights[t]
    BY <1>b, <2>1 DEF Flights
  <2>4. TypeOK'
    BY <1>0, <1>9, <2>1, <2>2, <2>3 DEF DeadLetter, TypeOK, Flights, runVars
  <2>5. flights[s] # Free /\ Len(flights'[s].todo) <= Len(flights[s].todo)
    BY <1>b, <2>1, <2>3 DEF Free, Flights
  <2> QED BY <2>1, <2>2, <2>3, <2>4, <2>5, ShapeOfFlushStep
<1>10. CASE Close
  BY <1>0, <1>10
     DEF Close, ShapeInv, TypeOK, Holding, Cut, Quiet, BatchFitsUntilClose, runVars
<1>11. CASE CloseReturns
  BY <1>0, <1>11
     DEF CloseReturns, ShapeInv, TypeOK, Holding, Cut, Quiet, BatchFitsUntilClose,
         BatchFits, runVars
<1> QED BY <1>1, <1>2, <1>4, <1>5, <1>6, <1>7, <1>8, <1>9, <1>10, <1>11
        DEF Next, Acquire, Flush

\* Invariance of ShapeInv.
LEMMA ShapeInvariant == Spec => []ShapeInv
<1> QED BY ShapeInit, ShapeStep, PTL DEF Spec

\* Type correctness of the batcher.
THEOREM TypeCorrect == Spec => []TypeOK
<1>1. ShapeInv => TypeOK
  BY DEF ShapeInv
<1> QED BY <1>1, ShapeInvariant, PTL

\* Until Close, no batch is larger than the provider takes, whatever retries,
\* linger timers and slow flushes do.
THEOREM BatchesFit == Spec => []BatchFitsUntilClose
<1>1. ShapeInv => BatchFitsUntilClose
  BY DEF ShapeInv, Cut
<1> QED BY <1>1, ShapeInvariant, PTL

\* Once Close has returned, the batcher writes neither an ack nor a DLQ record,
\* although retries may still fire and callers may still enqueue.
THEOREM CloseIsFinalHolds == Spec => CloseIsFinal
<1>1. ShapeInv /\ [Next]_vars => [returned => UNCHANGED <<ackVars, dlqVars>>]_vars
  <2> USE DEF ackVars, dlqVars
  <2> SUFFICES ASSUME ShapeInv, [Next]_vars, returned
               PROVE  UNCHANGED <<ackVars, dlqVars>>
    OBVIOUS
  <2>1. \A s \in Slots : flights[s].stage = "free"
    BY DEF ShapeInv, Quiet, Free
  <2>2. \A s \in Slots : ~Flush(s)
    BY <2>1 DEF Flush, Accept, DeadLetter, AckDeadLetter, scheduleRetry
  <2> QED BY <2>2
          DEF Next, vars, Enqueue, Enter, GiveUp, RetryFires, Expire, Receive, Linger,
              Acquire, StartFlush, SeeClose, Drain, Close, CloseReturns
<1> QED BY <1>1, ShapeInvariant, PTL DEF Spec, CloseIsFinal

-----------------------------------------------------------------------------
(* Every item is somewhere, once. *)

\* One element more at the end.
LEMMA AppendRange ==
  ASSUME NEW S, NEW s \in Seq(S), NEW x \in S
  PROVE  /\ Range(Append(s, x)) = Range(s) \cup {x}
         /\ IsInjective(s) /\ x \notin Range(s) => IsInjective(Append(s, x))
<1> DEFINE t == Append(s, x)
<1>1. /\ Len(s) \in Nat /\ DOMAIN s = 1..Len(s) /\ DOMAIN t = 1..(Len(s) + 1)
      /\ t[Len(s) + 1] = x /\ \A k \in 1..Len(s) : t[k] = s[k]
  OBVIOUS
<1> HIDE DEF t
<1>2. \A k \in DOMAIN t : k \in DOMAIN s \/ k = Len(s) + 1
  BY <1>1
<1>3. Range(t) = Range(s) \cup {x}
  BY <1>1, <1>2 DEF Range
<1>4. IsInjective(s) /\ x \notin Range(s) => IsInjective(t)
  BY <1>1, <1>2 DEF IsInjective, Range
<1> QED BY <1>3, <1>4 DEF t

\* One element less at the front.
LEMMA TailRange ==
  ASSUME NEW S, NEW s \in Seq(S), s # <<>>, IsInjective(s)
  PROVE  /\ Range(Tail(s)) = Range(s) \ {Head(s)} /\ Head(s) \in Range(s)
         /\ Head(s) \in S /\ IsInjective(Tail(s))
<1> DEFINE t == Tail(s)
<1>1. /\ Len(s) \in Nat /\ Len(s) >= 1 /\ DOMAIN s = 1..Len(s)
      /\ DOMAIN t = 1..(Len(s) - 1) /\ \A k \in DOMAIN t : t[k] = s[k + 1]
      /\ Head(s) = s[1] /\ Head(s) \in S
  BY EmptySeq
<1> HIDE DEF t
<1>2. ASSUME NEW k \in DOMAIN s, k # 1
      PROVE  k - 1 \in DOMAIN t /\ s[k] = t[k - 1]
  <2>1. k - 1 \in DOMAIN t /\ (k - 1) + 1 = k
    BY <1>1, <1>2
  <2> QED BY <1>1, <2>1
<1>3. \A k \in DOMAIN t : k + 1 \in DOMAIN s /\ k + 1 # 1
  BY <1>1
<1>4. IsInjective(t)
  BY <1>1, <1>3 DEF IsInjective
<1>5. \A k \in DOMAIN t : t[k] # Head(s)
  BY <1>1, <1>3 DEF IsInjective
<1>6. Head(s) \in Range(s)
  BY <1>1 DEF Range
<1>7. ASSUME NEW y \in Range(t) PROVE y \in Range(s) \ {Head(s)}
  BY <1>1, <1>3, <1>5 DEF Range
<1>8. ASSUME NEW y \in Range(s), y # Head(s) PROVE y \in Range(t)
  <2>1. PICK k \in DOMAIN s : y = s[k]
    BY DEF Range
  <2>2. k # 1
    BY <1>1, <1>8, <2>1
  <2> QED BY <1>2, <2>1, <2>2 DEF Range
<1> QED BY <1>1, <1>4, <1>6, <1>7, <1>8 DEF t

\* Nothing is anywhere.
LEMMA EmptyRange == Range(<<>>) = {} /\ IsInjective(<<>>)
BY DEF Range, IsInjective

\* The places have different names.
LEMMA RoomNames ==
  /\ \A n \in Lobby : <<n, 0>> \in Rooms
  /\ \A s \in Slots : <<"flight", s>> \in Rooms
  /\ \A r \in Rooms :
       \/ r \in {<<"entering", 0>>, <<"in", 0>>, <<"pending", 0>>, <<"timers", 0>>,
                 <<"accepted", 0>>, <<"rejected", 0>>, <<"unacked", 0>>,
                 <<"dropped", 0>>}
       \/ \E s \in Slots : r = <<"flight", s>>
BY DEF Rooms, Lobby

\* What being there means.
LEMMA AtRooms ==
  ASSUME NEW x
  PROVE  /\ At(x, <<"entering", 0>>) <=> x \in entering
         /\ At(x, <<"in", 0>>) <=> x \in Range(in)
         /\ At(x, <<"pending", 0>>) <=> x \in Range(pending)
         /\ At(x, <<"timers", 0>>) <=> x \in timers
         /\ At(x, <<"accepted", 0>>) <=> x \in accepted
         /\ At(x, <<"rejected", 0>>) <=> x \in rejected
         /\ At(x, <<"unacked", 0>>) <=> x \in unacked
         /\ At(x, <<"dropped", 0>>) <=> x \in dropped
         /\ \A s \in Slots : At(x, <<"flight", s>>) <=> x \in Range(flights[s].todo)
BY DEF At

\* The same after a step.
LEMMA AtRoomsNext ==
  ASSUME NEW x
  PROVE  /\ At(x, <<"entering", 0>>)' <=> x \in entering'
         /\ At(x, <<"in", 0>>)' <=> x \in Range(in')
         /\ At(x, <<"pending", 0>>)' <=> x \in Range(pending')
         /\ At(x, <<"timers", 0>>)' <=> x \in timers'
         /\ At(x, <<"accepted", 0>>)' <=> x \in accepted'
         /\ At(x, <<"rejected", 0>>)' <=> x \in rejected'
         /\ At(x, <<"unacked", 0>>)' <=> x \in unacked'
         /\ At(x, <<"dropped", 0>>)' <=> x \in dropped'
         /\ \A s \in Slots : At(x, <<"flight", s>>)' <=> x \in Range(flights'[s].todo)
BY DEF At

\* Item y goes from q to r, and nothing else moves.
Moves(y, q, r) ==
  \A x \in Items : \A t \in Rooms :
    At(x, t)' <=> (x = y /\ t = r) \/ (At(x, t) /\ ~(x = y /\ t = q))

LEMMA MovesPlaced ==
  ASSUME Placed, NEW y \in Items, NEW q \in Rooms, NEW r \in Rooms, At(y, q),
         Moves(y, q, r), issued' = issued
  PROVE  Placed'
BY DEF Placed, Moves

\* A move that no flight takes part in.
LEMMA LobbyMoves ==
  ASSUME NEW y \in Items, NEW m \in Lobby, NEW n \in Lobby, UNCHANGED flights,
         \A x \in Items : \A t \in Rooms : t[1] # "flight" =>
           (At(x, t)' <=> \/ x = y /\ t = <<n, 0>>
                          \/ At(x, t) /\ ~(x = y /\ t = <<m, 0>>))
  PROVE  Moves(y, <<m, 0>>, <<n, 0>>)
<1> SUFFICES ASSUME NEW x \in Items, NEW t \in Rooms
             PROVE  At(x, t)' <=> \/ x = y /\ t = <<n, 0>>
                                  \/ At(x, t) /\ ~(x = y /\ t = <<m, 0>>)
  BY DEF Moves
<1>1. CASE t[1] # "flight"
  BY <1>1
<1>2. CASE t[1] = "flight"
  <2>1. PICK s \in Slots : t = <<"flight", s>>
    BY <1>2 DEF Rooms, Lobby
  <2>2. t # <<n, 0>> /\ t # <<m, 0>>
    BY <2>1 DEF Lobby
  <2>3. At(x, t)' <=> At(x, t)
    BY <2>1, AtRooms, AtRoomsNext
  <2> QED BY <2>2, <2>3
<1> QED BY <1>1, <1>2

\* The initial state.
LEMMA PlaceInit == Init => PlaceInv
<1> SUFFICES ASSUME Init PROVE PlaceInv
  OBVIOUS
<1>1. Single
  BY EmptyRange DEF Init, Single, Free
<1>2. \A x \in Items : \A r \in Rooms : ~At(x, r)
  <2>1. \A s \in Slots : flights[s].todo = <<>>
    BY DEF Init, Free
  <2>2. /\ in = <<>> /\ pending = <<>> /\ entering = {} /\ timers = {} /\ accepted = {}
        /\ rejected = {} /\ unacked = {} /\ dropped = {}
    BY DEF Init
  <2> SUFFICES ASSUME NEW x \in Items, NEW r \in Rooms PROVE ~At(x, r)
    OBVIOUS
  <2>3. CASE \E s \in Slots : r = <<"flight", s>>
    BY <2>1, <2>3, EmptyRange, AtRooms
  <2>4. CASE r \in {<<"entering", 0>>, <<"in", 0>>, <<"pending", 0>>, <<"timers", 0>>}
    BY <2>2, <2>4, EmptyRange, AtRooms
  <2>5. CASE r \in {<<"accepted", 0>>, <<"rejected", 0>>, <<"unacked", 0>>,
                    <<"dropped", 0>>}
    BY <2>2, <2>5, AtRooms
  <2> QED BY <2>3, <2>4, <2>5, RoomNames
<1> QED BY <1>1, <1>2 DEF PlaceInv, Placed, Init

\* What a flush leaves behind of its batch.
LEMMA AdvanceRange ==
  ASSUME ShapeInv, Single, NEW s \in Slots, flights[s].stage \in {"resolve", "ack"},
         Advance(s)
  PROVE  /\ Current(s) \in Items /\ Current(s) \in Range(flights[s].todo)
         /\ Range(flights'[s].todo) = Range(flights[s].todo) \ {Current(s)}
         /\ \A t \in Slots : t # s => flights'[t] = flights[t]
         /\ \A t \in Slots : IsInjective(flights'[t].todo)
<1>1. flights[s].todo \in Seq(Items) /\ flights[s].todo # <<>>
  BY FlightTypes
<1>2. IsInjective(flights[s].todo)
  BY DEF Single
<1>3. /\ flights'[s].todo = Tail(flights[s].todo)
      /\ \A t \in Slots : t # s => flights'[t] = flights[t]
  BY AdvanceShape
<1>4. /\ Current(s) \in Items /\ Current(s) \in Range(flights[s].todo)
      /\ Range(flights'[s].todo) = Range(flights[s].todo) \ {Current(s)}
      /\ IsInjective(flights'[s].todo)
  BY <1>1, <1>2, <1>3, TailRange DEF Current
<1> QED BY <1>3, <1>4 DEF Single

\* The current item of a flush goes on to r.
LEMMA FlushPlaced ==
  ASSUME ShapeInv, PlaceInv, NEW s \in Slots, flights[s].stage \in {"resolve", "ack"},
         Advance(s), UNCHANGED <<in, pending, issued>>,
         NEW r \in Rooms, r[1] # "flight",
         \A x \in Items : \A t \in Rooms : t[1] # "flight" =>
           (At(x, t)' <=> (x = Current(s) /\ t = r) \/ At(x, t))
  PROVE  PlaceInv'
<1>0. Placed /\ Single
  BY DEF PlaceInv
<1>1. /\ Current(s) \in Items /\ Current(s) \in Range(flights[s].todo)
      /\ Range(flights'[s].todo) = Range(flights[s].todo) \ {Current(s)}
      /\ \A t \in Slots : t # s => flights'[t] = flights[t]
      /\ \A t \in Slots : IsInjective(flights'[t].todo)
  BY <1>0, AdvanceRange
<1>2. Single'
  BY <1>0, <1>1 DEF Single
<1>3. <<"flight", s>> \in Rooms /\ At(Current(s), <<"flight", s>>)
  BY <1>1, RoomNames, AtRooms DEF Lobby
<1>4. ASSUME NEW x \in Items, NEW t \in Slots
      PROVE  At(x, <<"flight", t>>)' <=>
               At(x, <<"flight", t>>) /\ ~(x = Current(s) /\ t = s)
  BY <1>1, AtRooms, AtRoomsNext
<1>5. ASSUME NEW x \in Items, NEW t \in Rooms
      PROVE  At(x, t)' <=> \/ x = Current(s) /\ t = r
                           \/ At(x, t) /\ ~(x = Current(s) /\ t = <<"flight", s>>)
  <2>1. CASE t[1] # "flight"
    BY <2>1
  <2>2. CASE t[1] = "flight"
    <3>1. PICK u \in Slots : t = <<"flight", u>>
      BY <2>2, RoomNames
    <3> QED BY <1>4, <3>1
  <2> QED BY <2>1, <2>2
<1> DEFINE c == Current(s)
<1>6. c \in Items /\ At(c, <<"flight", s>>) /\ Moves(c, <<"flight", s>>, r)
  BY <1>1, <1>3, <1>5 DEF Moves
<1> HIDE DEF c
<1>7. Placed'
  BY <1>0, <1>3, <1>6, MovesPlaced
<1> QED BY <1>2, <1>7 DEF PlaceInv

\* Every step keeps every item at one place.
LEMMA PlaceStep == ShapeInv /\ PlaceInv /\ [Next]_vars => PlaceInv'
<1> USE DEF queueVars, runVars, timeVars, closeVars, ackVars, dlqVars
<1> SUFFICES ASSUME ShapeInv, PlaceInv, [Next]_vars PROVE PlaceInv'
  OBVIOUS
<1>0. Placed /\ Single /\ TypeOK
  BY DEF PlaceInv, ShapeInv
<1>a. ASSUME UNCHANGED <<entering, in, pending, timers, accepted, rejected, unacked,
                         dropped, flights>>
      PROVE  Single' /\ \A x \in Items : \A r \in Rooms : At(x, r)' <=> At(x, r)
  BY <1>0, <1>a DEF Single, At
<1>1. CASE UNCHANGED vars
  BY <1>0, <1>1, <1>a DEF vars, PlaceInv, Placed
<1>2. ASSUME NEW y \in Items, Enqueue(y) PROVE PlaceInv'
  <2>1. /\ y \notin issued /\ issued' = issued \cup {y}
        /\ entering' = entering \cup {y}
        /\ UNCHANGED <<in, pending, timers, accepted, rejected, unacked, dropped,
                       flights>>
    BY <1>2 DEF Enqueue
  <2>2. <<"entering", 0>> \in Rooms
    BY RoomNames DEF Lobby
  <2>3. ASSUME NEW x \in Items, NEW t \in Rooms
        PROVE  At(x, t)' <=> (x = y /\ t = <<"entering", 0>>) \/ At(x, t)
    BY <2>1, RoomNames, AtRooms, AtRoomsNext
  <2>4. Placed'
    BY <1>0, <2>1, <2>2, <2>3 DEF Placed
  <2>5. Single'
    BY <1>0, <2>1 DEF Single
  <2> QED BY <2>4, <2>5 DEF PlaceInv
<1>3. ASSUME NEW y \in Items, Enter(y) PROVE PlaceInv'
  <2>1. /\ y \in entering /\ entering' = entering \ {y} /\ in' = Append(in, y)
        /\ UNCHANGED <<issued, pending, timers, accepted, rejected, unacked, dropped,
                       flights>>
    BY <1>3 DEF Enter
  <2>2. /\ <<"entering", 0>> \in Rooms /\ <<"in", 0>> \in Rooms
        /\ At(y, <<"entering", 0>>)
    BY <2>1, RoomNames, AtRooms DEF Lobby
  <2>3. y \notin Range(in)
    BY <1>0, <2>2, AtRooms DEF Placed
  <2>4. Range(in') = Range(in) \cup {y} /\ IsInjective(in')
    BY <1>0, <2>1, <2>3, AppendRange DEF TypeOK, Single
  <2>5. ASSUME NEW x \in Items, NEW t \in Rooms, t[1] # "flight"
        PROVE  At(x, t)' <=> \/ x = y /\ t = <<"in", 0>>
                             \/ At(x, t) /\ ~(x = y /\ t = <<"entering", 0>>)
    <3>1. CASE t \in {<<"entering", 0>>, <<"in", 0>>}
      BY <2>1, <2>4, <2>5, <3>1, AtRooms, AtRoomsNext
    <3>2. CASE t \in {<<"pending", 0>>, <<"timers", 0>>}
      BY <2>1, <2>4, <2>5, <3>2, AtRooms, AtRoomsNext
    <3>3. CASE t \in {<<"accepted", 0>>, <<"rejected", 0>>, <<"unacked", 0>>,
                     <<"dropped", 0>>}
      BY <2>1, <2>4, <2>5, <3>3, AtRooms, AtRoomsNext
    <3> QED BY <2>5, <3>1, <3>2, <3>3, RoomNames
  <2>6. Moves(y, <<"entering", 0>>, <<"in", 0>>)
    BY <2>1, <2>5, LobbyMoves DEF Lobby
  <2>7. Placed'
    BY <1>0, <2>1, <2>2, <2>6, MovesPlaced
  <2>8. Single'
    BY <1>0, <2>1, <2>4 DEF Single
  <2> QED BY <2>7, <2>8 DEF PlaceInv
<1>4. ASSUME NEW y \in Items, GiveUp(y) PROVE PlaceInv'
  <2>1. /\ y \in entering /\ entering' = entering \ {y} /\ dropped' = dropped \cup {y}
        /\ UNCHANGED <<issued, in, pending, timers, accepted, rejected, unacked,
                       flights>>
    BY <1>4 DEF GiveUp
  <2>2. /\ <<"entering", 0>> \in Rooms /\ <<"dropped", 0>> \in Rooms
        /\ At(y, <<"entering", 0>>)
    BY <2>1, RoomNames, AtRooms DEF Lobby
  <2>3. ASSUME NEW x \in Items, NEW t \in Rooms, t[1] # "flight"
        PROVE  At(x, t)' <=> \/ x = y /\ t = <<"dropped", 0>>
                             \/ At(x, t) /\ ~(x = y /\ t = <<"entering", 0>>)
    BY <2>1, <2>3, RoomNames, AtRooms, AtRoomsNext
  <2>4. Moves(y, <<"entering", 0>>, <<"dropped", 0>>)
    BY <2>1, <2>3, LobbyMoves DEF Lobby
  <2>5. Placed'
    BY <1>0, <2>1, <2>2, <2>4, MovesPlaced
  <2>6. Single'
    BY <1>0, <2>1 DEF Single
  <2> QED BY <2>5, <2>6 DEF PlaceInv
<1>5. ASSUME NEW y \in Items, RetryFires(y) PROVE PlaceInv'
  <2>1. /\ y \in timers /\ timers' = timers \ {y} /\ entering' = entering \cup {y}
        /\ UNCHANGED <<issued, in, pending, dropped, accepted, rejected, unacked,
                       flights>>
    BY <1>5 DEF RetryFires
  <2>2. /\ <<"entering", 0>> \in Rooms /\ <<"timers", 0>> \in Rooms
        /\ At(y, <<"timers", 0>>)
    BY <2>1, RoomNames, AtRooms DEF Lobby
  <2>3. ASSUME NEW x \in Items, NEW t \in Rooms, t[1] # "flight"
        PROVE  At(x, t)' <=> \/ x = y /\ t = <<"entering", 0>>
                             \/ At(x, t) /\ ~(x = y /\ t = <<"timers", 0>>)
    BY <2>1, <2>3, RoomNames, AtRooms, AtRoomsNext
  <2>4. Moves(y, <<"timers", 0>>, <<"entering", 0>>)
    BY <2>1, <2>3, LobbyMoves DEF Lobby
  <2>5. Placed'
    BY <1>0, <2>1, <2>2, <2>4, MovesPlaced
  <2>6. Single'
    BY <1>0, <2>1 DEF Single
  <2> QED BY <2>5, <2>6 DEF PlaceInv
<1>6. ASSUME \/ Linger \/ SeeClose \/ Close \/ CloseReturns
             \/ \E y \in Items : Expire(y)
      PROVE  PlaceInv'
  <2>1. UNCHANGED <<entering, in, pending, timers, accepted, rejected, unacked, dropped,
                    flights, issued>>
    BY <1>6 DEF Linger, SeeClose, Close, CloseReturns, Expire
  <2> QED BY <1>0, <1>a, <2>1 DEF PlaceInv, Placed
<1>7. ASSUME Receive \/ (Drain /\ in # <<>>) PROVE PlaceInv'
  <2> DEFINE y == Head(in)
  <2>1. /\ in # <<>> /\ pending' = Append(pending, y) /\ in' = Tail(in)
        /\ UNCHANGED <<issued, entering, timers, dropped, accepted, rejected, unacked,
                       flights>>
    BY <1>7 DEF Receive, Drain
  <2>2. /\ Range(in') = Range(in) \ {y} /\ y \in Range(in) /\ y \in Items
        /\ IsInjective(in')
    BY <1>0, <2>1, TailRange DEF TypeOK, Single
  <2> HIDE DEF y
  <2>3. /\ <<"in", 0>> \in Rooms /\ <<"pending", 0>> \in Rooms
        /\ At(y, <<"in", 0>>)
    BY <2>2, RoomNames, AtRooms DEF Lobby
  <2>4. y \notin Range(pending)
    BY <1>0, <2>2, <2>3, AtRooms DEF Placed
  <2>5. Range(pending') = Range(pending) \cup {y} /\ IsInjective(pending')
    BY <1>0, <2>1, <2>2, <2>4, AppendRange DEF TypeOK, Single
  <2>6. ASSUME NEW x \in Items, NEW t \in Rooms, t[1] # "flight"
        PROVE  At(x, t)' <=> \/ x = y /\ t = <<"pending", 0>>
                             \/ At(x, t) /\ ~(x = y /\ t = <<"in", 0>>)
    <3>1. CASE t = <<"in", 0>>
      <4>1. (At(x, t) <=> x \in Range(in)) /\ (At(x, t)' <=> x \in Range(in'))
        BY <3>1, AtRooms, AtRoomsNext
      <4> QED BY <2>2, <3>1, <4>1
    <3>2. CASE t = <<"pending", 0>>
      <4>1. /\ At(x, t) <=> x \in Range(pending)
            /\ At(x, t)' <=> x \in Range(pending')
        BY <3>2, AtRooms, AtRoomsNext
      <4> QED BY <2>5, <3>2, <4>1
    <3>3. CASE t \in {<<"entering", 0>>, <<"timers", 0>>, <<"accepted", 0>>,
                     <<"rejected", 0>>, <<"unacked", 0>>, <<"dropped", 0>>}
      <4>1. At(x, t)' <=> At(x, t)
        BY <2>1, <3>3, AtRooms, AtRoomsNext
      <4>2. t # <<"in", 0>> /\ t # <<"pending", 0>>
        BY <3>3
      <4> QED BY <4>1, <4>2
    <3> QED BY <2>6, <3>1, <3>2, <3>3, RoomNames
  <2>7. Moves(y, <<"in", 0>>, <<"pending", 0>>)
    BY <2>1, <2>2, <2>6, LobbyMoves DEF Lobby
  <2>8. Placed'
    BY <1>0, <2>1, <2>2, <2>3, <2>7, MovesPlaced
  <2>9. Single'
    BY <1>0, <2>1, <2>2, <2>5 DEF Single
  <2> QED BY <2>8, <2>9 DEF PlaceInv
<1>8. CASE Drain /\ in = <<>>
  <2>1. UNCHANGED <<entering, in, pending, timers, accepted, rejected, unacked, dropped,
                    flights, issued>>
    BY <1>8 DEF Drain
  <2> QED BY <1>0, <1>a, <2>1 DEF PlaceInv, Placed
<1>9. ASSUME NEW s \in Slots, StartFlush(s) PROVE PlaceInv'
  <2>1. /\ flights[s] = Free /\ pending' = <<>>
        /\ flights' = [flights EXCEPT ![s] = [stage |-> "resolve", todo |-> pending]]
        /\ UNCHANGED <<issued, in, entering, timers, dropped, accepted, rejected,
                       unacked>>
    BY <1>9 DEF StartFlush
  <2>2. /\ flights'[s].todo = pending /\ flights[s].todo = <<>>
        /\ \A t \in Slots : t # s => flights'[t] = flights[t]
    BY <1>0, <2>1 DEF TypeOK, Free
  <2>3. Single'
    BY <1>0, <2>1, <2>2, EmptyRange DEF Single
  <2>4. ASSUME NEW x \in Items, NEW t \in Rooms
        PROVE  At(x, t)' <=>
                 IF t = <<"flight", s>> THEN At(x, <<"pending", 0>>)
                 ELSE IF t = <<"pending", 0>> THEN FALSE ELSE At(x, t)
    <3>1. CASE \E u \in Slots : t = <<"flight", u>>
      <4>1. PICK u \in Slots : t = <<"flight", u>>
        BY <3>1
      <4>2. <<"flight", u>> # <<"in", 0>> /\ <<"flight", u>> # <<"entering", 0>>
            /\ <<"flight", u>> # <<"dropped", 0>> /\ <<"flight", u>> # <<"timers", 0>>
            /\ <<"flight", u>> # <<"pending", 0>>
        OBVIOUS
      <4> QED BY <2>1, <2>2, EmptyRange, <4>1, <4>2, AtRooms, AtRoomsNext
    <3>2. CASE t \in {<<"entering", 0>>, <<"in", 0>>, <<"pending", 0>>, <<"timers", 0>>}
      BY <2>1, <2>2, EmptyRange, <3>2, AtRooms, AtRoomsNext
    <3>3. CASE t \in {<<"accepted", 0>>, <<"rejected", 0>>, <<"unacked", 0>>, <<"dropped", 0>>}
      BY <2>1, <2>2, EmptyRange, <3>3, AtRooms, AtRoomsNext
    <3> QED BY <3>1, <3>2, <3>3, RoomNames
  <2>5. <<"flight", s>> \in Rooms /\ <<"pending", 0>> \in Rooms
    BY RoomNames DEF Lobby
  <2>6. \A x \in Items : ~At(x, <<"flight", s>>)
    BY <2>2, EmptyRange, AtRooms
  <2>7. Placed'
    <3>1. ASSUME NEW x \in Items, NEW q \in Rooms, NEW r \in Rooms,
                 At(x, q)', At(x, r)'
          PROVE  q = r
      BY <1>0, <2>4, <2>5, <3>1 DEF Placed
    <3>2. ASSUME NEW x \in Items PROVE x \in issued' <=> \E r \in Rooms : At(x, r)'
      <4>1. (\E r \in Rooms : At(x, r)') <=> (\E r \in Rooms : At(x, r))
        BY <2>4, <2>5, <2>6
      <4> QED BY <1>0, <2>1, <4>1 DEF Placed
    <3> QED BY <3>1, <3>2 DEF Placed
  <2> QED BY <2>3, <2>7 DEF PlaceInv
<1>10. ASSUME NEW s \in Slots, Accept(s) \/ AckDeadLetter(s) \/ scheduleRetry(s)
       PROVE  PlaceInv'
  <2>1. /\ flights[s].stage \in {"resolve", "ack"} /\ Advance(s)
        /\ UNCHANGED <<issued, in, pending, entering, dropped>>
        /\ \/ accepted' = accepted \cup {Current(s)}
              /\ UNCHANGED <<rejected, unacked, timers>>
           \/ rejected' = rejected \cup {Current(s)}
              /\ UNCHANGED <<accepted, unacked, timers>>
           \/ unacked' = unacked \cup {Current(s)}
              /\ UNCHANGED <<accepted, rejected, timers>>
           \/ timers' = timers \cup {Current(s)}
              /\ UNCHANGED <<accepted, rejected, unacked>>
    BY <1>10 DEF Accept, AckDeadLetter, scheduleRetry
  <2>2. \E n \in {"accepted", "rejected", "unacked", "timers"} :
          \A x \in Items : \A t \in Rooms : t[1] # "flight" =>
            (At(x, t)' <=> (x = Current(s) /\ t = <<n, 0>>) \/ At(x, t))
    BY <2>1, RoomNames, AtRooms, AtRoomsNext
  <2>3. PICK n \in {"accepted", "rejected", "unacked", "timers"} :
          \A x \in Items : \A t \in Rooms : t[1] # "flight" =>
            (At(x, t)' <=> (x = Current(s) /\ t = <<n, 0>>) \/ At(x, t))
    BY <2>2
  <2> DEFINE r == <<n, 0>>
  <2>4. r \in Rooms /\ r[1] # "flight"
    BY RoomNames DEF Lobby
  <2> HIDE DEF r
  <2> QED BY <2>1, <2>3, <2>4, FlushPlaced DEF r
<1>11. ASSUME NEW s \in Slots, DeadLetter(s) PROVE PlaceInv'
  <2>1. /\ UNCHANGED <<entering, in, pending, timers, accepted, rejected, unacked,
                       dropped, issued>>
        /\ \A t \in Slots : flights'[t].todo = flights[t].todo
    BY <1>0, <1>11 DEF DeadLetter, TypeOK
  <2>2. Single'
    BY <1>0, <2>1 DEF Single
  <2>3. \A x \in Items : \A r \in Rooms : At(x, r)' <=> At(x, r)
    BY <2>1 DEF At, Rooms, Lobby
  <2> QED BY <1>0, <2>1, <2>2, <2>3 DEF PlaceInv, Placed
<1> QED BY <1>1, <1>2, <1>3, <1>4, <1>5, <1>6, <1>7, <1>8, <1>9, <1>10, <1>11
        DEF Next, Acquire, Flush

\* Invariance of PlaceInv.
LEMMA PlaceInvariant == Spec => []PlaceInv
<1> QED BY PlaceInit, PlaceStep, ShapeInvariant, PTL DEF Spec

\* An element of a sequence without repetitions is at one position of it.
LEMMA OnePosition ==
  ASSUME NEW S, NEW s \in Seq(S), IsInjective(s), NEW x
  PROVE  /\ x \in Range(s) => \E k : {j \in DOMAIN s : s[j] = x} = {k}
         /\ x \notin Range(s) => {j \in DOMAIN s : s[j] = x} = {}
BY DEF Range, IsInjective

\* No item is lost or doubled on its way through the queue, the batches, the
\* concurrent flushes and the retry timers, nor by Close, for any capacity, batch
\* size and number of flushes.
THEOREM NothingLostHolds == Spec => []NothingLost
<1>1. ShapeInv /\ PlaceInv => NothingLost
  <2> SUFFICES ASSUME ShapeInv, PlaceInv, NEW x \in issued
               PROVE  Cardinality(Spots(x)) = 1
    BY DEF NothingLost
  <2>0. /\ x \in Items /\ in \in Seq(Items) /\ pending \in Seq(Items)
        /\ \A s \in Slots : flights[s].todo \in Seq(Items)
    BY DEF ShapeInv, TypeOK
  <2>1. PICK r \in Rooms : At(x, r)
    BY <2>0 DEF PlaceInv, Placed
  <2>2. \A q \in Rooms : At(x, q) => q = r
    BY <2>0, <2>1 DEF PlaceInv, Placed
  <2> DEFINE I == {j \in DOMAIN in : in[j] = x}
             P == {j \in DOMAIN pending : pending[j] = x}
             F(s) == {j \in DOMAIN flights[s].todo : flights[s].todo[j] = x}
             N == {n \in {"entering", "timer", "accepted", "rejected", "unacked",
                          "dropped"} :
                     CASE n = "entering" -> x \in entering
                       [] n = "timer" -> x \in timers
                       [] n = "accepted" -> x \in accepted
                       [] n = "rejected" -> x \in rejected
                       [] n = "unacked"  -> x \in unacked
                       [] n = "dropped"  -> x \in dropped}
             A == {<<"in", k>> : k \in I}
             B == {<<"pending", k>> : k \in P}
             C == UNION {{<<"flight", s, k>> : k \in F(s)} : s \in Slots}
             D == {<<n>> : n \in N}
  <2>3. Spots(x) = A \cup B \cup C \cup D
    BY DEF Spots
  <2>4. /\ x \in Range(in) => \E k : I = {k}
        /\ x \notin Range(in) => I = {}
        /\ x \in Range(pending) => \E k : P = {k}
        /\ x \notin Range(pending) => P = {}
    <3>1. /\ x \in Range(in) => \E k : I = {k}
          /\ x \notin Range(in) => I = {}
      BY <2>0, OnePosition DEF PlaceInv, Single
    <3>2. /\ x \in Range(pending) => \E k : P = {k}
          /\ x \notin Range(pending) => P = {}
      BY <2>0, OnePosition DEF PlaceInv, Single
    <3> QED BY <3>1, <3>2
  <2>a. ASSUME NEW s \in Slots
        PROVE  /\ x \in Range(flights[s].todo) => \E k : F(s) = {k}
               /\ x \notin Range(flights[s].todo) => F(s) = {}
    <3>1. flights[s].todo \in Seq(Items) /\ IsInjective(flights[s].todo)
      BY <2>0 DEF PlaceInv, Single
    <3> QED BY <3>1, OnePosition
  <2>5. /\ "entering" \in N <=> x \in entering
        /\ "timer" \in N <=> x \in timers
        /\ "accepted" \in N <=> x \in accepted
        /\ "rejected" \in N <=> x \in rejected
        /\ "unacked" \in N <=> x \in unacked
        /\ "dropped" \in N <=> x \in dropped
    OBVIOUS
  <2>6. N \subseteq {"entering", "timer", "accepted", "rejected", "unacked", "dropped"}
    OBVIOUS
  <2> HIDE DEF I, P, F, N
  <2>b. /\ x \in Range(in) <=> r = <<"in", 0>>
        /\ x \in Range(pending) <=> r = <<"pending", 0>>
        /\ \A s \in Slots : x \in Range(flights[s].todo) <=> r = <<"flight", s>>
    BY <2>1, <2>2, AtRooms, RoomNames DEF Lobby
  <2>c. /\ "entering" \in N <=> r = <<"entering", 0>>
        /\ "timer" \in N <=> r = <<"timers", 0>>
        /\ "accepted" \in N <=> r = <<"accepted", 0>>
        /\ "rejected" \in N <=> r = <<"rejected", 0>>
        /\ "unacked" \in N <=> r = <<"unacked", 0>>
        /\ "dropped" \in N <=> r = <<"dropped", 0>>
    BY <2>1, <2>2, <2>5, AtRooms, RoomNames DEF Lobby
  <2>7. \E z : Spots(x) = {z}
    <3>1. CASE r = <<"in", 0>>
      <4>1. x \in Range(in) /\ x \notin Range(pending) /\ N = {}
            /\ \A s \in Slots : x \notin Range(flights[s].todo)
        BY <2>6, <2>b, <2>c, <3>1
      <4>2. PICK k : I = {k}
        BY <2>4, <2>a, <4>1
      <4>3. P = {} /\ \A s \in Slots : F(s) = {}
        BY <2>4, <2>a, <4>1
      <4>4. Spots(x) = {<<"in", k>>}
        BY <2>3, <4>1, <4>2, <4>3
      <4> QED BY <4>4
    <3>2. CASE r = <<"pending", 0>>
      <4>1. x \notin Range(in) /\ x \in Range(pending) /\ N = {}
            /\ \A s \in Slots : x \notin Range(flights[s].todo)
        BY <2>6, <2>b, <2>c, <3>2
      <4>2. PICK k : P = {k}
        BY <2>4, <2>a, <4>1
      <4>3. I = {} /\ \A s \in Slots : F(s) = {}
        BY <2>4, <2>a, <4>1
      <4>4. Spots(x) = {<<"pending", k>>}
        BY <2>3, <4>1, <4>2, <4>3
      <4> QED BY <4>4
    <3>3. ASSUME NEW s \in Slots, r = <<"flight", s>> PROVE \E z : Spots(x) = {z}
      <4>1. x \notin Range(in) /\ x \notin Range(pending) /\ N = {}
            /\ x \in Range(flights[s].todo)
        BY <2>6, <2>b, <2>c, <3>3
      <4>2. \A t \in Slots : t # s => x \notin Range(flights[t].todo)
        BY <2>b, <3>3
      <4>3. PICK k : F(s) = {k}
        BY <2>4, <2>a, <4>1
      <4>4. I = {} /\ P = {} /\ \A t \in Slots : t # s => F(t) = {}
        BY <2>4, <2>a, <4>1, <4>2
      <4>5. Spots(x) = {<<"flight", s, k>>}
        <5>1. UNION {{<<"flight", t, i>> : i \in F(t)} : t \in Slots} =
                {<<"flight", s, k>>}
          BY <4>3, <4>4
        <5> QED BY <2>3, <4>1, <4>4, <5>1
      <4> QED BY <4>5
    <3>4. CASE r \in {<<"entering", 0>>, <<"timers", 0>>, <<"accepted", 0>>,
                      <<"rejected", 0>>, <<"unacked", 0>>, <<"dropped", 0>>}
      <4>1. x \notin Range(in) /\ x \notin Range(pending)
            /\ \A s \in Slots : x \notin Range(flights[s].todo)
        BY <2>b, <3>4
      <4>2. \E n : N = {n}
        <5>1. ASSUME NEW m \in N, NEW n \in N PROVE m = n
          BY <2>6, <2>c
        <5>2. N # {}
          BY <2>c, <3>4
        <5> QED BY <5>1, <5>2
      <4>3. PICK n : N = {n}
        BY <4>2
      <4>4. I = {} /\ P = {} /\ \A s \in Slots : F(s) = {}
        BY <2>4, <2>a, <4>1
      <4>5. Spots(x) = {<<n>>}
        <5>1. A = {} /\ B = {} /\ C = {} /\ D = {<<n>>}
          BY <4>3, <4>4
        <5> HIDE DEF A, B, C, D
        <5> QED BY <2>3, <5>1
      <4> QED BY <4>5
    <3> QED BY <3>1, <3>2, <3>3, <3>4, RoomNames
  <2> QED BY <2>7, FS_Singleton
<1> QED BY <1>1, ShapeInvariant, PlaceInvariant, PTL

-----------------------------------------------------------------------------
(* The batcher keeps its promise. *)

\* A flush's current item is nowhere else, and in no other flush.
LEMMA CurrentPlace ==
  ASSUME ShapeInv, PlaceInv, NEW s \in Slots, flights[s].stage \in {"resolve", "ack"}
  PROVE  /\ Current(s) \in Items /\ Current(s) \in issued
         /\ Current(s) \notin accepted \cup rejected \cup unacked \cup dropped
         /\ \A t \in Slots : /\ flights[t].stage \in {"resolve", "ack"}
                             /\ Current(t) = Current(s)
                             => t = s
<1>1. \A t \in Slots : flights[t].stage \in {"resolve", "ack"} =>
        Current(t) \in Items /\ Current(t) \in Range(flights[t].todo)
  <2> SUFFICES ASSUME NEW t \in Slots, flights[t].stage \in {"resolve", "ack"}
               PROVE  Current(t) \in Items /\ Current(t) \in Range(flights[t].todo)
    OBVIOUS
  <2>1. flights[t].todo \in Seq(Items) /\ flights[t].todo # <<>>
    BY FlightTypes
  <2>2. IsInjective(flights[t].todo)
    BY DEF PlaceInv, Single
  <2> QED BY <2>1, <2>2, TailRange DEF Current
<1>2. \A t \in Slots : flights[t].stage \in {"resolve", "ack"} =>
        <<"flight", t>> \in Rooms /\ At(Current(t), <<"flight", t>>)
  BY <1>1, RoomNames, AtRooms
<1> DEFINE c == Current(s)
<1>3. c \in Items /\ <<"flight", s>> \in Rooms /\ At(c, <<"flight", s>>)
  BY <1>1, <1>2
<1>4. \A t \in Slots : flights[t].stage \in {"resolve", "ack"} /\ Current(t) = c =>
        <<"flight", t>> = <<"flight", s>>
  BY <1>2, <1>3 DEF PlaceInv, Placed
<1> HIDE DEF c
<1>5. c \in issued
  BY <1>3 DEF PlaceInv, Placed
<1>6. \A q \in Rooms : At(c, q) => q = <<"flight", s>>
  BY <1>3 DEF PlaceInv, Placed
<1>7. /\ <<"accepted", 0>> # <<"flight", s>> /\ <<"rejected", 0>> # <<"flight", s>>
      /\ <<"unacked", 0>> # <<"flight", s>> /\ <<"dropped", 0>> # <<"flight", s>>
  OBVIOUS
<1>8. c \notin accepted \cup rejected \cup unacked \cup dropped
  BY <1>6, <1>7, RoomNames, AtRooms DEF Lobby
<1> QED BY <1>3, <1>4, <1>5, <1>8 DEF c

\* Nothing is being acked by flushes that a step makes no change to.
LEMMA AckedSame ==
  ASSUME \A t \in Slots : flights[t].stage = "ack" => flights'[t] = flights[t],
         \A t \in Slots : flights'[t].stage = "ack" => flights'[t] = flights[t]
  PROVE  \A x : BeingAcked(x)' <=> BeingAcked(x)
BY DEF BeingAcked, Current

\* A flush that advances is not at an ack any more.
LEMMA AdvanceAcks ==
  ASSUME ShapeInv, PlaceInv, NEW s \in Slots,
         flights[s].stage \in {"resolve", "ack"}, Advance(s)
  PROVE  /\ \A x : BeingAcked(x)' => BeingAcked(x)
         /\ \A x : BeingAcked(x) =>
              BeingAcked(x)' \/ (flights[s].stage = "ack" /\ x = Current(s))
<1>1. /\ flights'[s].stage \in {"free", "resolve"}
      /\ \A t \in Slots : t # s => flights'[t] = flights[t]
  BY AdvanceShape
<1> QED BY <1>1 DEF BeingAcked, Current

\* Every step keeps Recorded.
LEMMA RecordedStep ==
  ShapeInv /\ PlaceInv /\ Recorded /\ [Next]_vars => Recorded'
<1> USE DEF queueVars, runVars, timeVars, closeVars, ackVars, dlqVars
<1> SUFFICES ASSUME ShapeInv, PlaceInv, Recorded, [Next]_vars PROVE Recorded'
  OBVIOUS
<1>0. TypeOK
  BY DEF ShapeInv
<1>1. CASE UNCHANGED <<flights, rejected, unacked, dlqVars>>
  BY <1>1, AckedSame DEF Recorded
<1>2. ASSUME NEW s \in Slots, StartFlush(s) PROVE Recorded'
  <2>1. /\ flights[s].stage = "free" /\ flights'[s].stage = "resolve"
        /\ \A t \in Slots : t # s => flights'[t] = flights[t]
        /\ UNCHANGED <<rejected, unacked, dlqVars>>
    BY <1>0, <1>2 DEF StartFlush, TypeOK, Free
  <2> QED BY <2>1, AckedSame DEF Recorded
<1>3. ASSUME NEW s \in Slots, Accept(s) \/ scheduleRetry(s) PROVE Recorded'
  <2>1. /\ flights[s].stage = "resolve" /\ Advance(s) /\ UNCHANGED <<rejected, dlqVars>>
        /\ unacked \subseteq unacked'
    BY <1>3 DEF Accept, scheduleRetry
  <2>2. \A x : BeingAcked(x)' <=> BeingAcked(x)
    BY <2>1, AdvanceAcks
  <2> QED BY <2>1, <2>2 DEF Recorded
<1>4. ASSUME NEW s \in Slots, AckDeadLetter(s) PROVE Recorded'
  <2>1. /\ flights[s].stage = "ack" /\ Advance(s) /\ UNCHANGED dlqVars
        /\ rejected \subseteq rejected' /\ unacked \subseteq unacked'
        /\ Current(s) \in rejected' \cup unacked'
    BY <1>4 DEF AckDeadLetter
  <2>2. /\ \A x : BeingAcked(x)' => BeingAcked(x)
        /\ \A x : BeingAcked(x) => BeingAcked(x)' \/ x = Current(s)
    BY <2>1, AdvanceAcks
  <2> QED BY <2>1, <2>2 DEF Recorded
<1>5. ASSUME NEW s \in Slots, DeadLetter(s) PROVE Recorded'
  <2> DEFINE c == Current(s)
  <2>1. /\ flights[s].stage = "resolve" /\ UNCHANGED <<rejected, unacked>>
        /\ \/ parked' = parked \cup {c} /\ UNCHANGED unparked
           \/ unparked' = unparked \cup {c} /\ UNCHANGED parked
        /\ flights' = [flights EXCEPT ![s].stage = "ack"]
    BY <1>5 DEF DeadLetter
  <2>2. /\ flights'[s].stage = "ack" /\ flights'[s].todo = flights[s].todo
        /\ \A t \in Slots : t # s => flights'[t] = flights[t]
    BY <1>0, <2>1 DEF TypeOK
  <2>3. \A x : BeingAcked(x)' <=> BeingAcked(x) \/ x = c
    BY <2>1, <2>2 DEF BeingAcked, Current
  <2>4. c \notin rejected \cup unacked /\ ~BeingAcked(c)
    BY <2>1, CurrentPlace DEF BeingAcked
  <2>5. c \notin parked \cup unparked
    BY <2>4 DEF Recorded
  <2> HIDE DEF c
  <2> QED BY <2>1, <2>3, <2>5 DEF Recorded
<1>6. ASSUME \/ \E x \in Items : \/ Enqueue(x) \/ Enter(x) \/ GiveUp(x)
                                 \/ RetryFires(x) \/ Expire(x)
             \/ Receive \/ Linger \/ SeeClose \/ Drain \/ Close \/ CloseReturns
             \/ UNCHANGED vars
      PROVE  UNCHANGED <<flights, rejected, unacked, dlqVars>>
  BY <1>6 DEF Enqueue, Enter, GiveUp, RetryFires, Expire, Receive, Linger, SeeClose,
              Drain, Close, CloseReturns, vars
<1> QED BY <1>1, <1>2, <1>3, <1>4, <1>5, <1>6 DEF Next, Acquire, Flush

\* Invariance of Recorded.
LEMMA RecordedInvariant == Spec => []Recorded
<1>1. Init => Recorded
  BY DEF Init, Recorded, BeingAcked, Free
<1> QED BY <1>1, RecordedStep, ShapeInvariant, PlaceInvariant, PTL DEF Spec

\* What has become of an item that is nowhere, and of one that is not done with.
LEMMA FateOpen ==
  ASSUME PlaceInv, Recorded, NEW x \in Items,
         x \notin accepted \cup rejected \cup unacked \cup dropped
  PROVE  /\ x \notin issued => Fate(x) = "new"
         /\ x \in issued /\ ~BeingAcked(x) => Fate(x) = "held"
         /\ x \in issued /\ BeingAcked(x) =>
              Fate(x) = IF x \in parked THEN "recorded" ELSE "unrecorded"
<1>1. ~BeingAcked(x) => x \notin parked \cup unparked
  BY DEF Recorded
<1>2. BeingAcked(x) => x \in parked \cup unparked
  BY DEF Recorded
<1> QED BY <1>1, <1>2 DEF Fate

\* An item whose sets are the same has the same fate.
LEMMA FateSame ==
  ASSUME NEW x, x \in accepted' <=> x \in accepted, x \in unacked' <=> x \in unacked,
         x \in rejected' <=> x \in rejected, x \in dropped' <=> x \in dropped,
         x \in issued' <=> x \in issued, x \in parked' <=> x \in parked,
         x \in unparked' <=> x \in unparked
  PROVE  Fate(x)' = Fate(x)
BY DEF Fate

\* One item's fate turns.
LEMMA TurnStep ==
  ASSUME NEW x \in Items, NEW from, NEW to, Fate(x) = from, Fate(x)' = to,
         \A y \in Items : y # x => Fate(y)' = Fate(y)
  PROVE  Promise!Turn(x, from, to)
BY DEF Promise!Turn

\* What the rest of the daemon sees of Close.
Mode == IF returned THEN "closed" ELSE IF closing THEN "closing" ELSE "open"

\* Every step is one that the promise allows, or changes nothing it speaks of.
LEMMA PromiseStep ==
  ShapeInv /\ PlaceInv /\ PlaceInv' /\ Recorded /\ Recorded' /\ [Next]_vars =>
    [Promise!PQNext]_(Promise!pqVars)
<1> USE DEF queueVars, runVars, timeVars, closeVars, ackVars, dlqVars
<1> DEFINE Goal == [Promise!PQNext]_(Promise!pqVars)
<1> SUFFICES ASSUME ShapeInv, PlaceInv, PlaceInv', Recorded, Recorded', [Next]_vars
             PROVE  Goal
  OBVIOUS
<1>a. ASSUME \A x \in Items : Fate(x)' = Fate(x), Mode' = Mode PROVE Goal
  BY <1>a DEF Promise!pqVars, Mode
<1>b. ASSUME NEW x \in Items, Mode' = Mode,
             Promise!Turn(x, "new", "held")
             \/ (Mode # "open" /\ Promise!Turn(x, "held", "dropped"))
      PROVE  Goal
  BY <1>b DEF Promise!PQNext, Promise!Take, Promise!Drop, Mode
<1>c. ASSUME NEW x \in Items, Mode' = Mode, Mode # "closed",
             NEW from, NEW to, Promise!Turn(x, from, to),
             <<from, to>> \in {<<"held", "accepted">>, <<"held", "unacked">>,
                               <<"held", "recorded">>, <<"recorded", "rejected">>,
                               <<"recorded", "unacked">>, <<"held", "unrecorded">>,
                               <<"unrecorded", "lost">>, <<"unrecorded", "unacked">>}
      PROVE  Goal
  BY <1>c DEF Promise!PQNext, Promise!Settle, Mode
<1> HIDE DEF Goal
<1>d. ASSUME NEW s \in Slots, flights[s].stage \in {"resolve", "ack"}
      PROVE  Mode # "closed"
  BY <1>d DEF Mode, ShapeInv, Quiet, Free
<1>1. ASSUME UNCHANGED <<accepted, rejected, unacked, dropped, issued, dlqVars>>,
             UNCHANGED closeVars
      PROVE  Goal
  BY <1>1, <1>a, FateSame DEF Mode
<1>2. ASSUME \/ \E x \in Items : Enter(x) \/ RetryFires(x) \/ Expire(x)
             \/ Receive \/ Linger \/ SeeClose \/ Drain \/ UNCHANGED vars
             \/ \E s \in Slots : StartFlush(s) \/ scheduleRetry(s)
      PROVE  Goal
  BY <1>2, <1>1 DEF Enter, RetryFires, Expire, Receive, Linger, SeeClose, Drain, vars,
                    StartFlush, scheduleRetry
<1>3. ASSUME NEW x \in Items, Enqueue(x) PROVE Goal
  <2>1. /\ x \notin issued /\ issued' = issued \cup {x}
        /\ UNCHANGED <<accepted, rejected, unacked, dropped, dlqVars, closeVars,
                       flights>>
    BY <1>3 DEF Enqueue
  <2>2. x \notin accepted \cup rejected \cup unacked \cup dropped
    <3>1. \A r \in Rooms : ~At(x, r)
      BY <2>1 DEF PlaceInv, Placed
    <3> QED BY <3>1, RoomNames, AtRooms DEF Lobby
  <2>3. ~BeingAcked(x)
    <3>1. \A s \in Slots : flights[s].stage = "ack" => Current(s) \in issued
      BY CurrentPlace
    <3> QED BY <2>1, <3>1 DEF BeingAcked
  <2>4. Fate(x) = "new"
    BY <2>1, <2>2, FateOpen
  <2>5. x \notin parked \cup unparked
    BY <2>2, <2>3 DEF Recorded
  <2>6. Fate(x)' = "held"
    BY <2>1, <2>2, <2>5 DEF Fate
  <2>7. \A y \in Items : y # x => Fate(y)' = Fate(y)
    BY <2>1, FateSame
  <2>8. Promise!Turn(x, "new", "held")
    BY <2>4, <2>6, <2>7, TurnStep
  <2> QED BY <1>b, <2>1, <2>8 DEF Mode
<1>4. ASSUME NEW x \in Items, GiveUp(x) PROVE Goal
  <2>1. /\ x \in entering /\ closing /\ dropped' = dropped \cup {x}
        /\ UNCHANGED <<accepted, rejected, unacked, issued, dlqVars, closeVars, flights>>
    BY <1>4 DEF GiveUp
  <2>2. At(x, <<"entering", 0>>) /\ <<"entering", 0>> \in Rooms
    BY <2>1, RoomNames, AtRooms DEF Lobby
  <2>3. x \in issued /\ \A q \in Rooms : At(x, q) => q = <<"entering", 0>>
    BY <2>2 DEF PlaceInv, Placed
  <2>4. x \notin accepted \cup rejected \cup unacked \cup dropped
    BY <2>3, RoomNames, AtRooms DEF Lobby
  <2>5. ~BeingAcked(x)
    <3> SUFFICES ASSUME NEW s \in Slots, flights[s].stage = "ack", Current(s) = x
                 PROVE  FALSE
      BY DEF BeingAcked
    <3>1. flights[s].todo \in Seq(Items) /\ flights[s].todo # <<>>
      BY FlightTypes
    <3>2. IsInjective(flights[s].todo)
      BY DEF PlaceInv, Single
    <3>3. x \in Range(flights[s].todo)
      BY <3>1, <3>2, TailRange DEF Current
    <3>4. At(x, <<"flight", s>>) /\ <<"flight", s>> \in Rooms
      BY <3>3, AtRooms, RoomNames
    <3> QED BY <2>3, <3>4
  <2>6. Fate(x) = "held" /\ x \notin parked \cup unparked
    BY <2>3, <2>4, <2>5, FateOpen DEF Recorded
  <2>7. Fate(x)' = "dropped"
    <3>1. /\ x \notin accepted' /\ x \notin unacked' /\ x \notin rejected'
          /\ x \in dropped' /\ x \in issued'
      BY <2>1, <2>3, <2>4
    <3> QED BY <3>1 DEF Fate
  <2>8. \A y \in Items : y # x => Fate(y)' = Fate(y)
    BY <2>1, FateSame
  <2>9. Promise!Turn(x, "held", "dropped")
    BY <2>6, <2>7, <2>8, TurnStep
  <2> QED BY <1>b, <2>1, <2>9 DEF Mode
<1>5. ASSUME NEW s \in Slots, Accept(s) PROVE Goal
  <2>1. flights[s].stage = "resolve" /\ Current(s) \in Items
    BY <1>5, CurrentPlace DEF Accept
  <2>2. PICK c \in Items : c = Current(s)
    BY <2>1
  <2>3. /\ \/ accepted' = accepted \cup {c} /\ UNCHANGED unacked
           \/ unacked' = unacked \cup {c} /\ UNCHANGED accepted
        /\ UNCHANGED <<rejected, dropped, issued, dlqVars, closeVars>>
    BY <1>5, <2>2 DEF Accept
  <2>4. c \in issued /\ c \notin accepted \cup rejected \cup unacked \cup dropped
    BY <2>1, <2>2, CurrentPlace
  <2>5. ~BeingAcked(c)
    BY <2>1, <2>2, CurrentPlace DEF BeingAcked
  <2>6. Fate(c) = "held"
    BY <2>4, <2>5, FateOpen
  <2>7. \A y \in Items : y # c => Fate(y)' = Fate(y)
    BY <2>3, FateSame
  <2>8. Fate(c)' = "accepted" \/ Fate(c)' = "unacked"
    BY <2>3, <2>4 DEF Fate
  <2>9. Promise!Turn(c, "held", "accepted") \/ Promise!Turn(c, "held", "unacked")
    BY <2>6, <2>7, <2>8, TurnStep
  <2> QED BY <1>c, <1>d, <2>1, <2>3, <2>9 DEF Mode
<1>6. ASSUME NEW s \in Slots, DeadLetter(s) PROVE Goal
  <2>1. flights[s].stage = "resolve" /\ Current(s) \in Items
    BY <1>6, CurrentPlace DEF DeadLetter
  <2>2. PICK c \in Items : c = Current(s)
    BY <2>1
  <2>3. /\ \/ parked' = parked \cup {c} /\ UNCHANGED unparked
           \/ unparked' = unparked \cup {c} /\ UNCHANGED parked
        /\ UNCHANGED <<accepted, rejected, unacked, dropped, issued, closeVars>>
    BY <1>6, <2>2 DEF DeadLetter
  <2>4. c \in issued /\ c \notin accepted \cup rejected \cup unacked \cup dropped
    BY <2>1, <2>2, CurrentPlace
  <2>5. ~BeingAcked(c)
    BY <2>1, <2>2, CurrentPlace DEF BeingAcked
  <2>6. Fate(c) = "held" /\ c \notin parked \cup unparked
    BY <2>4, <2>5, FateOpen DEF Recorded
  <2>7. \A y \in Items : y # c => Fate(y)' = Fate(y)
    BY <2>3, FateSame
  <2>8. Fate(c)' = "recorded" \/ Fate(c)' = "unrecorded"
    BY <2>3, <2>4, <2>6 DEF Fate
  <2>9. Promise!Turn(c, "held", "recorded") \/ Promise!Turn(c, "held", "unrecorded")
    BY <2>6, <2>7, <2>8, TurnStep
  <2> QED BY <1>c, <1>d, <2>1, <2>3, <2>9 DEF Mode
<1>7. ASSUME NEW s \in Slots, AckDeadLetter(s) PROVE Goal
  <2>1. flights[s].stage = "ack" /\ Current(s) \in Items
    BY <1>7, CurrentPlace DEF AckDeadLetter
  <2>2. PICK c \in Items : c = Current(s)
    BY <2>1
  <2>3. /\ \/ rejected' = rejected \cup {c} /\ UNCHANGED unacked
           \/ unacked' = unacked \cup {c} /\ UNCHANGED rejected
        /\ UNCHANGED <<accepted, dropped, issued, dlqVars, closeVars>>
    BY <1>7, <2>2 DEF AckDeadLetter
  <2>4. c \in issued /\ c \notin accepted \cup rejected \cup unacked \cup dropped
    BY <2>1, <2>2, CurrentPlace
  <2>5. BeingAcked(c)
    BY <2>1, <2>2 DEF BeingAcked
  <2>6. \A y \in Items : y # c => Fate(y)' = Fate(y)
    BY <2>3, FateSame
  <2>7. CASE c \in parked
    <3>1. c \notin unparked /\ Fate(c) = "recorded"
      BY <2>4, <2>5, <2>7, FateOpen DEF Recorded
    <3>2. Fate(c)' = "rejected" \/ Fate(c)' = "unacked"
      BY <2>3, <2>4, <3>1 DEF Fate
    <3>3. Promise!Turn(c, "recorded", "rejected") \/ Promise!Turn(c, "recorded", "unacked")
      BY <2>6, <3>1, <3>2, TurnStep
    <3> QED BY <1>c, <1>d, <2>1, <2>3, <3>3 DEF Mode
  <2>8. CASE c \notin parked
    <3>1. c \in unparked /\ Fate(c) = "unrecorded"
      BY <2>4, <2>5, <2>8, FateOpen DEF Recorded
    <3>2. Fate(c)' = "lost" \/ Fate(c)' = "unacked"
      BY <2>3, <2>4, <3>1 DEF Fate
    <3>3. Promise!Turn(c, "unrecorded", "lost") \/ Promise!Turn(c, "unrecorded", "unacked")
      BY <2>6, <3>1, <3>2, TurnStep
    <3> QED BY <1>c, <1>d, <2>1, <2>3, <3>3 DEF Mode
  <2> QED BY <2>7, <2>8
<1>8. CASE Close
  <2>1. \A x \in Items : Fate(x)' = Fate(x)
    BY <1>8, FateSame DEF Close
  <2>2. ~closing /\ closing' /\ ~returned /\ ~returned'
    BY <1>8 DEF Close, ShapeInv, Quiet
  <2> QED BY <2>1, <2>2 DEF Goal, Promise!PQNext, Promise!Shut
<1>9. CASE CloseReturns
  <2>1. \A x \in Items : Fate(x)' = Fate(x)
    BY <1>9, FateSame DEF CloseReturns
  <2>2. closing /\ ~returned /\ returned'
    BY <1>9 DEF CloseReturns
  <2>3. \A x \in Items : ~BeingAcked(x)
    BY <1>9 DEF CloseReturns, BeingAcked, Free
  <2>4. \A x \in Items : Fate(x) \notin {"recorded", "unrecorded"}
    <3> SUFFICES ASSUME NEW x \in Items PROVE Fate(x) \notin {"recorded", "unrecorded"}
      OBVIOUS
    <3>1. CASE x \in accepted \cup rejected \cup unacked \cup dropped
      BY <3>1 DEF Fate
    <3>2. CASE x \notin accepted \cup rejected \cup unacked \cup dropped
      BY <2>3, <3>2, FateOpen
    <3> QED BY <3>1, <3>2
  <2> QED BY <2>1, <2>2, <2>4 DEF Goal, Promise!PQNext, Promise!Shut
<1> QED BY <1>2, <1>3, <1>4, <1>5, <1>6, <1>7, <1>8, <1>9 DEF Next, Acquire, Flush

\* The batcher implements module ProviderQueue: every step of the queue, the run
\* loop, the concurrent flushes, the retry timers and Close is one that the promise
\* allows, for any number of items and flushes.
THEOREM PromiseHolds == Spec => PromiseKept
<1>1. Init => Promise!PQInit
  BY DEF Init, Promise!PQInit, Fate
<1> QED BY <1>1, PromiseStep, ShapeInvariant, PlaceInvariant, RecordedInvariant, PTL
        DEF Spec, PromiseKept, Promise!PQSpec
=============================================================================

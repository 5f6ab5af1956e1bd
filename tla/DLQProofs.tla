----------------------------- MODULE DLQProofs -----------------------------
(* Theorems about the dead-letter queue. *)
EXTENDS DLQ, FiniteSetTheorems, WellFoundedInduction, TLAPS

-----------------------------------------------------------------------------
(* What Open reconstructs. *)

\* A bounded set of numbers has a largest one.
LEMMA BoundedMaximum ==
  ASSUME NEW S, S \subseteq Nat, S # {}, NEW N \in Nat, \A m \in S : m <= N
  PROVE  \E n \in S : \A m \in S : m <= n
<1> DEFINE T == {k \in Nat : N - k \in S}
           R == OpToRel(<, Nat)
<1>1. T \subseteq Nat /\ T # {}
  <2>1. PICK m \in S : TRUE
    OBVIOUS
  <2>2. N - m \in Nat /\ N - (N - m) = m
    BY <2>1
  <2> QED BY <2>1, <2>2
<1>2. PICK x \in T : \A y \in T : ~(<<y, x>> \in R)
  <2> HIDE DEF T, R
  <2>1. IsWellFoundedOn(R, Nat)
    BY NatLessThanWellFounded DEF R
  <2> QED BY <1>1, <2>1, WFMin
<1>3. \A y \in T : ~(y < x)
  BY <1>2 DEF OpToRel
<1>4. \A m \in S : N - m \in T
  OBVIOUS
<1>5. N - x \in S /\ \A m \in S : m <= N - x
  BY <1>3, <1>4
<1> QED BY <1>5

\* Recorded is the highest attempt number on disk.
LEMMA RecordedMax ==
  ASSUME NEW lines \in SUBSET Lines, NEW e \in Events, NEW N \in Nat,
         \A l \in lines : l.event = e => l.attempts <= N
  PROVE  /\ Recorded(e, lines) \in Nat /\ Recorded(e, lines) <= N
         /\ \A l \in lines : l.event = e => l.attempts <= Recorded(e, lines)
<1> DEFINE S == {l.attempts : l \in Of({e}, lines)} \cup {0}
<1>1. S \subseteq Nat /\ S # {}
  BY DEF Of, Lines
<1>2. \A m \in S : m <= N
  BY DEF Of
<1>3. \A l \in lines : l.event = e => l.attempts \in S
  BY DEF Of
<1> HIDE DEF S
<1>4. \E n \in S : \A m \in S : m <= n
  BY <1>1, <1>2, BoundedMaximum
<1>5. Recorded(e, lines) = CHOOSE n \in S : \A m \in S : m <= n
  BY DEF Recorded, S
<1>6. Recorded(e, lines) \in S /\ \A m \in S : m <= Recorded(e, lines)
  BY <1>4, <1>5
<1> QED BY <1>1, <1>2, <1>3, <1>6

-----------------------------------------------------------------------------
(* No event is in both files. *)

IsPut == op.step \in {"purge", "append"}

\* While a Put runs, its line is newer than every line of the event on disk; a
\* line that goes to the poison file finds the regular file purged.
PutInv ==
  IsPut =>
    /\ \A l \in regular \cup poison :
         l.event = op.line.event => l.attempts < op.line.attempts
    /\ attempts[op.line.event] = op.line.attempts
    /\ op.step = "purge" => op.poisoned
    /\ op.poisoned => op.line.attempts >= PermanentThreshold
    /\ ~op.poisoned => op.line.attempts < ExhaustedThreshold
    /\ op.step = "append" /\ op.poisoned => Of({op.line.event}, regular) = {}

\* The thresholds differ by at most one, so an event whose poison line records
\* PermanentThreshold attempts or more cannot go back to the regular file.
HomeInv ==
  /\ StoreTypeOK
  /\ ~up => op = NoOp
  /\ \A l \in poison : l.attempts >= PermanentThreshold
  /\ AttemptsCoverDisk
  /\ \A e \in Events : attempts[e] <= puts[e]
  /\ \A l \in regular \cup poison : l.attempts <= puts[l.event]
  /\ PutInv
  /\ PoisonIsSoleHome

\* The step of an operation tells its kind.
LEMMA OpTypes ==
  ASSUME StoreTypeOK
  PROVE  /\ op.step \in {"none", "purge", "append", "regular", "poison"}
         /\ IsPut => /\ op \in PutOps /\ op.line \in Lines
                     /\ op.line.event \in Events /\ op.line.attempts \in Nat
                     /\ op.poisoned \in BOOLEAN
         /\ op.step \in Files => op \in RemoveOps
<1>1. CASE op = NoOp
  BY <1>1 DEF NoOp, IsPut, Files
<1>2. CASE op \in PutOps
  BY <1>2 DEF PutOps, Lines, IsPut, Files
<1>3. CASE op \in RemoveOps
  BY <1>3 DEF RemoveOps, IsPut, Files
<1> QED BY <1>1, <1>2, <1>3 DEF StoreTypeOK

\* The initial state satisfies HomeInv.
LEMMA HomeInit == Init => HomeInv
<1> SUFFICES ASSUME Init PROVE HomeInv
  OBVIOUS
<1>1. StoreTypeOK
  <2>1. up \in BOOLEAN
    BY Zenon DEF Init
  <2> QED BY <2>1, FS_EmptySet DEF Init, StoreTypeOK
<1> QED BY <1>1 DEF Init, HomeInv, AttemptsCoverDisk, PutInv, IsPut, NoOp,
                    PoisonIsSoleHome

\* What a step that ends or begins no Put has to show.
LEMMA Shrinks ==
  ASSUME HomeInv, StoreTypeOK', regular' \subseteq regular, poison' \subseteq poison,
         UNCHANGED <<up, attempts, puts>>, op' = NoOp \/ op'.step \in Files, up
  PROVE  HomeInv'
<1>1. ~IsPut'
  BY DEF IsPut, NoOp, Files
<1>2. AttemptsCoverDisk' /\ PutInv' /\ PoisonIsSoleHome'
  BY <1>1 DEF HomeInv, AttemptsCoverDisk, PutInv, PoisonIsSoleHome
<1> QED BY <1>2 DEF HomeInv

\* A part of a finite file is finite.
LEMMA FinitePart ==
  ASSUME NEW S, IsFiniteSet(S), NEW E PROVE IsFiniteSet(S \ Of(E, S))
BY FS_Subset

\* Write: a line of a running Put keeps the two files apart.
LEMMA WriteKeepsApart ==
  ASSUME HomeInv, op.step = "append", Write, UNCHANGED puts
  PROVE  /\ regular' \subseteq Lines /\ poison' \subseteq Lines
         /\ IsFiniteSet(regular') /\ IsFiniteSet(poison')
         /\ \A l \in poison' : l.attempts >= PermanentThreshold
         /\ \A l \in regular' \cup poison' : l.attempts <= attempts[l.event]
         /\ \A l \in regular' \cup poison' : l.attempts <= puts[l.event]
         /\ PoisonIsSoleHome'
<1> DEFINE n == op.line
<1>0. /\ StoreTypeOK /\ IsPut /\ PutInv /\ up
  BY DEF HomeInv, IsPut, NoOp
<1>1. n \in Lines /\ n.event \in Events /\ n.attempts \in Nat
      /\ op.poisoned \in BOOLEAN
  BY <1>0, OpTypes
<1>2. /\ regular \subseteq Lines /\ poison \subseteq Lines
      /\ IsFiniteSet(regular) /\ IsFiniteSet(poison)
      /\ attempts \in [Events -> Nat] /\ puts \in [Events -> Nat]
  BY <1>0 DEF StoreTypeOK
<1>3. /\ \A l \in regular \cup poison : l.event = n.event => l.attempts < n.attempts
      /\ attempts[n.event] = n.attempts
      /\ op.poisoned => n.attempts >= PermanentThreshold
      /\ ~op.poisoned => n.attempts < ExhaustedThreshold
      /\ op.poisoned => Of({n.event}, regular) = {}
  BY <1>0 DEF PutInv
<1>4. n.attempts <= puts[n.event]
  BY <1>1, <1>3 DEF HomeInv
<1>5. /\ \A l \in poison : l.attempts >= PermanentThreshold
      /\ \A l \in regular \cup poison : l.attempts <= attempts[l.event]
      /\ \A l \in regular \cup poison : l.attempts <= puts[l.event]
      /\ PoisonIsSoleHome
  BY <1>0 DEF HomeInv, AttemptsCoverDisk
<1> HIDE DEF n
<1>6. IsFiniteSet(regular \cup {n}) /\ IsFiniteSet(poison \cup {n})
  BY <1>2, FS_AddElement
<1>9. n.attempts <= attempts[n.event]
  BY <1>1, <1>3
<1>7. CASE op.poisoned
  <2>1. (poison' = poison \/ poison' = poison \cup {n}) /\ regular' = regular
    BY <1>7 DEF Write, n
  <2>2. \A l \in regular : l.event # n.event
    BY <1>3, <1>7 DEF Of
  <2>3. PoisonIsSoleHome'
    BY <1>5, <2>1, <2>2 DEF PoisonIsSoleHome
  <2>4. \A l \in poison' : l.attempts >= PermanentThreshold
    BY <1>3, <1>5, <1>7, <2>1
  <2>5. /\ \A l \in regular' \cup poison' : l.attempts <= attempts[l.event]
        /\ \A l \in regular' \cup poison' : l.attempts <= puts[l.event]
    BY <1>4, <1>5, <1>9, <2>1
  <2> QED BY <1>1, <1>2, <1>6, <2>1, <2>3, <2>4, <2>5, Zenon
<1>8. CASE ~op.poisoned
  <2>1. (regular' = regular \/ regular' = regular \cup {n}) /\ poison' = poison
    BY <1>8 DEF Write, n
  <2>2. \A l \in poison : l.event # n.event
    <3> SUFFICES ASSUME NEW l \in poison, l.event = n.event PROVE FALSE
      OBVIOUS
    <3>1. l.attempts \in Nat
      BY <1>2 DEF Lines
    <3>2. l.attempts >= PermanentThreshold /\ l.attempts < n.attempts
      BY <1>3, <1>5
    <3>3. n.attempts < ExhaustedThreshold
      BY <1>3, <1>8
    <3> QED BY <1>1, <3>1, <3>2, <3>3, DLQAssumption
  <2>3. PoisonIsSoleHome'
    BY <1>5, <2>1, <2>2 DEF PoisonIsSoleHome
  <2>4. /\ \A l \in regular' \cup poison' : l.attempts <= attempts[l.event]
        /\ \A l \in regular' \cup poison' : l.attempts <= puts[l.event]
    BY <1>4, <1>5, <1>9, <2>1
  <2> QED BY <1>1, <1>2, <1>5, <1>6, <2>1, <2>3, <2>4, Zenon
<1> QED BY <1>1, <1>7, <1>8

\* Every step keeps HomeInv.
LEMMA HomeStep == HomeInv /\ [Next]_vars => HomeInv'
<1> USE DEF diskVars, memVars, histVars
<1> SUFFICES ASSUME HomeInv, [Next]_vars PROVE HomeInv'
  OBVIOUS
<1>0. /\ StoreTypeOK
      /\ regular \subseteq Lines /\ poison \subseteq Lines /\ torn \subseteq Files
      /\ IsFiniteSet(regular) /\ IsFiniteSet(poison)
      /\ up \in BOOLEAN /\ attempts \in [Events -> Nat] /\ depth \in Int
      /\ op \in {NoOp} \cup PutOps \cup RemoveOps
      /\ puts \in [Events -> Nat] /\ parked \subseteq Events
  BY DEF HomeInv, StoreTypeOK
<1>1. op.step # "none" => up
  BY DEF HomeInv, NoOp
<1>2. \A E : /\ IsFiniteSet(Of(E, regular)) /\ Cardinality(Of(E, regular)) \in Nat
             /\ IsFiniteSet(Of(E, poison)) /\ Cardinality(Of(E, poison)) \in Nat
             /\ IsFiniteSet(regular \ Of(E, regular))
             /\ IsFiniteSet(poison \ Of(E, poison))
  BY <1>0, FS_Subset, FS_CardinalityType DEF Of
<1>3. CASE UNCHANGED vars
  BY <1>3 DEF vars, HomeInv, StoreTypeOK, AttemptsCoverDisk, PutInv, IsPut,
              PoisonIsSoleHome
<1>a. ASSUME LoseMemory, UNCHANGED <<torn, histVars>>,
             regular' \subseteq Lines, poison' \subseteq Lines,
             IsFiniteSet(regular'), IsFiniteSet(poison'), PoisonIsSoleHome',
             \A l \in poison' : l.attempts >= PermanentThreshold,
             \A l \in regular' \cup poison' : l.attempts <= puts[l.event]
      PROVE  HomeInv'
  <2>1. /\ up' = FALSE /\ attempts' = [e \in Events |-> 0] /\ depth' = 0
        /\ op' = NoOp
    BY <1>a DEF LoseMemory
  <2>2. up' \in BOOLEAN
    BY <2>1, Zenon
  <2>3. StoreTypeOK'
    BY <1>0, <1>a, <2>1, <2>2 DEF StoreTypeOK
  <2>4. PutInv' /\ AttemptsCoverDisk'
    BY <2>1 DEF PutInv, IsPut, NoOp, AttemptsCoverDisk
  <2>5. \A e \in Events : attempts'[e] <= puts'[e]
    BY <1>0, <1>a, <2>1
  <2> QED BY <1>a, <2>1, <2>3, <2>4, <2>5 DEF HomeInv
<1>b. ASSUME LoseMemory, UNCHANGED <<regular, poison, histVars>>, torn' \subseteq Files
      PROVE  HomeInv'
  <2>1. /\ up' = FALSE /\ attempts' = [e \in Events |-> 0] /\ depth' = 0
        /\ op' = NoOp
    BY <1>b DEF LoseMemory
  <2>2. up' \in BOOLEAN
    BY <2>1, Zenon
  <2>3. StoreTypeOK'
    BY <1>0, <1>b, <2>1, <2>2 DEF StoreTypeOK
  <2>4. PutInv' /\ AttemptsCoverDisk' /\ PoisonIsSoleHome'
    BY <1>b, <2>1 DEF PutInv, IsPut, NoOp, AttemptsCoverDisk, PoisonIsSoleHome,
                      HomeInv
  <2>5. \A e \in Events : attempts'[e] <= puts'[e]
    BY <1>0, <1>b, <2>1
  <2> QED BY <1>b, <2>1, <2>3, <2>4, <2>5 DEF HomeInv
<1>4. CASE Open
  <2> DEFINE D == regular \cup poison
  <2>1. /\ up' = TRUE /\ attempts' = [e \in Events |-> Recorded(e, D)]
        /\ depth' = Cardinality(regular) + Cardinality(poison)
        /\ UNCHANGED <<regular, poison, torn, op, puts, parked>>
    BY <1>4 DEF Open
  <2>2. D \in SUBSET Lines /\ \A l \in D : l.attempts <= puts[l.event]
    BY <1>0 DEF HomeInv
  <2> HIDE DEF D
  <2>3. ASSUME NEW e \in Events
        PROVE  /\ Recorded(e, D) \in Nat /\ Recorded(e, D) <= puts[e]
               /\ \A l \in D : l.event = e => l.attempts <= Recorded(e, D)
    <3>1. puts[e] \in Nat /\ \A l \in D : l.event = e => l.attempts <= puts[e]
      BY <1>0, <2>2
    <3> QED BY <2>2, <3>1, RecordedMax
  <2>4. depth' \in Int
    BY <1>0, <2>1, FS_CardinalityType
  <2>5. attempts' \in [Events -> Nat]
    BY <2>1, <2>3
  <2>6. up' \in BOOLEAN
    BY <2>1, Zenon
  <2>7. StoreTypeOK'
    BY <1>0, <2>1, <2>4, <2>5, <2>6 DEF StoreTypeOK
  <2>8. AttemptsCoverDisk'
    <3>1. \A l \in D : l.event \in Events
      BY <2>2 DEF Lines
    <3>2. \A l \in D : l.attempts <= attempts'[l.event]
      BY <2>1, <2>3, <3>1
    <3> QED BY <2>1, <3>2 DEF AttemptsCoverDisk, D
  <2>9. \A e \in Events : attempts'[e] <= puts'[e]
    BY <2>1, <2>3
  <2>10. op = NoOp
    BY <1>4 DEF Open, HomeInv
  <2>11. PutInv'
    BY <2>1, <2>10 DEF PutInv, IsPut, NoOp
  <2> QED BY <2>1, <2>7, <2>8, <2>9, <2>11 DEF HomeInv, PoisonIsSoleHome
<1>5. CASE Close
  BY <1>0, <1>5, <1>b DEF Close
<1>6. CASE Crash
  <2>1. /\ LoseMemory /\ UNCHANGED <<puts, parked>>
        /\ \/ UNCHANGED <<regular, poison, torn>>
           \/ op.step = "append" /\ Write /\ UNCHANGED torn
           \/ torn' = torn \cup {Target} /\ UNCHANGED <<regular, poison>>
    BY <1>6 DEF Crash
  <2>2. Target \in Files
    BY DEF Target, Files
  <2>3. CASE op.step = "append" /\ Write /\ UNCHANGED torn
    BY <1>a, <2>1, <2>3, WriteKeepsApart
  <2>4. CASE UNCHANGED <<regular, poison>> /\ torn' \subseteq Files
    BY <1>b, <2>1, <2>4
  <2> QED BY <1>0, <2>1, <2>2, <2>3, <2>4
<1>7. ASSUME NEW e \in Events, NEW permanent \in BOOLEAN, Put(e, permanent)
      PROVE  HomeInv'
  <2> DEFINE n == attempts[e] + 1
             poisoned == n >= Threshold(permanent)
             line == [event |-> e, attempts |-> n]
  <2>1. /\ up /\ op = NoOp
        /\ attempts' = [attempts EXCEPT ![e] = n]
        /\ op' = [step |-> IF poisoned THEN "purge" ELSE "append",
                  line |-> line, poisoned |-> poisoned]
        /\ puts' = [puts EXCEPT ![e] = @ + 1]
        /\ parked' = parked \ {e}
        /\ UNCHANGED <<regular, poison, torn, up, depth>>
    BY <1>7 DEF Put
  <2>2. n \in Nat /\ line \in Lines /\ poisoned \in BOOLEAN
    BY <1>0 DEF Lines, Threshold
  <2>3. op' \in PutOps
    BY <2>1, <2>2 DEF PutOps
  <2>4. StoreTypeOK'
    BY <1>0, <2>1, <2>2, <2>3 DEF StoreTypeOK
  <2>5. \A l \in regular \cup poison : l.event \in Events /\ l.attempts \in Nat
    BY <1>0 DEF Lines
  <2>6. \A l \in regular \cup poison : l.attempts <= attempts[l.event]
    BY <2>1 DEF HomeInv, AttemptsCoverDisk
  <2>7. /\ attempts'[e] = n /\ puts'[e] = puts[e] + 1
        /\ \A d \in Events \ {e} : attempts'[d] = attempts[d] /\ puts'[d] = puts[d]
    BY <1>0, <2>1
  <2>8. \A d \in Events : attempts[d] <= puts[d]
    BY DEF HomeInv
  <2>9. \A d \in Events : attempts[d] \in Nat /\ puts[d] \in Nat
    BY <1>0
  <2>10. \A d \in Events : attempts'[d] <= puts'[d] /\ attempts[d] <= attempts'[d]
    BY <2>7, <2>8, <2>9
  <2>11. \A l \in regular \cup poison : l.attempts <= attempts'[l.event]
                                        /\ l.attempts <= puts'[l.event]
    <3>1. \A d \in Events : attempts'[d] \in Nat /\ puts'[d] \in Nat
      BY <2>4 DEF StoreTypeOK
    <3> QED BY <2>5, <2>6, <2>9, <2>10, <3>1
  <2>12. \A l \in regular \cup poison : l.event = e => l.attempts < n
    BY <2>5, <2>6, <2>9
  <2>13. /\ poisoned => n >= PermanentThreshold
         /\ ~poisoned => n < ExhaustedThreshold
    BY <2>2, DLQAssumption DEF Threshold
  <2>14. /\ op'.line.event = e /\ op'.line.attempts = n /\ op'.poisoned = poisoned
         /\ op'.step = IF poisoned THEN "purge" ELSE "append"
    BY <2>1
  <2> HIDE DEF n, poisoned, line
  <2>15. PutInv'
    BY <2>1, <2>2, <2>7, <2>12, <2>13, <2>14 DEF PutInv
  <2>16. AttemptsCoverDisk' /\ PoisonIsSoleHome'
    BY <2>1, <2>11 DEF AttemptsCoverDisk, PoisonIsSoleHome, HomeInv
  <2> QED BY <2>1, <2>4, <2>10, <2>11, <2>15, <2>16 DEF HomeInv
<1>8. CASE Purge
  <2> DEFINE e == op.line.event
  <2>1. /\ op.step = "purge" /\ regular' = regular \ Of({e}, regular)
        /\ depth' = depth - Cardinality(Of({e}, regular))
        /\ op' = [op EXCEPT !.step = "append"]
        /\ UNCHANGED <<poison, torn, up, attempts, puts, parked>>
    BY <1>8 DEF Purge
  <2>2. IsPut /\ op \in PutOps
    BY <1>0, <2>1, OpTypes DEF IsPut
  <2>3. op' \in PutOps /\ op'.line = op.line /\ op'.poisoned = op.poisoned
        /\ op'.step = "append"
    BY <2>1, <2>2 DEF PutOps
  <2>4. depth' \in Int
    <3> DEFINE c == Cardinality(Of({e}, regular))
    <3>1. c \in Nat
      BY <1>2
    <3>2. depth' = depth - c /\ depth \in Int
      BY <1>0, <2>1
    <3> HIDE DEF c
    <3> QED BY <3>1, <3>2
  <2>5. IsFiniteSet(regular') /\ regular' \subseteq regular
    BY <1>2, <2>1
  <2>6. StoreTypeOK'
    BY <1>0, <2>1, <2>3, <2>4, <2>5 DEF StoreTypeOK
  <2>7. Of({e}, regular') = {}
    BY <2>1 DEF Of
  <2>8. PutInv
    BY DEF HomeInv
  <2>9. PutInv'
    BY <2>1, <2>2, <2>3, <2>5, <2>7, <2>8 DEF PutInv, IsPut, Of
  <2>10. AttemptsCoverDisk' /\ PoisonIsSoleHome'
    BY <2>1, <2>5 DEF AttemptsCoverDisk, PoisonIsSoleHome, HomeInv
  <2>11. up
    BY <1>1, <2>1
  <2> QED BY <2>1, <2>5, <2>6, <2>9, <2>10, <2>11 DEF HomeInv
<1>9. CASE PurgeFails
  <2>1. /\ op.step = "purge" /\ op' = NoOp
        /\ regular' = regular \/ regular' = regular \ Of({op.line.event}, regular)
        /\ UNCHANGED <<poison, torn, up, attempts, depth, puts, parked>>
    BY <1>9 DEF PurgeFails
  <2>2. StoreTypeOK' /\ regular' \subseteq regular
    BY <1>0, <1>2, <2>1 DEF StoreTypeOK
  <2> QED BY <1>1, <2>1, <2>2, Shrinks
<1>c. ASSUME op.step = "append", Write, op' = NoOp, depth' \in Int,
             parked' \subseteq Events, UNCHANGED <<torn, up, attempts, puts>>
      PROVE  HomeInv'
  <2>1. /\ regular' \subseteq Lines /\ poison' \subseteq Lines
        /\ IsFiniteSet(regular') /\ IsFiniteSet(poison')
        /\ \A l \in poison' : l.attempts >= PermanentThreshold
        /\ \A l \in regular' \cup poison' : l.attempts <= attempts[l.event]
        /\ \A l \in regular' \cup poison' : l.attempts <= puts[l.event]
        /\ PoisonIsSoleHome'
    BY <1>c, WriteKeepsApart
  <2>2. StoreTypeOK'
    BY <1>0, <1>c, <2>1 DEF StoreTypeOK
  <2>3. PutInv' /\ AttemptsCoverDisk'
    BY <1>c, <2>1 DEF PutInv, IsPut, NoOp, AttemptsCoverDisk
  <2>4. \A e \in Events : attempts'[e] <= puts'[e]
    BY <1>c DEF HomeInv
  <2> QED BY <1>c, <2>1, <2>2, <2>3, <2>4 DEF HomeInv
<1>10. CASE AppendRecord
  <2>1. op.line.event \in Events
    BY <1>0, <1>10, OpTypes DEF AppendRecord, IsPut
  <2> QED BY <1>0, <1>10, <1>c, <2>1 DEF AppendRecord
<1>11. CASE AppendFails
  <2>1. /\ op.step = "append" /\ op' = NoOp
        /\ UNCHANGED <<up, attempts, depth, puts, parked>>
    BY <1>11 DEF AppendFails
  <2>2. CASE Write /\ UNCHANGED torn
    BY <1>0, <1>c, <2>1, <2>2
  <2>3. CASE UNCHANGED <<regular, poison>> /\ torn' \subseteq torn \cup {Target}
    <3>1. Target \in Files
      BY DEF Target, Files
    <3>2. StoreTypeOK'
      BY <1>0, <2>1, <2>3, <3>1 DEF StoreTypeOK
    <3> QED BY <1>1, <2>1, <2>3, <3>2, Shrinks
  <2> QED BY <1>11, <2>2, <2>3 DEF AppendFails
<1>12. ASSUME NEW ids \in SUBSET Events, Remove(ids) PROVE HomeInv'
  <2>1. /\ up /\ op' = [step |-> "regular", ids |-> ids, removed |-> 0]
        /\ parked' = parked \ ids
        /\ UNCHANGED <<regular, poison, torn, up, attempts, depth, puts>>
    BY <1>12 DEF Remove
  <2>2. op' \in RemoveOps /\ op'.step \in Files
    BY <2>1 DEF RemoveOps, Files
  <2>3. StoreTypeOK'
    BY <1>0, <2>1, <2>2 DEF StoreTypeOK
  <2> QED BY <2>1, <2>2, <2>3, Shrinks
<1>13. CASE RemoveRegular
  <2>1. /\ op.step = "regular" /\ regular' = regular \ Of(op.ids, regular)
        /\ op' = [op EXCEPT !.step = "poison",
                            !.removed = Cardinality(Of(op.ids, regular))]
        /\ UNCHANGED <<poison, torn, up, attempts, depth, puts, parked>>
    BY <1>13 DEF RemoveRegular
  <2>2. op \in RemoveOps
    BY <1>0, <2>1, OpTypes DEF Files
  <2>3. op' \in RemoveOps /\ op'.step \in Files
    BY <1>2, <2>1, <2>2 DEF RemoveOps, Files
  <2>4. StoreTypeOK'
    BY <1>0, <1>2, <2>1, <2>3 DEF StoreTypeOK
  <2> QED BY <1>1, <2>1, <2>3, <2>4, Shrinks
<1>14. CASE RemovePoison
  <2>1. /\ op.step = "poison" /\ poison' = poison \ Of(op.ids, poison)
        /\ op' = NoOp /\ UNCHANGED <<regular, torn, up, attempts, puts, parked>>
    BY <1>14 DEF RemovePoison
  <2>2. op \in RemoveOps
    BY <1>0, <2>1, OpTypes DEF Files
  <2>3. depth' \in Int
    BY <1>0, <1>2, <1>14, <2>2 DEF RemovePoison, RemoveOps
  <2>4. StoreTypeOK'
    BY <1>0, <1>2, <2>1, <2>3 DEF StoreTypeOK
  <2> QED BY <1>1, <2>1, <2>4, Shrinks
<1>15. CASE RemoveFails
  <2>1. /\ op.step \in Files /\ op' = NoOp
        /\ regular' = regular \/ regular' = regular \ Of(op.ids, regular)
        /\ poison' = poison \/ poison' = poison \ Of(op.ids, poison)
        /\ UNCHANGED <<torn, up, attempts, depth, puts, parked>>
    BY <1>15 DEF RemoveFails
  <2>2. StoreTypeOK'
    BY <1>0, <1>2, <2>1 DEF StoreTypeOK
  <2>3. up
    BY <1>1, <2>1 DEF Files
  <2> QED BY <2>1, <2>2, <2>3, Shrinks
<1>16. CASE List \/ ListPoison \/ Reply
  <2>1. UNCHANGED <<regular, poison, torn, up, attempts, depth, op, puts, parked>>
    BY <1>16 DEF List, ListPoison, Reply
  <2> QED BY <2>1 DEF HomeInv, StoreTypeOK, AttemptsCoverDisk, PutInv, IsPut,
                      PoisonIsSoleHome
<1> QED
  BY <1>3, <1>4, <1>5, <1>6, <1>7, <1>8, <1>9, <1>10, <1>11, <1>12, <1>13,
     <1>14, <1>15, <1>16 DEF Next, Work

\* However an event's permanent and exhausted failures, its replays, crashes and
\* I/O errors are mixed, Put never leaves it in both files, so a replay of the
\* regular file never picks up a poisoned event.  This holds for any thresholds
\* that differ by at most one, and any number of events.
THEOREM SoleHome == Spec => []PoisonIsSoleHome
<1>1. HomeInv => PoisonIsSoleHome
  BY DEF HomeInv
<1> QED BY HomeInit, HomeStep, <1>1, PTL DEF Spec

\* An attempt number is used once: when the DLQ is open, no line on disk is
\* numbered higher than the count in memory, which Put raises first.
THEOREM CountsCoverDisk == Spec => []AttemptsCoverDisk
<1>1. HomeInv => AttemptsCoverDisk
  BY DEF HomeInv
<1> QED BY HomeInit, HomeStep, <1>1, PTL DEF Spec

-----------------------------------------------------------------------------
(* What is parked, and what a reader sees of it. *)

\* A running Put or Remove touches no event that the DLQ answers for.
ParkedInv ==
  /\ HomeInv
  /\ ParkedIsKept
  /\ IsPut => op.line.event \notin parked
  /\ op.step \in Files => op.ids \cap parked = {}

\* A reader that has not found an event in the regular file will find it in the
\* poison file: the event has been poisoned, so every later Put goes there too.
ReaderInv ==
  /\ reader \in {NoRead} \cup Reads
  /\ ~up => reader = NoRead
  /\ ReaderMissesNothing
  /\ reader.step = "second" /\ "poison" \notin torn =>
       \A e \in reader.parked \ reader.found :
         /\ attempts[e] >= PermanentThreshold
         /\ IsPut /\ op.line.event = e => op.poisoned
         /\ e \in parked => Of({e}, poison) # {}

LEMMA ParkedStep == ParkedInv /\ [Next]_vars => ParkedInv'
<1> USE DEF diskVars, memVars, histVars
<1> SUFFICES ASSUME ParkedInv, [Next]_vars PROVE ParkedInv'
  OBVIOUS
<1>0. HomeInv' /\ StoreTypeOK
  BY HomeStep DEF ParkedInv, HomeInv
<1>a. ASSUME torn \subseteq torn', parked' \subseteq parked,
             \A e \in parked' : Of({e}, regular \cup poison) # {} =>
                                 Of({e}, regular' \cup poison') # {}
      PROVE  ParkedIsKept'
  BY <1>a DEF ParkedInv, ParkedIsKept
<1>b. ASSUME torn \subseteq torn', parked' \subseteq parked,
             regular \subseteq regular', poison \subseteq poison'
      PROVE  ParkedIsKept'
  BY <1>a, <1>b DEF Of
<1>c. ASSUME op' = NoOp, ParkedIsKept' PROVE ParkedInv'
  BY <1>0, <1>c DEF ParkedInv, IsPut, NoOp, Files
<1>1. CASE UNCHANGED vars \/ Open \/ List \/ ListPoison \/ Reply
  <2>1. UNCHANGED <<regular, poison, torn, op, parked>>
    BY <1>1 DEF vars, Open, List, ListPoison, Reply
  <2> QED BY <1>0, <2>1 DEF ParkedInv, ParkedIsKept, IsPut
<1>2. CASE Close \/ Crash
  <2>1. /\ op' = NoOp /\ torn \subseteq torn' /\ parked' = parked
        /\ regular \subseteq regular' /\ poison \subseteq poison'
    BY <1>2 DEF Close, Crash, LoseMemory, Write
  <2> QED BY <1>b, <1>c, <2>1
<1>3. ASSUME NEW e \in Events, NEW permanent \in BOOLEAN, Put(e, permanent)
      PROVE  ParkedInv'
  <2>1. /\ op'.step \in {"purge", "append"} /\ op'.line.event = e
        /\ parked' = parked \ {e} /\ UNCHANGED <<regular, poison, torn>>
    BY <1>3 DEF Put
  <2> QED BY <1>0, <1>b, <2>1 DEF ParkedInv, IsPut, Files
<1>4. CASE Purge
  <2>1. /\ op.step = "purge" /\ op' = [op EXCEPT !.step = "append"]
        /\ regular' = regular \ Of({op.line.event}, regular)
        /\ UNCHANGED <<poison, torn, parked>>
    BY <1>4 DEF Purge
  <2>2. IsPut /\ op \in PutOps /\ op.line.event \notin parked
    BY <1>0, <2>1, OpTypes DEF IsPut, ParkedInv
  <2>3. op'.step = "append" /\ op'.line = op.line
    BY <2>1, <2>2 DEF PutOps
  <2>4. ParkedIsKept'
    BY <1>a, <2>1, <2>2 DEF Of
  <2> QED BY <1>0, <2>1, <2>2, <2>3, <2>4 DEF ParkedInv, IsPut, Files
<1>5. CASE PurgeFails
  <2>1. /\ op.step = "purge" /\ op' = NoOp /\ UNCHANGED <<poison, torn, parked>>
        /\ regular' \in {regular, regular \ Of({op.line.event}, regular)}
    BY <1>5 DEF PurgeFails
  <2>2. op.line.event \notin parked
    BY <2>1 DEF IsPut, ParkedInv
  <2>3. ParkedIsKept'
    BY <1>a, <2>1, <2>2 DEF Of
  <2> QED BY <1>c, <2>1, <2>3
<1>6. CASE AppendRecord
  <2>1. /\ op.step = "append" /\ op' = NoOp /\ Write
        /\ parked' = parked \cup {op.line.event} /\ torn' = torn
    BY <1>6 DEF AppendRecord
  <2>2. /\ regular \subseteq regular' /\ poison \subseteq poison'
        /\ torn = {} => op.line \in regular' \cup poison'
    BY <2>1 DEF Write
  <2>3. ParkedIsKept'
    BY <2>1, <2>2 DEF ParkedInv, ParkedIsKept, Of
  <2> QED BY <1>c, <2>1, <2>3
<1>7. CASE AppendFails
  <2>1. /\ op' = NoOp /\ torn \subseteq torn' /\ parked' = parked
        /\ regular \subseteq regular' /\ poison \subseteq poison'
    BY <1>7 DEF AppendFails, Write
  <2> QED BY <1>b, <1>c, <2>1
<1>8. ASSUME NEW ids \in SUBSET Events, Remove(ids) PROVE ParkedInv'
  <2>1. /\ op'.step = "regular" /\ op'.ids = ids
        /\ parked' = parked \ ids /\ UNCHANGED <<regular, poison, torn>>
    BY <1>8 DEF Remove
  <2> QED BY <1>0, <1>b, <2>1 DEF ParkedInv, IsPut, Files
<1>9. CASE RemoveRegular \/ RemovePoison \/ RemoveFails
  <2>1. /\ op.step \in Files /\ UNCHANGED <<torn, parked>>
        /\ regular' = regular \/ regular' = regular \ Of(op.ids, regular)
        /\ poison' = poison \/ poison' = poison \ Of(op.ids, poison)
        /\ op' = NoOp \/ /\ op.step = "regular"
                         /\ op' = [op EXCEPT !.step = "poison",
                              !.removed = Cardinality(Of(op.ids, regular))]
    BY <1>9 DEF RemoveRegular, RemovePoison, RemoveFails, Files
  <2>2. op.ids \cap parked = {} /\ op \in RemoveOps
    BY <1>0, <2>1, OpTypes DEF ParkedInv
  <2>3. ParkedIsKept'
    BY <1>a, <2>1, <2>2 DEF Of
  <2>4. CASE op' # NoOp
    <3>1. op'.step = "poison" /\ op'.ids = op.ids
      BY <2>1, <2>2, <2>4 DEF RemoveOps
    <3> QED BY <1>0, <2>1, <2>2, <2>3, <3>1 DEF ParkedInv, IsPut, Files
  <2> QED BY <1>c, <2>3, <2>4
<1> QED
  BY <1>1, <1>2, <1>3, <1>4, <1>5, <1>6, <1>7, <1>8, <1>9 DEF Next, Work

\* An event that Put took stays in a file until it is replayed or fails again,
\* whatever crashes or fails while it or another event is put or removed.
THEOREM ParkedKept == Spec => []ParkedIsKept
<1>1. Init => ParkedInv
  BY HomeInit DEF Init, ParkedInv, ParkedIsKept, IsPut, NoOp, Files
<1>2. ParkedInv => ParkedIsKept
  BY DEF ParkedInv
<1> QED BY ParkedStep, <1>1, <1>2, PTL DEF Spec

LEMMA ReaderStep == ParkedInv /\ ReaderInv /\ [Next]_vars => ReaderInv'
<1> USE DEF diskVars, memVars, histVars
<1> SUFFICES ASSUME ParkedInv, ReaderInv, [Next]_vars PROVE ReaderInv'
  OBVIOUS
<1>0. /\ StoreTypeOK /\ HomeInv /\ attempts \in [Events -> Nat]
      /\ regular \subseteq Lines /\ poison \subseteq Lines /\ parked \subseteq Events
      /\ torn \subseteq Files /\ PermanentThreshold \in Nat
  BY DLQAssumption DEF ParkedInv, HomeInv, StoreTypeOK
<1>1. reader.step = "second" =>
        reader.found \subseteq Events /\ reader.parked \subseteq Events
  BY DEF ReaderInv, NoRead, Reads
<1>a. ASSUME reader' = NoRead PROVE ReaderInv'
  BY <1>a DEF ReaderInv, ReaderMissesNothing, NoRead
\* A step that leaves the reader alone has to keep what the reader counts on.
<1> DEFINE CountsOn(e) == /\ attempts[e] >= PermanentThreshold
                          /\ IsPut /\ op.line.event = e => op.poisoned
                          /\ e \in parked => Of({e}, poison) # {}
<1>b. ASSUME reader' = reader, up' = up, torn \subseteq torn',
             \A e \in Events : CountsOn(e) /\ "poison" \notin torn' => CountsOn(e)'
      PROVE  ReaderInv'
  <2>1. /\ reader' \in {NoRead} \cup Reads /\ ReaderMissesNothing'
        /\ ~up' => reader' = NoRead
    BY <1>b DEF ReaderInv, ReaderMissesNothing
  <2>2. ASSUME reader'.step = "second", "poison" \notin torn',
               NEW e \in reader'.parked \ reader'.found
        PROVE  CountsOn(e)'
    <3>1. /\ e \in Events /\ reader.step = "second" /\ "poison" \notin torn
          /\ e \in reader.parked \ reader.found
      BY <1>1, <1>b, <2>2
    <3>2. CountsOn(e)
      BY <3>1 DEF ReaderInv
    <3> QED BY <1>b, <2>2, <3>1, <3>2
  <2> QED BY <2>1, <2>2 DEF ReaderInv
<1>2. CASE UNCHANGED vars
  BY <1>2 DEF vars, ReaderInv, ReaderMissesNothing, IsPut
<1>3. CASE Close \/ Crash \/ Reply
  BY <1>3, <1>a DEF Close, Crash, Reply, LoseMemory
<1>4. CASE Open
  \* There is no reader while the DLQ is closed.
  BY <1>4, <1>a DEF Open, ReaderInv
<1>5. CASE List
  <2>1. /\ up /\ up' = up /\ op = NoOp /\ "regular" \notin torn
        /\ reader' = [step |-> "second", found |-> {l.event : l \in regular},
                      parked |-> parked]
        /\ UNCHANGED <<regular, poison, torn, attempts, op, parked>>
    BY <1>5 DEF List, ReadOrder, InFile
  <2>2. ASSUME "poison" \notin torn, NEW e \in parked, e \notin {l.event : l \in regular}
        PROVE  CountsOn(e)
    <3>1. torn = {}
      BY <1>0, <2>1, <2>2 DEF Files
    <3>2. PICK l \in poison : l.event = e
      BY <2>2, <3>1 DEF ParkedInv, ParkedIsKept, Of
    <3>3. attempts[e] >= PermanentThreshold
      BY <1>0, <2>1, <2>2, <3>2 DEF HomeInv, AttemptsCoverDisk, Lines
    <3>4. ~IsPut
      BY <2>1 DEF IsPut, NoOp
    <3> QED BY <3>2, <3>3, <3>4 DEF Of
  <2>3. reader' \in Reads
    BY <1>0, <2>1 DEF Reads, Lines
  <2>4. ReaderMissesNothing' /\ reader'.parked = parked
        /\ reader'.found = {l.event : l \in regular}
    BY <2>1 DEF ReaderMissesNothing
  <2>5. \A e \in Events : CountsOn(e) => CountsOn(e)'
    BY <2>1 DEF IsPut
  <2> QED BY <1>0, <2>1, <2>2, <2>3, <2>4, <2>5 DEF ReaderInv
<1>6. CASE ListPoison
  <2>1. /\ op = NoOp /\ reader.step = "second"
        /\ UNCHANGED <<regular, poison, torn, up, attempts, op, parked>>
        /\ reader' = IF "poison" \in torn THEN NoRead
                     ELSE [step |-> "done",
                           found |-> reader.found \cup {l.event : l \in poison},
                           due |-> reader.parked \cap parked]
    BY <1>6 DEF ListPoison, ReadOrder, InFile
  <2>2. CASE "poison" \notin torn
    <3>1. reader.parked \cap parked \subseteq reader.found \cup {l.event : l \in poison}
      BY <2>1, <2>2 DEF ReaderInv, Of
    <3>2. reader' \in Reads /\ reader'.step = "done"
      BY <1>0, <1>1, <2>1, <2>2 DEF Reads, Lines
    <3>3. up
      BY <2>1 DEF ReaderInv, NoRead
    <3> QED BY <2>1, <2>2, <3>1, <3>2, <3>3 DEF ReaderInv, ReaderMissesNothing
  <2> QED BY <1>a, <2>1, <2>2
<1>7. ASSUME NEW x \in Events, NEW permanent \in BOOLEAN, Put(x, permanent)
      PROVE  ReaderInv'
  <2>1. /\ UNCHANGED <<reader, up, torn, poison>> /\ parked' = parked \ {x}
        /\ attempts' = [attempts EXCEPT ![x] = attempts[x] + 1]
        /\ op'.line.event = x
        /\ op'.poisoned = (attempts[x] + 1 >= Threshold(permanent))
    BY <1>7 DEF Put
  <2>2. attempts[x] >= PermanentThreshold => attempts[x] + 1 >= Threshold(permanent)
    BY <1>0, DLQAssumption DEF Threshold
  <2>3. ASSUME NEW e \in Events, CountsOn(e) PROVE CountsOn(e)'
    <3>1. CASE e = x
      <4>1. attempts'[e] = attempts[x] + 1 /\ attempts[x] \in Nat
        BY <1>0, <2>1, <3>1
      <4>2. attempts[x] >= PermanentThreshold
        BY <2>3, <3>1
      <4>3. attempts'[e] >= PermanentThreshold
        BY <1>0, <4>1, <4>2
      <4>4. op'.poisoned
        BY <2>1, <2>2, <4>2
      <4>5. e \notin parked'
        BY <2>1, <3>1
      <4> QED BY <4>3, <4>4, <4>5
    <3>2. CASE e # x
      <4>1. attempts'[e] = attempts[e] /\ op'.line.event # e
        BY <1>0, <2>1, <3>2
      <4>2. e \in parked' => Of({e}, poison') # {}
        BY <2>1, <2>3 DEF Of
      <4> QED BY <2>3, <4>1, <4>2
    <3> QED BY <3>1, <3>2
  <2> QED BY <1>b, <2>1, <2>3
<1>8. CASE Purge
  <2>1. /\ op.step = "purge" /\ op' = [op EXCEPT !.step = "append"]
        /\ UNCHANGED <<reader, up, torn, poison, attempts, parked>>
    BY <1>8 DEF Purge
  <2>2. IsPut /\ op'.line = op.line /\ op'.poisoned = op.poisoned
    BY <1>0, <2>1, OpTypes DEF IsPut, PutOps
  <2>3. \A e \in Events : CountsOn(e) => CountsOn(e)'
    BY <2>1, <2>2
  <2> QED BY <1>b, <2>1, <2>3
<1>9. CASE AppendRecord
  <2>1. /\ op.step = "append" /\ op' = NoOp /\ Write
        /\ parked' = parked \cup {op.line.event}
        /\ UNCHANGED <<reader, up, torn, attempts>>
    BY <1>9 DEF AppendRecord
  <2>2. IsPut /\ ~IsPut'
    BY <2>1 DEF IsPut, NoOp
  <2>3. /\ poison \subseteq poison'
        /\ op.poisoned /\ "poison" \notin torn => op.line \in poison'
    BY <2>1 DEF Write
  <2>4. \A e \in Events : CountsOn(e) /\ "poison" \notin torn' => CountsOn(e)'
    BY <2>1, <2>2, <2>3 DEF Of
  <2> QED BY <1>b, <2>1, <2>4
<1>10. CASE PurgeFails \/ AppendFails
  <2>1. /\ op' = NoOp /\ poison \subseteq poison' /\ torn \subseteq torn'
        /\ UNCHANGED <<reader, up, attempts, parked>>
    BY <1>10 DEF PurgeFails, AppendFails, Write
  <2>2. \A e \in Events : CountsOn(e) => CountsOn(e)'
    BY <2>1 DEF Of, IsPut, NoOp
  <2> QED BY <1>b, <2>1, <2>2
<1>11. ASSUME NEW ids \in SUBSET Events, Remove(ids) PROVE ReaderInv'
  <2>1. /\ op'.step = "regular" /\ parked' = parked \ ids
        /\ UNCHANGED <<reader, up, torn, poison, attempts>>
    BY <1>11 DEF Remove
  <2>2. \A e \in Events : CountsOn(e) => CountsOn(e)'
    BY <2>1 DEF IsPut
  <2> QED BY <1>b, <2>1, <2>2
<1>12. CASE RemoveRegular \/ RemovePoison \/ RemoveFails
  <2>1. /\ op.step \in Files /\ UNCHANGED <<reader, up, torn, attempts, parked>>
        /\ poison' = poison \/ poison' = poison \ Of(op.ids, poison)
        /\ op' = NoOp \/ op' = [op EXCEPT !.step = "poison",
                              !.removed = Cardinality(Of(op.ids, regular))]
    BY <1>12 DEF RemoveRegular, RemovePoison, RemoveFails, Files
  <2>2. op.ids \cap parked = {} /\ op \in RemoveOps
    BY <1>0, <2>1, OpTypes DEF ParkedInv
  <2>3. ~IsPut'
    <3>1. CASE op' = NoOp
      BY <3>1 DEF IsPut, NoOp
    <3>2. CASE op' = [op EXCEPT !.step = "poison",
                                !.removed = Cardinality(Of(op.ids, regular))]
      <4>1. op'.step = "poison"
        BY <2>2, <3>2, Zenon DEF RemoveOps
      <4> QED BY <4>1 DEF IsPut
    <3> QED BY <2>1, <3>1, <3>2
  <2>4. \A e \in Events : CountsOn(e) => CountsOn(e)'
    BY <2>1, <2>2, <2>3 DEF Of
  <2> QED BY <1>b, <2>1, <2>4
<1> QED
  BY <1>2, <1>3, <1>4, <1>5, <1>6, <1>7, <1>8, <1>9, <1>10, <1>11, <1>12
     DEF Next, Work

LEMMA ReaderInit == Init => ParkedInv /\ ReaderInv
BY HomeInit DEF Init, ParkedInv, ParkedIsKept, IsPut, NoOp, Files, ReaderInv,
                ReaderMissesNothing, NoRead

\* A request that reads the regular and then the poison file, with the lock given
\* back in between, misses no event that is parked at both times.
THEOREM ReaderComplete == Spec => []ReaderMissesNothing
<1>1. ReaderInv => ReaderMissesNothing
  BY DEF ReaderInv
<1> QED BY ReaderInit, ParkedStep, ReaderStep, <1>1, PTL DEF Spec

\* Every variable of the DLQ keeps its type.
THEOREM TypeCorrect == Spec => []TypeOK
<1>1. ParkedInv /\ ReaderInv => TypeOK
  BY DEF ParkedInv, HomeInv, ReaderInv, TypeOK
<1> QED BY ReaderInit, ParkedStep, ReaderStep, <1>1, PTL DEF Spec
=============================================================================

-------------------------------- MODULE DLQ --------------------------------
(***************************************************************************)
(* The dead-letter queue of internal/dlq, for one provider: its regular    *)
(* and its poison file, the counts it keeps in memory, and what crashes    *)
(* and I/O errors do to them.  Providers share nothing but the mutex.      *)
(*                                                                         *)
(* A file is a set of lines.  An event's lines have different attempt      *)
(* numbers, so a set loses nothing; their order is never looked at.  Put   *)
(* and Remove run under d.mu, one at a time; they are cut into steps at    *)
(* the points where the disk changes, because the process can die there.   *)
(***************************************************************************)
EXTENDS Integers, FiniteSets

CONSTANTS
  Events,
  PermanentThreshold,  \* permanentPoisonThreshold
  ExhaustedThreshold,  \* exhaustedPoisonThreshold
  MaxPuts,             \* bound: calls of Put for one event in one behaviour
  Env                  \* what may go wrong, see Mishaps

\* crash: the process dies; tear: part of a line is left behind; io: a system
\* call other than fsync fails; sync: the fsync of an appended line fails.
Mishaps == {"crash", "tear", "io", "sync"}

\* The thresholds of the code are 2 and 3.
ASSUME DLQAssumption ==
  /\ IsFiniteSet(Events)
  /\ PermanentThreshold \in Nat \ {0} /\ ExhaustedThreshold \in Nat
  /\ PermanentThreshold <= ExhaustedThreshold
  /\ ExhaustedThreshold <= PermanentThreshold + 1
  /\ MaxPuts \in Nat
  /\ Env \subseteq Mishaps

VARIABLES
  regular,   \* lines of <provider>.jsonl
  poison,    \* lines of <provider>.poison.jsonl
  torn,      \* the files that hold an undecodable line
  up,        \* the DLQ is open
  attempts,  \* d.attempts
  depth,     \* d.depth
  op,        \* the Put or Remove that holds d.mu
  reader,    \* a request that reads both files, see ReadOrder
  puts,      \* history: calls of Put so far, per event
  parked     \* history: events a successful Put has left to the DLQ

diskVars == <<regular, poison, torn>>
memVars  == <<up, attempts, depth, op>>
histVars == <<puts, parked>>
vars == <<diskVars, memVars, reader, histVars>>

Lines == [event : Events, attempts : Nat]
Files == {"regular", "poison"}

NoOp == [step |-> "none"]
PutOps == [step : {"purge", "append"}, line : Lines, poisoned : BOOLEAN]
RemoveOps == [step : {"regular", "poison"}, ids : SUBSET Events, removed : Nat]

NoRead == [step |-> "none"]
Reads == [step : {"second"}, found : SUBSET Events, parked : SUBSET Events]
           \cup [step : {"done"}, found : SUBSET Events, due : SUBSET Events]

Of(E, lines) == {l \in lines : l.event \in E}

\* Mutated: an event without lines is given a sentinel, not a zero count.
Recorded_Sentinel(e, lines) ==
  LET seen == {l.attempts : l \in Of({e}, lines)} \cup {-1}
  IN  CHOOSE n \in seen : \A m \in seen : m <= n

\* Mutated: some line's attempt number is taken, not the highest.
Recorded_NotMax(e, lines) ==
  LET seen == {l.attempts : l \in Of({e}, lines)}
  IN  IF seen = {} THEN 0 ELSE CHOOSE n \in seen : \A m \in seen : n <= m

\* The highest attempt number the lines record for e, or 0.
Recorded(e, lines) ==
  LET seen == {l.attempts : l \in Of({e}, lines)} \cup {0}
  IN  CHOOSE n \in seen : \A m \in seen : m <= n

Init ==
  /\ regular = {} /\ poison = {} /\ torn = {}
  /\ up = FALSE /\ attempts = [e \in Events |-> 0] /\ depth = 0 /\ op = NoOp
  /\ reader = NoRead
  /\ puts = [e \in Events |-> 0] /\ parked = {}

LoseMemory ==
  /\ up' = FALSE /\ attempts' = [e \in Events |-> 0] /\ depth' = 0
  /\ op' = NoOp /\ reader' = NoRead

-----------------------------------------------------------------------------

\* Mutated: the poison file is left out of the attempt counts.
Open_SkipsPoison ==
  /\ ~up /\ torn = {}
  /\ up' = TRUE
  /\ attempts' = [e \in Events |-> Recorded(e, regular)]
  /\ depth' = Cardinality(regular) + Cardinality(poison)
  /\ UNCHANGED <<diskVars, op, reader, histVars>>

\* Open counts lines and attempts from both files.  One undecodable line and it
\* returns an error, and the daemon does not start.
Open ==
  /\ ~up /\ torn = {}
  /\ up' = TRUE
  /\ attempts' = [e \in Events |-> Recorded(e, regular \cup poison)]
  /\ depth' = Cardinality(regular) + Cardinality(poison)
  /\ UNCHANGED <<diskVars, op, reader, histVars>>

\* Close: the process has stopped using the DLQ and ends.
Close ==
  /\ up /\ op = NoOp
  /\ LoseMemory
  /\ UNCHANGED <<diskVars, histVars>>

Threshold(permanent) ==
  IF permanent THEN PermanentThreshold ELSE ExhaustedThreshold

\* Put takes the lock and counts the attempt.  The event's WAL entry is not
\* acked before Put returns, so the DLQ is not yet answerable for it.
Put(e, permanent) ==
  LET n == attempts[e] + 1
      poisoned == n >= Threshold(permanent)
  IN  /\ up /\ op = NoOp
      /\ puts[e] < MaxPuts
      /\ attempts' = [attempts EXCEPT ![e] = n]
      /\ op' = [step |-> IF poisoned THEN "purge" ELSE "append",
                line |-> [event |-> e, attempts |-> n], poisoned |-> poisoned]
      /\ puts' = [puts EXCEPT ![e] = @ + 1]
      /\ parked' = parked \ {e}
      /\ UNCHANGED <<diskVars, up, depth, reader>>

\* Mutated: the regular file is truncated, other events' lines with it.
Purge_Truncates ==
  /\ op.step = "purge" /\ "regular" \notin torn
  /\ regular' = {}
  /\ depth' = depth - Cardinality(regular)
  /\ op' = [op EXCEPT !.step = "append"]
  /\ UNCHANGED <<poison, torn, up, attempts, reader, histVars>>

\* removeFromFile of the regular file: the rewritten file takes its place in one
\* rename.
Purge ==
  /\ op.step = "purge" /\ "regular" \notin torn
  /\ regular' = regular \ Of({op.line.event}, regular)
  /\ depth' = depth - Cardinality(Of({op.line.event}, regular))
  /\ op' = [op EXCEPT !.step = "append"]
  /\ UNCHANGED <<poison, torn, up, attempts, reader, histVars>>

\* It fails if the file cannot be read, or before the rename, or after it, when
\* the file is reopened for appending.  Put then gives up.
PurgeFails ==
  /\ op.step = "purge"
  /\ \/ "regular" \in torn /\ UNCHANGED regular
     \/ "io" \in Env /\ "regular" \notin torn
        /\ regular' \in {regular, regular \ Of({op.line.event}, regular)}
  /\ op' = NoOp
  /\ UNCHANGED <<poison, torn, up, attempts, depth, reader, histVars>>

\* appendRecord's write reaches the file.  A line that is appended to part of
\* another one cannot be decoded either.
Write ==
  IF op.poisoned
    THEN /\ poison' = IF "poison" \in torn THEN poison ELSE poison \cup {op.line}
         /\ UNCHANGED regular
    ELSE /\ regular' = IF "regular" \in torn THEN regular
                                             ELSE regular \cup {op.line}
         /\ UNCHANGED poison

AppendRecord ==
  /\ op.step = "append"
  /\ Write
  /\ depth' = depth + 1
  /\ parked' = parked \cup {op.line.event}
  /\ op' = NoOp
  /\ UNCHANGED <<torn, up, attempts, reader, puts>>

Target == IF op.poisoned THEN "poison" ELSE "regular"

\* The write fails, with none or part of the line in the file, or the fsync
\* does, with all of it there; the depth is not counted up.
AppendFails ==
  /\ op.step = "append"
  /\ \/ "io" \in Env /\ UNCHANGED diskVars
     \/ {"io", "tear"} \subseteq Env /\ torn' = torn \cup {Target}
        /\ UNCHANGED <<regular, poison>>
     \/ "sync" \in Env /\ Write /\ UNCHANGED torn
  /\ op' = NoOp
  /\ UNCHANGED <<up, attempts, depth, reader, histVars>>

-----------------------------------------------------------------------------

\* Remove: the regular file, then the poison file, then the depth.
Remove(ids) ==
  /\ up /\ op = NoOp /\ ids # {}
  /\ op' = [step |-> "regular", ids |-> ids, removed |-> 0]
  /\ parked' = parked \ ids
  /\ UNCHANGED <<diskVars, up, attempts, depth, reader, puts>>

RemoveRegular ==
  /\ op.step = "regular" /\ "regular" \notin torn
  /\ regular' = regular \ Of(op.ids, regular)
  /\ op' = [op EXCEPT !.step = "poison",
                      !.removed = Cardinality(Of(op.ids, regular))]
  /\ UNCHANGED <<poison, torn, up, attempts, depth, reader, histVars>>

RemovePoison ==
  /\ op.step = "poison" /\ "poison" \notin torn
  /\ poison' = poison \ Of(op.ids, poison)
  /\ LET left == depth - op.removed - Cardinality(Of(op.ids, poison))
     IN  depth' = IF left < 0 THEN 0 ELSE left
  /\ op' = NoOp
  /\ UNCHANGED <<regular, torn, up, attempts, reader, histVars>>

\* An error in either file ends Remove without touching the depth.
RemoveFails ==
  /\ op.step \in Files
  /\ \/ op.step \in torn /\ UNCHANGED <<regular, poison>>
     \/ /\ "io" \in Env /\ op.step \notin torn
        /\ \/ UNCHANGED <<regular, poison>>
           \/ /\ op.step = "regular"
              /\ regular' = regular \ Of(op.ids, regular) /\ UNCHANGED poison
           \/ /\ op.step = "poison"
              /\ poison' = poison \ Of(op.ids, poison) /\ UNCHANGED regular
  /\ op' = NoOp
  /\ UNCHANGED <<torn, up, attempts, depth, reader, histVars>>

-----------------------------------------------------------------------------

\* The process dies.  If it was about to append a line, all, none or part of it
\* may be in the file.
Crash ==
  /\ "crash" \in Env /\ up
  /\ \/ UNCHANGED diskVars
     \/ op.step = "append" /\ Write /\ UNCHANGED torn
     \/ op.step = "append" /\ "tear" \in Env /\ torn' = torn \cup {Target}
        /\ UNCHANGED <<regular, poison>>
  /\ LoseMemory
  /\ UNCHANGED histVars

(* Readers: the DLQ page, the status page and the replay of all records. *)

\* Mutated: the poison file is read first.
ReadOrder_PoisonFirst == <<"poison", "regular">>

\* List, then ListPoison.  Each takes the lock, but gives it back in between.
ReadOrder == <<"regular", "poison">>

InFile(file) ==
  {l.event : l \in IF file = "regular" THEN regular ELSE poison}

\* The first read.  One undecodable line and the request fails.
List ==
  /\ up /\ op = NoOp /\ reader = NoRead /\ ReadOrder[1] \notin torn
  /\ reader' = [step |-> "second", found |-> InFile(ReadOrder[1]),
                parked |-> parked]
  /\ UNCHANGED <<diskVars, memVars, histVars>>

\* The second.  due: what was parked at both times.
ListPoison ==
  /\ op = NoOp /\ reader.step = "second"
  /\ reader' = IF ReadOrder[2] \in torn THEN NoRead
               ELSE [step |-> "done",
                     found |-> reader.found \cup InFile(ReadOrder[2]),
                     due |-> reader.parked \cap parked]
  /\ UNCHANGED <<diskVars, memVars, histVars>>

Reply ==
  /\ reader.step = "done"
  /\ reader' = NoRead
  /\ UNCHANGED <<diskVars, memVars, histVars>>

-----------------------------------------------------------------------------

Work == \/ Purge \/ PurgeFails \/ AppendRecord \/ AppendFails
        \/ RemoveRegular \/ RemovePoison \/ RemoveFails

Next ==
  \/ Open \/ Close \/ Crash \/ Work \/ List \/ ListPoison \/ Reply
  \/ \E e \in Events, permanent \in BOOLEAN : Put(e, permanent)
  \/ \E ids \in SUBSET Events : Remove(ids)

Spec == Init /\ [][Next]_vars

\* The daemon is restarted whenever it is down, and an operation that holds the
\* lock goes on.
FairSpec == Spec /\ WF_vars(Open) /\ WF_vars(Work)

-----------------------------------------------------------------------------
(* Properties. *)

StoreTypeOK ==
  /\ regular \subseteq Lines /\ poison \subseteq Lines /\ torn \subseteq Files
  /\ IsFiniteSet(regular) /\ IsFiniteSet(poison)
  /\ up \in BOOLEAN /\ attempts \in [Events -> Nat] /\ depth \in Int
  /\ op \in {NoOp} \cup PutOps \cup RemoveOps
  /\ puts \in [Events -> Nat] /\ parked \subseteq Events

TypeOK == StoreTypeOK /\ reader \in {NoRead} \cup Reads

\* Put: "so the poison file becomes its sole current home".  No event is in both
\* files, after any mix of permanent and exhausted failures, replays, crashes
\* and I/O errors.
PoisonIsSoleHome ==
  \A l \in regular, m \in poison : l.event # m.event

\* An event that Put accepted stays in a file until it is replayed, or fails
\* again and is back in the WAL's care, whatever crashes or fails while it or
\* another event is put or removed.  A torn line breaks this, see OpensAgain.
ParkedIsKept ==
  torn = {} => \A e \in parked : Of({e}, regular \cup poison) # {}

\* A request that reads both files misses no event that is parked when it looks
\* into the first and when it looks into the second, although an event may move
\* from one to the other in between, or be replayed and fail again.
ReaderMissesNothing == reader.step = "done" => reader.due \subseteq reader.found

\* Depth: "the current (not cumulative) number of events dead-lettered for
\* provider, across both the regular and poison files".
DepthExact ==
  up /\ op = NoOp => depth = Cardinality(regular) + Cardinality(poison)

\* A set of lines is faithful to the files: Put never repeats the number of a
\* line that is on disk.
AttemptsCoverDisk ==
  up => \A l \in regular \cup poison : l.attempts <= attempts[l.event]

\* Record.Attempts: "the cumulative number of times this event (by ID) has been
\* dead-lettered for this provider across the DLQ's whole history,
\* reconstructed from disk on restart".
AttemptsCumulative ==
  up /\ op = NoOp => \A e \in Events : attempts[e] = puts[e]

\* Open: "reconstructing depth and attempt counts from whatever's already on
\* disk": whatever a crash left behind, the DLQ can be opened again.
OpensAgain == ~up ~> up
=============================================================================

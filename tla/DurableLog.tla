----------------------------- MODULE DurableLog -----------------------------
(***************************************************************************)
(* What internal/wal promises the rest of the daemon, with no segments, no *)
(* group commit and no files: a table of the providers that have not yet   *)
(* resolved an event.  A call takes effect exactly once, at some instant   *)
(* between its start and its answer.  A crash answers nobody; the calls it *)
(* cuts off may or may not have taken effect, each at most once, and no    *)
(* other entry of the table changes, then or at the next start.            *)
(***************************************************************************)
EXTENDS Integers, SequencesExt

CONSTANTS Events, Providers, Callers, Requests, NoRequest

VARIABLES
  serving,  \* the log accepts calls
  pend,     \* the providers each event waits for
  call      \* the request of each caller that waits for an answer

logVars == <<serving, pend, call>>

\* Append sets an event's providers, replacing whatever it still waited for;
\* Ack removes one of them.
Effect(t, r) ==
  [t EXCEPT ![r.event] = IF r.kind = "event" THEN r.providers
                                             ELSE @ \ r.providers]

Waiting == {c \in Callers : call[c] # NoRequest}

Init ==
  /\ serving = FALSE
  /\ pend = [e \in Events |-> {}]
  /\ call = [c \in Callers |-> NoRequest]

Start ==
  /\ ~serving
  /\ serving' = TRUE
  /\ UNCHANGED <<pend, call>>

Call(c, r) ==
  /\ serving /\ call[c] = NoRequest
  /\ call' = [call EXCEPT ![c] = r]
  /\ UNCHANGED <<serving, pend>>

Answer(c) ==
  /\ serving /\ c \in Waiting
  /\ pend' = Effect(pend, call[c])
  /\ call' = [call EXCEPT ![c] = NoRequest]
  /\ UNCHANGED serving

Crash ==
  /\ serving
  /\ serving' = FALSE
  /\ \E done \in SUBSET Waiting : \E order \in SetToSeqs(done) :
       pend' = FoldLeft(LAMBDA t, c : Effect(t, call[c]), pend, order)
  /\ call' = [c \in Callers |-> NoRequest]

Next ==
  \/ Start
  \/ \E c \in Callers, r \in Requests : Call(c, r)
  \/ \E c \in Callers : Answer(c)
  \/ Crash

Spec == Init /\ [][Next]_logVars
=============================================================================

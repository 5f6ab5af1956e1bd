--------------------------- MODULE WALRefinement ---------------------------
(* The write-ahead log implements DurableLog. *)
EXTENDS WAL

\* While the process is down or starting, the table is what the records say;
\* once the writer runs, it is the index.
Log == INSTANCE DurableLog WITH
         serving <- pc \in Running \cup {"exited"},
         pend    <- IF pc \in Running \cup {"exited"} THEN pending
                    ELSE [e \in Events |-> Unresolved(e, Decoded)],
         call    <- req

\* Group commit, rotation, reclamation and replay are invisible: every step of
\* the log is a step of DurableLog or leaves its table alone.  In particular
\* reclaiming a segment, then or at start-up, changes nothing a restart sees.
ImplementsDurableLog == Log!Spec
=============================================================================

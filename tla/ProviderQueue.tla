--------------------------- MODULE ProviderQueue ---------------------------
(***************************************************************************)
(* What a provider's batcher promises to the rest of the daemon.  Whoever  *)
(* calls Enqueue hands over an item, for which the WAL holds an entry.     *)
(* The batcher keeps the item until it has acked the entry, which it does  *)
(* only after the provider took the item or the DLQ was told of it.  Only  *)
(* a batcher that is being closed may let an item go without an ack: the   *)
(* WAL entry is then still there for the next start.  Once Close has       *)
(* returned, the batcher uses neither the WAL nor the DLQ.                 *)
(***************************************************************************)
CONSTANT Items

VARIABLES
  fate,  \* of each item, see Fates
  mode   \* "open", "closing", or "closed" once Close has returned

pqVars == <<fate, mode>>

\* recorded, unrecorded: DLQ.Put was called for the item, and did or did not
\* succeed; the entry is not acked yet.  unacked: the item is done with, but the
\* ack failed, so the WAL will bring it back.
Fates == {"new", "held", "recorded", "unrecorded", "accepted", "rejected",
          "lost", "unacked", "dropped"}

PQInit == fate = [x \in Items |-> "new"] /\ mode = "open"

Turn(x, from, to) == fate[x] = from /\ fate' = [fate EXCEPT ![x] = to]

Take(x) == Turn(x, "new", "held") /\ UNCHANGED mode

\* The item is resolved, one way or another.
Settle(x) ==
  /\ mode # "closed"
  /\ \/ Turn(x, "held", "accepted")   \/ Turn(x, "held", "unacked")
     \/ Turn(x, "held", "recorded")   \/ Turn(x, "recorded", "rejected")
     \/ Turn(x, "recorded", "unacked")
     \/ Turn(x, "held", "unrecorded") \/ Turn(x, "unrecorded", "lost")
     \/ Turn(x, "unrecorded", "unacked")
  /\ UNCHANGED mode

Drop(x) == mode # "open" /\ Turn(x, "held", "dropped") /\ UNCHANGED mode

Shut ==
  \/ mode = "open" /\ mode' = "closing" /\ UNCHANGED fate
  \/ /\ mode = "closing" /\ \A x \in Items : fate[x] \notin {"recorded", "unrecorded"}
     /\ mode' = "closed" /\ UNCHANGED fate

PQNext == (\E x \in Items : Take(x) \/ Settle(x) \/ Drop(x)) \/ Shut

PQSpec == PQInit /\ [][PQNext]_pqVars
=============================================================================

------------------------------- MODULE MCDLQ -------------------------------
(* Small instances of the dead-letter queue for TLC. *)
EXTENDS DLQ, TLC

CONSTANTS e1, e2

CrashEnv == {"crash"}
TearEnv == {"crash", "tear"}
SyncEnv == {"sync"}
AllEnv == Mishaps
NoEnv == {}

Symmetry == Permutations(Events)
=============================================================================

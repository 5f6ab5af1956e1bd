------------------------------- MODULE MCWAL -------------------------------
(* Small instances of the write-ahead log for TLC. *)
EXTENDS WALRefinement, TLC

CONSTANTS e1, e2, p1, p2, c1, c2

AllRoutes == (SUBSET Providers) \ {{}}
OneRoute == {Providers}

NoEnv == {}
CleanEnv == {"restart", "powerloss"}
IOErrorEnv == {"powerloss", "sync", "rotate", "write", "unlink"}
CloseEnv == CleanEnv \cup {"sync"}
TearEnv == {"powerloss", "tear"}
KillEnv == {"powerloss", "kill"}
RestartEnv == {"restart"}
UnlinkEnv == {"powerloss", "unlink"}
AllFaults == Hazards

Symmetry == Permutations(Events) \cup Permutations(Providers)
              \cup Permutations(Callers)
=============================================================================

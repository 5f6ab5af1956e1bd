---------------------------- MODULE MCAttempts ----------------------------
(* A small instance of the attempts for TLC. *)
EXTENDS Attempts

CONSTANTS e1, e2

Unset == [linger |-> 0, maxEvents |-> 0, maxElapsed |-> 0, maxInterval |-> 0]
Short == [linger |-> 1, maxEvents |-> 1, maxElapsed |-> 1, maxInterval |-> 1]

AnySettings == {Unset, Short}
=============================================================================

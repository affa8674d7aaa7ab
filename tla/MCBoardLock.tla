---------------------------- MODULE MCBoardLock -----------------------------
(***************************************************************************)
(* Instances of BoardLock for TLC.                                         *)
(***************************************************************************)
EXTENDS BoardLock, TLC

CONSTANTS p1, p2

(* Two daemons, and every command; any two pids can be exchanged.          *)
TwoPids == {p1, p2}

PidSymmetry == Permutations(TwoPids)

=============================================================================

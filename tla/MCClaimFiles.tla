---------------------------- MODULE MCClaimFiles ----------------------------
(***************************************************************************)
(* One or two workers on which TLC checks ClaimFiles.                      *)
(***************************************************************************)
EXTENDS ClaimFiles, TLC

CONSTANTS w1, w2
TwoWorkers == {w1, w2}
OneWorker == {w1}
WorkerSymmetry == Permutations(TwoWorkers)
=============================================================================

----------------------------- MODULE MCDispatch -----------------------------
(***************************************************************************)
(* Small boards on which TLC checks Dispatch.                              *)
(***************************************************************************)
EXTENDS DispatchProps, TLC

CONSTANTS a, b, w1, w2

TwoCards == {a, b}
TwoWorkers == {w1, w2}
OneWorker == {w1}

(* b waits for a; and the two cards on their own.                          *)
Chain == a :> {} @@ b :> {a}
NoDeps == a :> {} @@ b :> {}
Priority == a :> 1 @@ b :> 2

WorkerSymmetry == Permutations(TwoWorkers)
=============================================================================

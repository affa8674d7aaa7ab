---------------------------- MODULE MCCardFiles ----------------------------
(***************************************************************************)
(* Boards of three cards for CardFiles: the second waits for the first,    *)
(* the third for both.                                                     *)
(***************************************************************************)
EXTENDS CardFiles, TLC

CONSTANTS a, b, c

ThreeCards == {a, b, c}
Waits == a :> {} @@ b :> {a} @@ c :> {a, b}

(* Every column; REVIEW with an owner, BLOCKED with its reason, and a card *)
(* that was moved out of BLOCKED and kept it.                              *)
Left ==
    {r \in Stored : /\ r.owner = (r.status = "review")
                    /\ r.reason = (r.status \in {"blocked", "inbox"})}
=============================================================================

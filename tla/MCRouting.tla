----------------------------- MODULE MCRouting ------------------------------
(***************************************************************************)
(* agent_profiles.yaml with two profiles for the planner and the worker,   *)
(* a second file that load_config accepts, and four it turns down.         *)
(***************************************************************************)
EXTENDS Routing, TLC

CONSTANTS a, k1, k2, planner, thinker, worker, gemini, reviewer, unknown

Packaged ==
    [role |-> (planner :> "planner") @@ (thinker :> "planner") @@ (worker :> "worker")
              @@ (gemini :> "worker") @@ (reviewer :> "reviewer"),
     backend |-> [p \in Profiles |-> IF p = gemini THEN "acp" ELSE "subagent"],
     fallback |-> [p \in Profiles |-> IF p = gemini THEN worker ELSE NoProfile],
     default |-> [planner |-> planner, worker |-> worker, reviewer |-> reviewer],
     router |-> {"planner", "worker"},
     shared |-> FALSE]

Files ==
    {Packaged,
     [Packaged EXCEPT !.shared = TRUE, !.router = {"worker"}, !.default["worker"] = gemini],
     [Packaged EXCEPT !.fallback[gemini] = reviewer],
     [Packaged EXCEPT !.fallback[worker] = gemini],
     [Packaged EXCEPT !.default["reviewer"] = gemini],
     [Packaged EXCEPT !.default["reviewer"] = NoProfile]}
=============================================================================

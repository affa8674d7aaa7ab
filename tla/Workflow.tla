------------------------------ MODULE Workflow ------------------------------
(***************************************************************************)
(* What the board promises about its cards, whoever moves them: the six    *)
(* workflow columns, which column may follow which, the dependency gate,   *)
(* the work-in-progress limit on DOING and REVIEW, and the bounded number  *)
(* of reworks.  Claims, leases, workers and files do not appear; Dispatch  *)
(* implements this specification.                                          *)
(***************************************************************************)
EXTENDS Naturals, FiniteSets

CONSTANTS
    Cards,          \* the cards of the board
    DependsOn,      \* DependsOn[c]: the cards c waits for (Card.depends_on)
    WipLimit,       \* WipPolicy.doing_limit
    ReworkBudget,   \* RetryPolicy.rework
    MoveTargets     \* columns an operator may put a card in

Statuses == {"inbox", "ready", "doing", "review", "done", "blocked"}

VARIABLES
    status,      \* status[c]: the column of card c
    iteration    \* iteration[c]: reworks accepted so far (rework_iteration)

wfVars == <<status, iteration>>

-----------------------------------------------------------------------------
InColumns(S) == {c \in Cards : status[c] \in S}
WipCount == Cardinality(InColumns({"doing", "review"}))
DepsSatisfied(c) == \A d \in DependsOn[c] : status[d] = "done"

(* INBOX cards that a move of done to DONE releases.                       *)
Released(done) ==
    {c \in InColumns({"inbox"}) :
        done \in DependsOn[c] /\ \A d \in DependsOn[c] : d = done \/ status[d] = "done"}

WfInit ==
    /\ status \in [Cards -> {"inbox", "ready"}]
    /\ iteration = [c \in Cards |-> 0]

MoveTo(c, s) ==
    /\ status' = [status EXCEPT ![c] = s]
    /\ UNCHANGED iteration

(* The planner, or the completion of its last dependency, readies a card.  *)
Ready(c) ==
    /\ status[c] = "inbox"
    /\ MoveTo(c, "ready")

(* Work starts only under the WIP limit and with every dependency done.    *)
Start(c) ==
    /\ status[c] = "ready"
    /\ DepsSatisfied(c)
    /\ WipCount < WipLimit
    /\ MoveTo(c, "doing")

Submit(c) ==
    /\ status[c] = "doing"
    /\ MoveTo(c, "review")

Approve(c) ==
    /\ status[c] = "review"
    /\ MoveTo(c, "done")

(* A review may send the card back a bounded number of times.              *)
Rework(c) ==
    /\ status[c] = "review"
    /\ iteration[c] < ReworkBudget
    /\ status' = [status EXCEPT ![c] = "ready"]
    /\ iteration' = [iteration EXCEPT ![c] = @ + 1]

Block(c) ==
    /\ status[c] \notin {"done", "blocked"}
    /\ MoveTo(c, "blocked")

(* An operator moves the card; completing it releases its dependents.      *)
Override(c, s) ==
    LET released == IF s = "done" /\ status[c] # "done" THEN Released(c) \ {c} ELSE {}
    IN  /\ s \in MoveTargets
        /\ status' = [d \in Cards |-> IF d = c THEN s
                                      ELSE IF d \in released THEN "ready"
                                      ELSE status[d]]
        /\ UNCHANGED iteration

WfNext ==
    \E c \in Cards :
        \/ Ready(c) \/ Start(c) \/ Submit(c) \/ Approve(c) \/ Rework(c) \/ Block(c)
        \/ \E s \in MoveTargets : Override(c, s)

WfSpec == WfInit /\ [][WfNext]_wfVars
=============================================================================

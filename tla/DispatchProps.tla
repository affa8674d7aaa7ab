--------------------------- MODULE DispatchProps ---------------------------
(***************************************************************************)
(* What the split-topology runtime of Dispatch must guarantee.             *)
(***************************************************************************)
EXTENDS Dispatch

(* Shape of every variable.                                                *)
TypeOK ==
    /\ status \in [Cards -> Statuses]
    /\ iteration \in [Cards -> Nat]
    /\ claims \in [Cards -> Claim \cup {NoClaim}]
    /\ issued \in [Cards -> Nat]
    /\ results \subseteq Envelope
    /\ sentinel \subseteq Cards
    /\ worker \in [Workers -> {Idle} \cup Busy]
    /\ pc \in Controls
    /\ todo \subseteq Envelope
    /\ stale \subseteq Job
    /\ job \in Job \cup {NoJob}
    /\ slots \in Nat
    /\ ops \in Nat
    /\ asked \in [Cards -> Nat]

(* Only an operator strands a card, by a move to DOING (cli/helpers.py:92):*)
(* no transition, retry, recovery or selection leaves one there without a  *)
(* claim, of whatever columns the operator moves cards to.                 *)
Stranded(c) ==
    status[c] = "doing" /\ c \notin Live /\ ~(pc = "recreate" /\ job.card = c)
OnlyByHand ==
    [][\A c \in Cards : Stranded(c)' => Stranded(c) \/ Operate(c, "doing")]_vars

(* A DOING card always has a live claim, except inside retry_claim, which  *)
(* replaces it (scheduling.py:47, retry.py:165).  Nothing ever selects a   *)
(* DOING card, so one without a claim would sit there forever.  It takes an*)
(* operator who does not move cards to DOING by hand (cli/helpers.py:92).  *)
DoingClaimed == \A c \in Cards : ~Stranded(c)

(* The columns a claim's card can be in while the claim is being executed: *)
(* a planner's card may be readied under it by its last dependency.        *)
ColumnsOf(role) == CASE role = "planner"  -> {"inbox", "ready"}
                     [] role = "worker"   -> {"doing"}
                     [] role = "reviewer" -> {"review"}

(* No role is executed on a card that has left the role's column: a live   *)
(* claim and its card agree whenever the scheduler is not in the middle of *)
(* writing that card's transition.                                         *)
ClaimFitsColumn ==
    \A c \in Live :
        \/ status[c] \in ColumnsOf(claims[c].role)
        \/ job # NoJob /\ job.card = c /\ pc \in {"start", "advance", "clear"}

(* DOING and REVIEW together never exceed the limit, although REVIEW is    *)
(* entered by a worker's result, which checks no limit (scheduling.py:119),*)
(* as long as the operator puts no card there by hand and the scheduler is *)
(* not killed between the claim of a READY card and its move to DOING.     *)
WipRespected == WF!WipCount <= WipLimit

(* max_claims bounds the live claims of the board through retries, restarts*)
(* and selection (scheduler.py:37).                                        *)
ClaimsBounded == Cardinality(Live) <= MaxClaims

(* A card is sent back at most ReworkBudget times, and each bump of its    *)
(* counter answers a rework request of its own (models.py:179).            *)
ReworkCounted ==
    \A c \in Cards : iteration[c] <= ReworkBudget /\ iteration[c] <= asked[c]

(* Only the newest claim's result, submitted by the worker that owns the   *)
(* claim, changes a card: an envelope of a superseded attempt or of another*)
(* worker never starts a transition (results.py:83).                       *)
StartsTransition(e) == pc = "commit" /\ e \in todo \ todo' /\ job' # NoJob

OnlyOwnersResult ==
    [][\A e \in todo : StartsTransition(e) =>
            e.id = issued[e.card] /\ claims[e.card].owner = e.worker]_vars

(* A result leaves runtime/results only when its card has no live claim or *)
(* one newer than the result: an envelope that matches the live claim is   *)
(* never quarantined, however late it is (results.py:110-127).             *)
OrphansAreSuperseded ==
    [][\A e \in results \ results' :
            \/ e.card \notin Live
            \/ e.id # claims[e.card].id]_vars

(* Only an operator takes a card out of DONE: no late, duplicate or        *)
(* replayed result reopens or blocks finished work, whenever the scheduler *)
(* is killed and restarted.                                                *)
DoneIsFinal ==
    [][\A c \in Cards : status[c] = "done" /\ status'[c] # "done" => pc = "down"]_vars

(* The board implements the abstract workflow.                             *)
ImplementsWorkflow == WF!WfSpec

(* Every envelope submitted in full is eventually consumed: applied or     *)
(* orphaned.                                                               *)
EnvelopesConsumed ==
    \A c \in Cards : (\E e \in results : e.card = c) ~> ~(\E e \in results : e.card = c)

(* Every card settles: it ends DONE or BLOCKED for good, or waits for a    *)
(* dependency that did not complete; whatever the workers do.              *)
AtRest(c) == \/ status[c] \in {"done", "blocked"}
             \/ status[c] \in {"inbox", "ready"} /\ ~WF!DepsSatisfied(c)
Settles == \A c \in Cards : <>[]AtRest(c)

-----------------------------------------------------------------------------
(* Promised by the repository and not kept by the code: each is the        *)
(* subject of a run that ends in a counterexample.                         *)

(* A crashed worker never leaves a card that nobody can run again: the     *)
(* sentinel of a worker that is gone is released in the end                *)
(* (v0.1.2-concurrency-plan.md:49).                                        *)
Abandoned(c) ==
    /\ c \in sentinel
    /\ \A w \in Workers : worker[w].phase \in {"acquiring", "releasing"} => worker[w].card # c
SentinelReleased == \A c \in Cards : Abandoned(c) ~> ~Abandoned(c)
=============================================================================

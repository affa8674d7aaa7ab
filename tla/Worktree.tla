------------------------------ MODULE Worktree ------------------------------
(***************************************************************************)
(* The git worktree of one card: its branch kanban/<card>, its directory   *)
(* below workspace/worktrees, the work in it, and the metadata the card    *)
(* keeps of them.  They are changed by the scheduler (when it hands out a  *)
(* claim, commits a result, retries, blocks, and prunes when idle), by the *)
(* operator's transitions, kanban worktree prune and recover --stale, by   *)
(* the agents that work in the directory, and by git users.                *)
(*                                                                         *)
(* Cards do not share any of this, so one card is modelled.  A step is one *)
(* write of the board or one git command; a process may be killed between  *)
(* two of them.  Planning takes no worktree: the card starts in READY.     *)
(***************************************************************************)
EXTENDS Naturals, FiniteSets

CONSTANTS
    NoClaim,      \* the card is not claimed
    Budget,       \* retries of a failed or expired claim
    MaxWork,      \* a bound for model checking: pieces of work agents do
    MaxClaims,    \* a bound for model checking: claims handed out
    MaxMoves,     \* a bound for model checking: transitions by the operator
    MaxKills      \* a bound for model checking: kills and crashes

ASSUME WorktreeAssumption ==
    /\ Budget \in Nat /\ MaxWork \in Nat /\ MaxClaims \in Nat
    /\ MaxMoves \in Nat /\ MaxKills \in Nat

Work == 1..MaxWork
Terminal == {"done", "blocked"}
Columns == Terminal \cup {"ready", "doing", "review"}
Roles == {"worker", "reviewer"}
Answers == {"none", "ok", "fail", "rework", "reject"}

Claim == [id : 1..MaxClaims, role : Roles, retries : 0..Budget,
          answer : Answers, expired : BOOLEAN]

ASSUME NoClaimAssumption == NoClaim \notin Claim

(* linked: a worktree of git; gone: git lists it, the directory is         *)
(* missing; stray: a directory git does not list.                          *)
DirStates == {"none", "linked", "gone", "stray"}

Steps == {"off", "idle", "create", "meta", "claim", "move", "replace", "block",
          "detach", "commit", "remove", "clear", "unmeta"}

VARIABLES
    col,        \* the column of the card
    aged,       \* has it been BLOCKED for the retention time?
    meta,       \* does it record a worktree branch?
    claim,      \* its claim with the answer submitted for it, or NoClaim
    branch,     \* its branch: does it exist, the work committed on it
    base,       \* the work merged into the checkout of the project
    dir,        \* its directory
    dirty,      \* uncommitted work in the directory
    agent,      \* is an agent executing the claim?
    zombie,     \* is an agent of an earlier claim still running?
    ctl,        \* the step the process that writes the board is at, and who it is
    made,       \* history: the number of pieces of work done
    dropped,    \* history: work given up by retention or by the operator
    overlooked, \* history: uncommitted work a failing git status did not show
    left,       \* history: was a directory left behind, with a warning or by a kill?
    mainHurt,   \* history: was the project's own checkout committed?
    moves, claims, kills   \* counters for the bounds

card == <<col, aged, meta>>
git == <<branch, base, dir, dirty>>
agents == <<agent, zombie>>
history == <<made, dropped, overlooked, left, mainHurt>>
counters == <<moves, claims, kills>>
vars == <<card, claim, git, agents, ctl, history, counters>>

Init ==
    /\ col = "ready" /\ aged = FALSE /\ meta = FALSE
    /\ claim = NoClaim
    /\ branch = [exists |-> FALSE, has |-> {}] /\ base = {}
    /\ dir = "none" /\ dirty = {}
    /\ agent = FALSE /\ zombie = FALSE
    /\ ctl = [at |-> "off", by |-> "scheduler"]
    /\ made = 0 /\ dropped = {} /\ overlooked = {} /\ left = FALSE /\ mainHurt = FALSE
    /\ moves = 0 /\ claims = 0 /\ kills = 0

-----------------------------------------------------------------------------
(* Control.                                                                *)
At(step) == ctl.at = step
Goto(step) == ctl' = [ctl EXCEPT !.at = step]

(* What follows a detach: the scheduler clears the claim it worked on, the *)
(* operator's command ends.                                                *)
Resting == IF ctl.by = "operator" THEN "off" ELSE "idle"
AfterDetach == IF ctl.by = "scheduler" /\ claim # NoClaim THEN "clear" ELSE Resting

MoveTo(to) ==
    /\ col' = to
    /\ aged' = (to = "blocked" /\ col = "blocked" /\ aged)
    /\ UNCHANGED meta

Start ==
    /\ At("off")
    /\ ctl' = [at |-> "idle", by |-> "scheduler"]
    /\ UNCHANGED <<card, claim, git, agents, history, counters>>

(* Killed between two writes.  Nothing is replayed unless a claim remains. *)
Kill ==
    /\ ~At("off") /\ kills < MaxKills
    /\ kills' = kills + 1
    /\ Goto("off")
    /\ left' = (left \/ At("meta")
                \/ (claim = NoClaim /\ ctl.at \in {"detach", "commit", "remove"}))
    /\ UNCHANGED <<card, claim, git, agents, made, dropped, overlooked, mainHurt, moves, claims>>

-----------------------------------------------------------------------------
(* WorktreeClaimPreparer, and the same checks in retry_claim.              *)
HandOut == IF claim = NoClaim THEN "claim" ELSE "replace"

(* WorktreeManager.recheckout: what is in the way and not a worktree is    *)
(* removed, lost entries are pruned, the branch is checked out again.      *)
Recheckout ==
    \/ dir' = "linked" /\ Goto(HandOut)
    \/ dir' \in {"none"} \cup ({dir} \cap {"stray"}) /\ Goto("block")

(* Only a worker's claim may start with a new branch.                      *)
Replacement(role) == IF role = "worker" THEN "create" ELSE "block"

Prepare(role) ==
    /\ \/ meta /\ dir = "linked" /\ Goto(HandOut) /\ UNCHANGED dir
       \/ meta /\ branch.exists /\ dir # "linked" /\ Recheckout
       \/ ~(meta /\ branch.exists) /\ Goto(Replacement(role)) /\ UNCHANGED dir
    /\ UNCHANGED <<card, claim, branch, base, dirty, agents, history, counters>>

RoleFor == [ready |-> "worker", review |-> "reviewer"]

Select ==
    /\ At("idle") /\ claim = NoClaim /\ claims < MaxClaims
    /\ col \in DOMAIN RoleFor
    /\ Prepare(RoleFor[col])

(* WorktreeManager.create, git worktree add -b: fails when the branch or   *)
(* the directory exists, and for reasons of its own.                       *)
Create ==
    /\ At("create")
    /\ \/ /\ ~branch.exists /\ dir \in {"none", "gone"}
          /\ branch' = [exists |-> TRUE, has |-> base]
          /\ dir' = "linked"
          /\ Goto("meta")
       \/ Goto("block") /\ UNCHANGED <<branch, dir>>
    /\ UNCHANGED <<card, claim, base, dirty, agents, history, counters>>

RecordBranch ==
    /\ At("meta")
    /\ meta' = TRUE
    /\ Goto(HandOut)
    /\ UNCHANGED <<col, aged, claim, git, agents, history, counters>>

NewClaim(role, retries) ==
    [id |-> claims + 1, role |-> role, retries |-> retries, answer |-> "none", expired |-> FALSE]

PersistClaim ==
    /\ At("claim")
    /\ claim' = NewClaim(RoleFor[col], 0)
    /\ claims' = claims + 1
    /\ Goto(IF col = "ready" THEN "move" ELSE "idle")
    /\ UNCHANGED <<card, git, agents, history, moves, kills>>

MoveToDoing ==
    /\ At("move")
    /\ MoveTo("doing")
    /\ Goto("idle")
    /\ UNCHANGED <<claim, git, agents, history, counters>>

-----------------------------------------------------------------------------
(* Results, retries and blocks.                                            *)
NextColumn(role, answer) ==
    CASE answer = "ok"     -> IF role = "worker" THEN "review" ELSE "done"
      [] answer = "reject" -> "blocked"
      [] answer = "rework" -> "ready"

Answered == claim # NoClaim /\ claim.answer # "none"
Expired == claim # NoClaim /\ claim.answer = "none" /\ claim.expired
Failed == Expired \/ (Answered /\ claim.answer = "fail")
MayRetry == claim.retries < Budget /\ claims < MaxClaims

(* Mutant: a card that is done keeps its directory.                        *)
CommitAttached ==
    /\ At("idle") /\ Answered /\ claim.answer # "fail"
    /\ MoveTo(NextColumn(claim.role, claim.answer))
    /\ Goto(IF col' = "blocked" THEN "detach" ELSE "clear")
    /\ UNCHANGED <<claim, git, agents, history, counters>>

(* A result, also a second time after a kill: rework keeps the worktree.   *)
Commit ==
    /\ At("idle") /\ Answered /\ claim.answer # "fail"
    /\ MoveTo(NextColumn(claim.role, claim.answer))
    /\ Goto(IF col' \in Terminal THEN "detach" ELSE "clear")
    /\ UNCHANGED <<claim, git, agents, history, counters>>

(* Mutant: the replacement is handed out without a look at the worktree.   *)
RetryUnchecked ==
    /\ At("idle") /\ Failed
    /\ (MayRetry /\ Goto("replace")) \/ (claim.retries >= Budget /\ Goto("block"))
    /\ UNCHANGED <<card, claim, git, agents, history, counters>>

(* retry_or_block after a failure or a lost lease.  Without a recorded     *)
(* branch a retry checks nothing.                                          *)
RetryOrBlock ==
    /\ At("idle") /\ Failed
    /\ \/ MayRetry /\ meta /\ Prepare(claim.role)
       \/ /\ MayRetry /\ ~meta
          /\ Goto("replace")
          /\ UNCHANGED <<card, claim, git, agents, history, counters>>
       \/ /\ claim.retries >= Budget
          /\ Goto("block")
          /\ UNCHANGED <<card, claim, git, agents, history, counters>>

ReplaceClaim ==
    /\ At("replace")
    /\ claim' = NewClaim(claim.role, claim.retries + 1)
    /\ claims' = claims + 1
    /\ Goto("idle")
    /\ UNCHANGED <<card, git, agents, history, moves, kills>>

Block ==
    /\ At("block")
    /\ MoveTo("blocked")
    /\ Goto("detach")
    /\ UNCHANGED <<claim, git, agents, history, counters>>

ClearClaim ==
    /\ At("clear")
    /\ claim' = NoClaim
    /\ Goto("idle")
    /\ UNCHANGED <<card, git, agents, history, counters>>

-----------------------------------------------------------------------------
(* detach_worktree_on_terminal and WorktreeManager.detach.                 *)
Detach ==
    /\ At("detach")
    /\ \/ ~meta /\ Goto(AfterDetach) /\ UNCHANGED dir
       \/ meta /\ dir \in {"none", "gone"} /\ dir' = "none" /\ Goto(AfterDetach)
       \/ meta /\ dir \in {"linked", "stray"} /\ Goto("commit") /\ UNCHANGED dir
    /\ UNCHANGED <<card, claim, branch, base, dirty, agents, history, counters>>

(* Mutant: the directory is removed although its work is not committed.    *)
AutoCommitOrNot ==
    /\ At("commit")
    /\ Goto("remove")
    /\ \/ branch' = [branch EXCEPT !.has = @ \cup dirty] /\ dirty' = {}
       \/ UNCHANGED <<branch, dirty>>
    /\ UNCHANGED <<card, claim, base, dir, agents, history, counters>>

(* git status, git add -A and git commit in the directory.  A git status   *)
(* that fails shows nothing, and its directory counts as clean.  A commit  *)
(* that fails keeps the directory.  In a stray directory the commands are  *)
(* about the project's own checkout.                                       *)
AutoCommit ==
    /\ At("commit")
    /\ \/ /\ dir = "linked"
          /\ branch' = [branch EXCEPT !.has = @ \cup dirty]
          /\ dirty' = {}
          /\ Goto("remove")
          /\ UNCHANGED <<overlooked, left, mainHurt>>
       \/ /\ dirty # {}
          /\ overlooked' = overlooked \cup dirty
          /\ Goto("remove")
          /\ UNCHANGED <<branch, dirty, left, mainHurt>>
       \/ /\ dir = "stray"
          /\ mainHurt' \in {mainHurt, TRUE}
          /\ Goto("remove")
          /\ UNCHANGED <<branch, dirty, overlooked, left>>
       \/ /\ dirty # {} \/ dir = "stray"
          /\ left' = TRUE
          /\ Goto(AfterDetach)
          /\ UNCHANGED <<branch, dirty, overlooked, mainHurt>>
    /\ UNCHANGED <<card, claim, base, dir, agents, made, dropped, counters>>

(* git worktree remove --force.  When a process writes into the directory  *)
(* meanwhile, git forgets the worktree and leaves the directory.  A        *)
(* failure ends the scheduler; the operator's command warns.               *)
Remove ==
    /\ At("remove")
    /\ \/ /\ dir = "linked"
          /\ dir' = "none" /\ dirty' = {}
          /\ Goto(AfterDetach)
          /\ UNCHANGED <<left, kills>>
       \/ /\ dir = "stray" \/ (dir = "linked" /\ zombie)
          /\ ctl.by = "scheduler" => kills < MaxKills
          /\ dir' = "stray" /\ dirty' = {}
          /\ left' = TRUE
          /\ Goto("off")
          /\ kills' = IF ctl.by = "scheduler" THEN kills + 1 ELSE kills
    /\ UNCHANGED <<card, claim, branch, base, agents, made, dropped, overlooked, mainHurt,
                   moves, claims>>

-----------------------------------------------------------------------------
(* WorktreeManager.prune_stale: of a card whose directory is absent.       *)
Merged == branch.has \subseteq base

(* Mutant: a branch is deleted under the directory it is checked out in.   *)
StaleAttached == branch.exists /\ ((col = "done" /\ Merged) \/ (col = "blocked" /\ aged))

(* Mutant: only the branches of blocked cards are deleted.                 *)
StaleBlocked == dir = "none" /\ branch.exists /\ col = "blocked" /\ aged

(* git refuses to delete a branch it lists as checked out.                 *)
Stale ==
    /\ dir = "none" /\ branch.exists
    /\ \/ col = "done" /\ Merged
       \/ col = "blocked" /\ aged

(* An idle tick, or kanban worktree prune when no daemon runs.             *)
Prune ==
    /\ \/ At("idle") /\ ctl' = [at |-> "unmeta", by |-> "scheduler"] /\ ~Answered /\ ~Expired
       \/ At("off") /\ ctl' = [at |-> "unmeta", by |-> "operator"]
    /\ Stale
    /\ branch' = [exists |-> FALSE, has |-> {}]
    /\ dropped' = IF col = "blocked" THEN dropped \cup (branch.has \ base) ELSE dropped
    /\ UNCHANGED <<card, claim, base, dir, dirty, agents, made, overlooked, left, mainHurt, counters>>

ForgetBranch ==
    /\ At("unmeta")
    /\ meta' = FALSE
    /\ Goto(Resting)
    /\ UNCHANGED <<col, aged, claim, git, agents, history, counters>>

-----------------------------------------------------------------------------
(* The operator, when no daemon runs: move, block, unblock, requeue of a   *)
(* card without a claim (DOING, which nothing selects from, left out).     *)
Transition(to) ==
    /\ At("off") /\ claim = NoClaim /\ moves < MaxMoves
    /\ moves' = moves + 1
    /\ MoveTo(to)
    /\ ctl' = [at |-> IF to \in Terminal THEN "detach" ELSE "off", by |-> "operator"]
    /\ UNCHANGED <<claim, git, agents, history, claims, kills>>

(* recover --stale has no worktree manager: it neither checks nor detaches *)
(* a worktree, and it looks at leases only.                                *)
RecoverStale ==
    /\ At("off") /\ claim # NoClaim /\ claim.expired
    /\ \/ /\ MayRetry
          /\ claim' = NewClaim(claim.role, claim.retries + 1)
          /\ claims' = claims + 1
          /\ UNCHANGED <<card, left>>
       \/ /\ claim.retries >= Budget
          /\ MoveTo("blocked")
          /\ claim' = NoClaim
          /\ left' = TRUE
          /\ UNCHANGED claims
    /\ UNCHANGED <<git, agents, ctl, made, dropped, overlooked, mainHurt, moves, kills>>

(* A directory deleted by hand while nobody works in it.                   *)
DeleteDir ==
    /\ dir = "linked" /\ ~agent /\ ctl.at \in {"off", "idle"} /\ moves < MaxMoves
    /\ moves' = moves + 1
    /\ dir' = "gone" /\ dirty' = {}
    /\ dropped' = dropped \cup dirty
    /\ UNCHANGED <<card, claim, branch, base, agents, ctl, made, overlooked, left, mainHurt,
                   claims, kills>>

(* The branch is merged into the project's checkout.                       *)
Merge ==
    /\ branch.exists /\ ~Merged
    /\ base' = base \cup branch.has
    /\ UNCHANGED <<card, claim, branch, dir, dirty, agents, ctl, history, counters>>

Age ==
    /\ col = "blocked" /\ ~aged
    /\ aged' = TRUE
    /\ UNCHANGED <<col, meta, claim, git, agents, ctl, history, counters>>

-----------------------------------------------------------------------------
(* Agents.                                                                 *)
Execute ==
    /\ claim # NoClaim /\ claim.answer = "none" /\ ~claim.expired /\ ~agent
    /\ dir = "linked"
    /\ agent' = TRUE
    /\ UNCHANGED <<card, claim, git, zombie, ctl, history, counters>>

DoWork ==
    /\ agent /\ made < MaxWork
    /\ made' = made + 1
    /\ dirty' = dirty \cup {made'}
    /\ UNCHANGED <<card, claim, branch, base, dir, agents, ctl, dropped, overlooked, left, mainHurt,
                   counters>>

(* The worker submits its result; without a directory it can only fail.    *)
Answer ==
    /\ claim # NoClaim /\ claim.answer = "none" /\ ~claim.expired
    /\ \E answer \in Answers \ {"none"} :
          /\ answer # "fail" => agent
          /\ answer \in {"rework", "reject"} => claim.role = "reviewer"
          /\ claim' = [claim EXCEPT !.answer = answer]
    /\ agent' = FALSE
    /\ UNCHANGED <<card, git, zombie, ctl, history, counters>>

(* The lease ends, the worker being dead or late; an agent it started may  *)
(* be running still.                                                       *)
Expire ==
    /\ claim # NoClaim /\ ~claim.expired
    /\ claim' = [claim EXCEPT !.expired = TRUE]
    /\ agent' = FALSE
    /\ zombie' \in {zombie, zombie \/ agent}
    /\ UNCHANGED <<card, git, ctl, history, counters>>

(* It ends, or writes to its directory after that was removed.             *)
ZombieEnds ==
    /\ zombie /\ zombie' = FALSE
    /\ UNCHANGED <<card, claim, git, agent, ctl, history, counters>>

ZombieWrites ==
    /\ zombie /\ dir = "none" /\ branch.exists
    /\ dir' = "stray"
    /\ UNCHANGED <<card, claim, branch, base, dirty, agents, ctl, history, counters>>

-----------------------------------------------------------------------------
Scheduler ==
    \/ Start \/ Select \/ Create \/ RecordBranch \/ PersistClaim \/ MoveToDoing
    \/ Commit \/ RetryOrBlock \/ ReplaceClaim \/ Block \/ ClearClaim
    \/ Detach \/ AutoCommit \/ Remove \/ Prune \/ ForgetBranch

Operator == (\E to \in Columns \ {"doing"} : Transition(to)) \/ RecoverStale \/ DeleteDir

Environment ==
    \/ Kill \/ Merge \/ Age
    \/ Execute \/ DoWork \/ Answer \/ Expire \/ ZombieEnds \/ ZombieWrites

Next == Scheduler \/ Operator \/ Environment

(* A daemon that was stopped or has died is started again, and works.      *)
Spec == Init /\ [][Next]_vars /\ WF_vars(Scheduler)

-----------------------------------------------------------------------------
(* The shape of the state, and how git keeps it: a linked worktree has its *)
(* branch, uncommitted work is in a linked worktree.                       *)
TypeOK ==
    /\ col \in Columns /\ aged \in BOOLEAN /\ meta \in BOOLEAN
    /\ claim \in Claim \cup {NoClaim}
    /\ branch \in [exists : BOOLEAN, has : SUBSET Work]
    /\ base \subseteq Work /\ dirty \subseteq Work
    /\ dropped \subseteq Work /\ overlooked \subseteq Work
    /\ dir \in DirStates
    /\ agent \in BOOLEAN /\ zombie \in BOOLEAN
    /\ ctl \in [at : Steps, by : {"scheduler", "operator"}]
    /\ made \in 0..MaxWork /\ left \in BOOLEAN /\ mainHurt \in BOOLEAN
    /\ moves \in 0..MaxMoves /\ claims \in 0..MaxClaims /\ kills \in 0..MaxKills
    /\ dir \in {"linked", "gone"} => branch.exists
    /\ dirty # {} => dir = "linked"

(* No work an agent did is lost: it is in the directory, on the branch or  *)
(* merged, unless retention or the operator gave it up, or a git status    *)
(* that failed did not show it when the directory was removed, whatever is *)
(* detached, blocked, reworked, retried, pruned or killed in between.      *)
WorkKept == (1..made) \subseteq dirty \cup branch.has \cup base \cup dropped \cup overlooked

(* A claim the daemon hands out, the first or a retry, of a card at work   *)
(* has a directory of its own, on the card's branch.                       *)
Isolated ==
    [][ claims' # claims /\ ~At("off") /\ col \notin Terminal =>
            dir = "linked" /\ branch.exists ]_vars

(* A card at rest in DONE or BLOCKED has given its directory back, except  *)
(* where a commit or a removal failed, a command was killed before it      *)
(* detached, or recover --stale blocked the card.                          *)
Detached ==
    col \in Terminal /\ claim = NoClaim /\ ctl.at \in {"off", "idle"} /\ dir = "linked" => left

(* The branch of a finished, merged card is deleted in the end.            *)
Reclaimed ==
    (col = "done" /\ dir = "none" /\ branch.exists /\ Merged /\ claim = NoClaim)
        ~> (~branch.exists \/ col # "done" \/ dir # "none")

(* An agent's worktree is apart from the project's own checkout: what the  *)
(* operator has not committed there is never committed by a detach.        *)
MainUntouched == ~mainHurt
=============================================================================

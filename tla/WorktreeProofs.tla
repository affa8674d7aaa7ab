---------------------------- MODULE WorktreeProofs ----------------------------
(***************************************************************************)
(* Theorems about Worktree, for any budgets of retries, work, claims,      *)
(* operator's steps and kills.                                             *)
(***************************************************************************)
EXTENDS Worktree, TLAPS

(* Commits are on a branch.                                                *)
CommitsOnBranch == branch.has # {} => branch.exists

(* An agent executes a live claim, one without an answer and with a lease. *)
AgentHasClaim ==
    agent => /\ claim # NoClaim
             /\ claim.answer = "none" /\ ~claim.expired
             /\ dir = "linked"

(* From the decision to give a claim up to its removal it is dead, so that *)
(* nobody executes it.                                                     *)
Giving == {"create", "meta", "claim", "replace", "block", "detach", "commit", "remove", "clear"}
NobodyWorks ==
    ctl.at \in Giving /\ claim # NoClaim => claim.answer # "none" \/ claim.expired

(* What is removed has been committed or was overlooked.                   *)
RemovesClean == ctl.at = "remove" => dirty \subseteq overlooked

(* What is known of the claim and the card while a claim is made, replaced *)
(* or removed.                                                             *)
ClaimInHand ==
    /\ ctl.at \in {"create", "meta", "claim", "replace"} =>
            claims < MaxClaims /\ (claim # NoClaim => claim.retries < Budget)
    /\ claim = NoClaim /\ ctl.at \in {"create", "meta", "claim", "block"} => col \in {"ready", "review"}
    /\ ctl.at = "claim" => claim = NoClaim
    /\ ctl.at \in {"move", "replace", "clear"} => claim # NoClaim

WorkInv ==
    /\ TypeOK /\ CommitsOnBranch /\ ClaimInHand
    /\ AgentHasClaim /\ NobodyWorks /\ RemovesClean
    /\ WorkKept

(* The card knows of its directory.                                        *)
Recorded ==
    /\ dir = "linked" => meta \/ left \/ ctl.at = "meta"
    /\ ctl.at = "unmeta" => dir # "linked"

(* While a finished card has its directory, a detach is under way or its   *)
(* result will be committed again.                                         *)
DetachPending ==
    col \in Terminal /\ dir = "linked" /\ ~left =>
        \/ ctl.at \in {"detach", "commit", "remove"}
        \/ claim # NoClaim /\ ctl.at # "clear"

DetachInv == Recorded /\ DetachPending

-----------------------------------------------------------------------------
LEMMA Constants ==
    /\ Budget \in Nat /\ MaxWork \in Nat /\ MaxClaims \in Nat
    /\ MaxMoves \in Nat /\ MaxKills \in Nat
    /\ NoClaim \notin Claim
  BY WorktreeAssumption, NoClaimAssumption DEF WorktreeAssumption, NoClaimAssumption

(* Claims as they are made and changed.                                    *)
LEMMA ClaimFields ==
    ASSUME NEW k \in Claim
    PROVE  /\ k # NoClaim /\ k.id \in 1..MaxClaims /\ k.role \in Roles
           /\ k.retries \in 0..Budget /\ k.answer \in Answers /\ k.expired \in BOOLEAN
  BY Constants DEF Claim

LEMMA NewClaimFields ==
    ASSUME claims \in 0..MaxClaims, claims < MaxClaims, NEW role \in Roles, NEW r \in 0..Budget
    PROVE  /\ NewClaim(role, r) \in Claim
           /\ NewClaim(role, r).role = role /\ NewClaim(role, r).retries = r
           /\ NewClaim(role, r).answer = "none" /\ ~NewClaim(role, r).expired
  BY Constants DEF NewClaim, Claim, Answers

LEMMA AnsweredClaim ==
    ASSUME TypeOK, Answer
    PROVE  /\ claim' \in Claim /\ claim' # NoClaim /\ claim # NoClaim
           /\ claim'.answer # "none" /\ claim'.retries = claim.retries
  <1>. PICK answer \in Answers \ {"none"} : claim' = [claim EXCEPT !.answer = answer]
    BY DEF Answer
  <1>. claim \in Claim
    BY DEF Answer, TypeOK
  <1>. QED
    BY Constants DEF Claim, Answer

LEMMA ExpiredClaim ==
    ASSUME TypeOK, Expire
    PROVE  /\ claim' \in Claim /\ claim' # NoClaim /\ claim # NoClaim
           /\ claim'.expired /\ claim'.retries = claim.retries
           /\ claim'.answer = claim.answer
  <1>. claim \in Claim
    BY DEF Expire, TypeOK
  <1>. QED
    BY Constants DEF Claim, Expire

(* Those the scheduler makes have a role and stay in their budgets.        *)
LEMMA MadeClaim ==
    ASSUME TypeOK, ClaimInHand, PersistClaim \/ ReplaceClaim \/ (RecoverStale /\ claim' # NoClaim)
    PROVE  /\ claim' \in Claim /\ claim' # NoClaim /\ claims' \in 0..MaxClaims
           /\ claim'.answer = "none" /\ ~claim'.expired
  <1>1. CASE PersistClaim
    <2>1. RoleFor[col] \in Roles
      BY <1>1 DEF PersistClaim, ClaimInHand, At, RoleFor, Roles
    <2>2. claims \in 0..MaxClaims /\ claims < MaxClaims /\ 0 \in 0..Budget
      BY <1>1, Constants DEF PersistClaim, ClaimInHand, At, TypeOK
    <2>3. claim' = NewClaim(RoleFor[col], 0) /\ claims' = claims + 1
      BY <1>1 DEF PersistClaim
    <2>. QED
      BY <2>1, <2>2, <2>3, NewClaimFields, Constants
  <1>2. CASE ReplaceClaim
    <2>1. claim \in Claim /\ claim.retries < Budget /\ claims < MaxClaims /\ claims \in 0..MaxClaims
      BY <1>2 DEF ReplaceClaim, ClaimInHand, At, TypeOK
    <2>2. claim.role \in Roles /\ claim.retries + 1 \in 0..Budget
      BY <2>1, ClaimFields, Constants
    <2>3. claim' = NewClaim(claim.role, claim.retries + 1) /\ claims' = claims + 1
      BY <1>2 DEF ReplaceClaim
    <2>. QED
      BY <2>1, <2>2, <2>3, NewClaimFields, Constants
  <1>3. CASE RecoverStale /\ claim' # NoClaim
    <2>1. claim \in Claim /\ claim.retries < Budget /\ claims < MaxClaims /\ claims \in 0..MaxClaims
      BY <1>3 DEF RecoverStale, MayRetry, TypeOK
    <2>2. claim.role \in Roles /\ claim.retries + 1 \in 0..Budget
      BY <2>1, ClaimFields, Constants
    <2>3. claim' = NewClaim(claim.role, claim.retries + 1) /\ claims' = claims + 1
      BY <1>3 DEF RecoverStale
    <2>. QED
      BY <2>1, <2>2, <2>3, NewClaimFields, Constants
  <1>. QED
    BY <1>1, <1>2, <1>3

(* recover --stale gives a claim up with a note that the directory is left.*)
LEMMA GivenUp ==
    ASSUME TypeOK, RecoverStale, claim' = NoClaim
    PROVE  left' /\ col' = "blocked"
  <1>1. claim \in Claim /\ claims \in 0..MaxClaims
    BY DEF RecoverStale, TypeOK
  <1>2. MayRetry => NewClaim(claim.role, claim.retries + 1) # NoClaim
    BY <1>1, ClaimFields, NewClaimFields, Constants DEF MayRetry
  <1>. QED
    BY <1>2 DEF RecoverStale, MoveTo

LEMMA CreatedBranch ==
    ASSUME TypeOK, Create
    PROVE  branch' \in [exists : BOOLEAN, has : SUBSET Work]
  <1>1. branch \in [exists : BOOLEAN, has : SUBSET Work] /\ base \in SUBSET Work
    BY DEF TypeOK
  <1>2. CASE branch' = [exists |-> TRUE, has |-> base]
    BY <1>1, <1>2
  <1>3. CASE branch' = branch
    BY <1>1, <1>3
  <1>. QED
    BY <1>2, <1>3 DEF Create

LEMMA InitialInv == Init => WorkInv /\ DetachInv
  <1>. SUFFICES ASSUME Init PROVE WorkInv /\ DetachInv
    OBVIOUS
  <1>1. ctl \in [at : Steps, by : {"scheduler", "operator"}] /\ ctl.at = "off"
    BY DEF Init, Steps
  <1>2. branch \in [exists : BOOLEAN, has : SUBSET Work] /\ branch.has = {}
    BY DEF Init
  <1>3. TypeOK
    <2>1. dir \in DirStates /\ col \in Columns /\ aged \in BOOLEAN /\ meta \in BOOLEAN
      BY DEF Init, DirStates, Columns
    <2>2. base \subseteq Work /\ dirty \subseteq Work /\ dropped \subseteq Work /\ overlooked \subseteq Work
      BY DEF Init
    <2>3. made \in 0..MaxWork /\ moves \in 0..MaxMoves /\ claims \in 0..MaxClaims /\ kills \in 0..MaxKills
      BY Constants DEF Init
    <2>. QED
      BY <1>1, <1>2, <2>1, <2>2, <2>3 DEF Init, TypeOK
  <1>4. WorkKept
    BY Constants DEF Init, WorkKept
  <1>. QED
    BY <1>1, <1>2, <1>3, <1>4 DEF Init, WorkInv, DetachInv, CommitsOnBranch, AgentHasClaim, NobodyWorks,
       RemovesClean, ClaimInHand, Recorded, DetachPending, Terminal, Giving

(* What TypeOK says of the variables a step is about.                      *)
CardShape == col \in Columns /\ aged \in BOOLEAN /\ meta \in BOOLEAN
ClaimShape == claim \in Claim \cup {NoClaim} /\ claims \in 0..MaxClaims
GitShape ==
    /\ branch \in [exists : BOOLEAN, has : SUBSET Work]
    /\ base \subseteq Work /\ dirty \subseteq Work /\ dropped \subseteq Work /\ overlooked \subseteq Work
    /\ dir \in DirStates /\ made \in 0..MaxWork
WorkInPlace ==
    /\ dir \in {"linked", "gone"} => branch.exists
    /\ dirty # {} => dir = "linked"
ControlShape ==
    /\ ctl \in [at : Steps, by : {"scheduler", "operator"}]
    /\ agent \in BOOLEAN /\ zombie \in BOOLEAN /\ left \in BOOLEAN /\ mainHurt \in BOOLEAN
    /\ moves \in 0..MaxMoves /\ kills \in 0..MaxKills

(* No step breaks the shape of the state.                                  *)
LEMMA CardStep ==
    ASSUME TypeOK, [Next]_vars
    PROVE  CardShape'
  <1>. USE DEF card, git, agents, history, counters, At, Goto, TypeOK, CardShape, Columns, Terminal
  <1>1. CASE RecordBranch
    BY <1>1 DEF RecordBranch, HandOut
  <1>2. CASE MoveToDoing
    BY <1>2 DEF MoveToDoing, MoveTo
  <1>3. CASE Commit
    BY <1>3, ClaimFields DEF Commit, MoveTo, Answered, NextColumn, Answers
  <1>4. CASE Block
    BY <1>4 DEF Block, MoveTo
  <1>5. CASE ForgetBranch
    BY <1>5 DEF ForgetBranch, Resting
  <1>6. CASE \E to \in Columns \ {"doing"} : Transition(to)
    BY <1>6 DEF Transition, MoveTo
  <1>7. CASE RecoverStale
    BY <1>7 DEF RecoverStale, MoveTo, MayRetry
  <1>8. CASE Age
    BY <1>8 DEF Age
  <1>9. CASE \/ Start \/ Select \/ Create \/ PersistClaim \/ RetryOrBlock
            \/ ReplaceClaim \/ ClearClaim \/ Detach \/ AutoCommit
            \/ Remove \/ Prune \/ DeleteDir \/ Kill \/ Merge \/ Execute
            \/ DoWork \/ Answer \/ Expire \/ ZombieEnds \/ ZombieWrites
            \/ UNCHANGED vars
    BY <1>9 DEF Start, Select, Prepare, Recheckout, Replacement,
       HandOut, RoleFor, Create, PersistClaim, RetryOrBlock, Failed,
       Expired, Answered, MayRetry, ReplaceClaim, ClearClaim, Detach,
       AfterDetach, Resting, AutoCommit, Remove, Prune, Stale, Merged,
       DeleteDir, Kill, Merge, Execute, DoWork, Answer, Expire, ZombieEnds,
       ZombieWrites, vars
  <1>. QED
    BY <1>1, <1>2, <1>3, <1>4, <1>5, <1>6, <1>7, <1>8, <1>9 DEF Next,
       Scheduler, Operator, Environment

LEMMA ClaimStep ==
    ASSUME TypeOK, ClaimInHand, [Next]_vars
    PROVE  ClaimShape'
  <1>. USE Constants DEF card, git, agents, history, counters, At, Goto, TypeOK, ClaimShape
  <1>1. CASE PersistClaim
    BY <1>1, MadeClaim DEF PersistClaim, RoleFor
  <1>2. CASE ReplaceClaim
    BY <1>2, MadeClaim DEF ReplaceClaim
  <1>3. CASE ClearClaim
    BY <1>3 DEF ClearClaim
  <1>4. CASE RecoverStale
    <2>1. CASE claim' = NoClaim
      BY <1>4, <2>1, GivenUp DEF RecoverStale, MoveTo, MayRetry
    <2>2. CASE claim' # NoClaim
      BY <1>4, <2>2, MadeClaim DEF RecoverStale, MoveTo, MayRetry
    <2>. QED
      BY <2>1, <2>2
  <1>5. CASE Answer
    BY <1>5, AnsweredClaim DEF Answer
  <1>6. CASE Expire
    BY <1>6, ExpiredClaim DEF Expire
  <1>7. CASE \/ Start \/ Select \/ Create \/ RecordBranch \/ MoveToDoing
            \/ Commit \/ RetryOrBlock \/ Block \/ Detach \/ AutoCommit
            \/ Remove \/ Prune \/ ForgetBranch
            \/ (\E to \in Columns \ {"doing"} : Transition(to))
            \/ DeleteDir \/ Kill \/ Merge \/ Age \/ Execute \/ DoWork
            \/ ZombieEnds \/ ZombieWrites \/ UNCHANGED vars
    BY <1>7 DEF Start, Select, Prepare, Recheckout, Replacement,
       HandOut, RoleFor, Create, RecordBranch, MoveToDoing, MoveTo, Commit,
       Answered, NextColumn, RetryOrBlock, Failed, Expired, MayRetry,
       Block, Detach, AfterDetach, Resting, AutoCommit, Remove, Prune,
       Stale, Merged, ForgetBranch, Transition, DeleteDir, Kill, Merge,
       Age, Execute, DoWork, ZombieEnds, ZombieWrites, vars
  <1>. QED
    BY <1>1, <1>2, <1>3, <1>4, <1>5, <1>6, <1>7 DEF Next, Scheduler,
       Operator, Environment

LEMMA GitStep ==
    ASSUME TypeOK, [Next]_vars
    PROVE  GitShape'
  <1>. USE Constants DEF card, git, agents, history, counters, At, Goto, TypeOK, GitShape, DirStates, Work
  <1>1. CASE Select
    BY <1>1 DEF Select, Prepare, Recheckout, Replacement, HandOut, RoleFor
  <1>2. CASE Create
    BY <1>2, CreatedBranch DEF Create
  <1>3. CASE RetryOrBlock
    BY <1>3 DEF RetryOrBlock, Prepare, Recheckout, Replacement, HandOut, Failed, Expired, Answered, MayRetry
  <1>4. CASE Detach
    BY <1>4 DEF Detach, AfterDetach, Resting
  <1>5. CASE AutoCommit
    BY <1>5 DEF AutoCommit, AfterDetach, Resting
  <1>6. CASE Remove
    BY <1>6 DEF Remove, AfterDetach, Resting
  <1>7. CASE Prune
    BY <1>7 DEF Prune, Stale, Merged, Answered, Expired
  <1>8. CASE DeleteDir
    BY <1>8 DEF DeleteDir
  <1>9. CASE Merge
    BY <1>9 DEF Merge, Merged
  <1>10. CASE DoWork
    BY <1>10 DEF DoWork
  <1>11. CASE ZombieWrites
    BY <1>11 DEF ZombieWrites
  <1>12. CASE \/ Start \/ RecordBranch \/ PersistClaim \/ MoveToDoing
            \/ Commit \/ ReplaceClaim \/ Block \/ ClearClaim
            \/ ForgetBranch
            \/ (\E to \in Columns \ {"doing"} : Transition(to))
            \/ RecoverStale \/ Kill \/ Age \/ Execute \/ Answer \/ Expire
            \/ ZombieEnds \/ UNCHANGED vars
    BY <1>12 DEF Start, RecordBranch, HandOut, PersistClaim, RoleFor,
       MoveToDoing, MoveTo, Commit, Answered, NextColumn, ReplaceClaim,
       Block, ClearClaim, ForgetBranch, Resting, Transition, RecoverStale,
       MayRetry, Kill, Age, Execute, Answer, Expire, ZombieEnds, vars
  <1>. QED
    BY <1>1, <1>2, <1>3, <1>4, <1>5, <1>6, <1>7, <1>8, <1>9, <1>10,
       <1>11, <1>12 DEF Next, Scheduler, Operator, Environment

LEMMA PlaceStep ==
    ASSUME WorkInv, [Next]_vars
    PROVE  WorkInPlace'
  <1>. USE DEF card, git, agents, history, counters, At, Goto, WorkInv, TypeOK, WorkInPlace, DirStates, AgentHasClaim
  <1>1. CASE Select
    BY <1>1 DEF Select, Prepare, Recheckout, Replacement, HandOut, RoleFor
  <1>2. CASE Create
    BY <1>2 DEF Create
  <1>3. CASE RetryOrBlock
    BY <1>3 DEF RetryOrBlock, Prepare, Recheckout, Replacement, HandOut, Failed, Expired, Answered, MayRetry
  <1>4. CASE Detach
    BY <1>4 DEF Detach, AfterDetach, Resting
  <1>5. CASE AutoCommit
    BY <1>5 DEF AutoCommit, AfterDetach, Resting
  <1>6. CASE Remove
    BY <1>6 DEF Remove, AfterDetach, Resting
  <1>7. CASE Prune
    BY <1>7 DEF Prune, Stale, Merged, Answered, Expired
  <1>8. CASE DeleteDir
    BY <1>8 DEF DeleteDir
  <1>9. CASE DoWork
    BY <1>9 DEF DoWork
  <1>10. CASE ZombieWrites
    BY <1>10 DEF ZombieWrites
  <1>11. CASE \/ Start \/ RecordBranch \/ PersistClaim \/ MoveToDoing
            \/ Commit \/ ReplaceClaim \/ Block \/ ClearClaim
            \/ ForgetBranch
            \/ (\E to \in Columns \ {"doing"} : Transition(to))
            \/ RecoverStale \/ Kill \/ Merge \/ Age \/ Execute \/ Answer
            \/ Expire \/ ZombieEnds \/ UNCHANGED vars
    BY <1>11 DEF Start, RecordBranch, HandOut, PersistClaim, RoleFor,
       MoveToDoing, MoveTo, Commit, Answered, NextColumn, ReplaceClaim,
       Block, ClearClaim, ForgetBranch, Resting, Transition, RecoverStale,
       MayRetry, Kill, Merge, Merged, Age, Execute, Answer, Expire,
       ZombieEnds, vars
  <1>. QED
    BY <1>1, <1>2, <1>3, <1>4, <1>5, <1>6, <1>7, <1>8, <1>9, <1>10,
       <1>11 DEF Next, Scheduler, Operator, Environment

LEMMA ControlStep ==
    ASSUME TypeOK, [Next]_vars
    PROVE  ControlShape'
  <1>. USE Constants DEF card, git, agents, history, counters, At, Goto, TypeOK, ControlShape, Steps
  <1>1. CASE Start
    BY <1>1 DEF Start
  <1>2. CASE Select
    BY <1>2 DEF Select, Prepare, Recheckout, Replacement, HandOut, RoleFor
  <1>3. CASE Create
    BY <1>3 DEF Create
  <1>4. CASE RecordBranch
    BY <1>4 DEF RecordBranch, HandOut
  <1>5. CASE PersistClaim
    BY <1>5 DEF PersistClaim, RoleFor
  <1>6. CASE MoveToDoing
    BY <1>6 DEF MoveToDoing, MoveTo
  <1>7. CASE Commit
    BY <1>7 DEF Commit, MoveTo, Answered, NextColumn
  <1>8. CASE RetryOrBlock
    BY <1>8 DEF RetryOrBlock, Prepare, Recheckout, Replacement, HandOut, Failed, Expired, Answered, MayRetry
  <1>9. CASE ReplaceClaim
    BY <1>9 DEF ReplaceClaim
  <1>10. CASE Block
    BY <1>10 DEF Block, MoveTo
  <1>11. CASE ClearClaim
    BY <1>11 DEF ClearClaim
  <1>12. CASE Detach
    BY <1>12 DEF Detach, AfterDetach, Resting
  <1>13. CASE AutoCommit
    BY <1>13 DEF AutoCommit, AfterDetach, Resting
  <1>14. CASE Remove
    <2>1. kills' \in 0..MaxKills
      BY <1>14 DEF Remove
    <2>2. ctl' \in [at : Steps, by : {"scheduler", "operator"}]
      BY <1>14 DEF Remove, AfterDetach, Resting
    <2>. QED
      BY <1>14, <2>1, <2>2 DEF Remove
  <1>15. CASE Prune
    BY <1>15 DEF Prune, Stale, Merged, Answered, Expired
  <1>16. CASE ForgetBranch
    BY <1>16 DEF ForgetBranch, Resting
  <1>17. CASE \E to \in Columns \ {"doing"} : Transition(to)
    BY <1>17 DEF Transition, MoveTo
  <1>18. CASE RecoverStale
    BY <1>18 DEF RecoverStale, MoveTo, MayRetry
  <1>19. CASE DeleteDir
    BY <1>19 DEF DeleteDir
  <1>20. CASE Kill
    BY <1>20 DEF Kill
  <1>21. CASE \/ Merge \/ Age \/ Execute \/ DoWork \/ Answer \/ Expire
            \/ ZombieEnds \/ ZombieWrites \/ UNCHANGED vars
    BY <1>21 DEF Merge, Merged, Age, Execute, DoWork, Answer, Expire,
       ZombieEnds, ZombieWrites, vars
  <1>. QED
    BY <1>1, <1>2, <1>3, <1>4, <1>5, <1>6, <1>7, <1>8, <1>9, <1>10,
       <1>11, <1>12, <1>13, <1>14, <1>15, <1>16, <1>17, <1>18, <1>19,
       <1>20, <1>21 DEF Next, Scheduler, Operator, Environment

(* A claim in hand is made or removed, and nobody works on a dead one.     *)
LEMMA HandStep ==
    ASSUME WorkInv, [Next]_vars
    PROVE  ClaimInHand'
  <1>. USE Constants DEF card, git, agents, history, counters, At, Goto, WorkInv, TypeOK, Steps, Columns, Terminal, ClaimInHand
  <1>1. CASE Start
    BY <1>1 DEF Start
  <1>2. CASE Select
    BY <1>2 DEF Select, Prepare, Recheckout, Replacement, HandOut, RoleFor
  <1>3. CASE Create
    BY <1>3 DEF Create
  <1>4. CASE RecordBranch
    BY <1>4 DEF RecordBranch, HandOut
  <1>5. CASE PersistClaim
    BY <1>5, MadeClaim DEF PersistClaim, RoleFor
  <1>6. CASE MoveToDoing
    BY <1>6 DEF MoveToDoing, MoveTo
  <1>7. CASE Commit
    BY <1>7 DEF Commit, MoveTo, Answered, NextColumn
  <1>8. CASE RetryOrBlock
    BY <1>8 DEF RetryOrBlock, Prepare, Recheckout, Replacement, HandOut, Failed, Expired, Answered, MayRetry
  <1>9. CASE ReplaceClaim
    BY <1>9, MadeClaim DEF ReplaceClaim
  <1>10. CASE Block
    BY <1>10 DEF Block, MoveTo
  <1>11. CASE ClearClaim
    BY <1>11 DEF ClearClaim
  <1>12. CASE Detach
    BY <1>12 DEF Detach, AfterDetach, Resting
  <1>13. CASE AutoCommit
    BY <1>13 DEF AutoCommit, AfterDetach, Resting
  <1>14. CASE Remove
    BY <1>14 DEF Remove, AfterDetach, Resting
  <1>15. CASE Prune
    BY <1>15 DEF Prune, Stale, Merged, Answered, Expired
  <1>16. CASE ForgetBranch
    BY <1>16 DEF ForgetBranch, Resting
  <1>17. CASE \E to \in Columns \ {"doing"} : Transition(to)
    BY <1>17 DEF Transition, MoveTo
  <1>18. CASE RecoverStale
    BY <1>18, MadeClaim DEF RecoverStale, MoveTo, MayRetry
  <1>19. CASE Kill
    BY <1>19 DEF Kill
  <1>20. CASE Answer
    BY <1>20, AnsweredClaim DEF Answer
  <1>21. CASE Expire
    BY <1>21, ExpiredClaim DEF Expire
  <1>22. CASE \/ DeleteDir \/ Merge \/ Age \/ Execute \/ DoWork
            \/ ZombieEnds \/ ZombieWrites \/ UNCHANGED vars
    BY <1>22 DEF DeleteDir, Merge, Merged, Age, Execute, DoWork,
       ZombieEnds, ZombieWrites, vars
  <1>. QED
    BY <1>1, <1>2, <1>3, <1>4, <1>5, <1>6, <1>7, <1>8, <1>9, <1>10,
       <1>11, <1>12, <1>13, <1>14, <1>15, <1>16, <1>17, <1>18, <1>19,
       <1>20, <1>21, <1>22 DEF Next, Scheduler, Operator, Environment

LEMMA AgentStep ==
    ASSUME WorkInv, [Next]_vars
    PROVE  AgentHasClaim' /\ NobodyWorks'
  <1>. USE DEF card, git, agents, history, counters, At, Goto, WorkInv, TypeOK, DirStates, Steps, Answers, AgentHasClaim, NobodyWorks, Giving
  <1>1. CASE Select
    BY <1>1 DEF Select, Prepare, Recheckout, Replacement, HandOut, RoleFor
  <1>2. CASE Create
    BY <1>2 DEF Create
  <1>3. CASE RecordBranch
    BY <1>3 DEF RecordBranch, HandOut
  <1>4. CASE PersistClaim
    BY <1>4, MadeClaim DEF PersistClaim, RoleFor
  <1>5. CASE MoveToDoing
    BY <1>5 DEF MoveToDoing, MoveTo
  <1>6. CASE Commit
    BY <1>6 DEF Commit, MoveTo, Answered, NextColumn
  <1>7. CASE RetryOrBlock
    BY <1>7 DEF RetryOrBlock, Prepare, Recheckout, Replacement, HandOut, Failed, Expired, Answered, MayRetry
  <1>8. CASE ReplaceClaim
    BY <1>8, MadeClaim DEF ReplaceClaim
  <1>9. CASE Block
    BY <1>9 DEF Block, MoveTo
  <1>10. CASE ClearClaim
    BY <1>10 DEF ClearClaim
  <1>11. CASE Detach
    BY <1>11 DEF Detach, AfterDetach, Resting
  <1>12. CASE AutoCommit
    BY <1>12 DEF AutoCommit, AfterDetach, Resting
  <1>13. CASE Remove
    BY <1>13 DEF Remove, AfterDetach, Resting
  <1>14. CASE Prune
    BY <1>14 DEF Prune, Stale, Merged, Answered, Expired
  <1>15. CASE ForgetBranch
    BY <1>15 DEF ForgetBranch, Resting
  <1>16. CASE \E to \in Columns \ {"doing"} : Transition(to)
    BY <1>16 DEF Transition, MoveTo
  <1>17. CASE RecoverStale
    BY <1>17, MadeClaim DEF RecoverStale, MoveTo, MayRetry
  <1>18. CASE DeleteDir
    BY <1>18 DEF DeleteDir
  <1>19. CASE Execute
    BY <1>19 DEF Execute
  <1>20. CASE Answer
    BY <1>20, AnsweredClaim DEF Answer
  <1>21. CASE Expire
    BY <1>21, ExpiredClaim DEF Expire
  <1>22. CASE ZombieWrites
    BY <1>22 DEF ZombieWrites
  <1>23. CASE \/ Start \/ Kill \/ Merge \/ Age \/ DoWork \/ ZombieEnds
            \/ UNCHANGED vars
    BY <1>23 DEF Start, Kill, Merge, Merged, Age, DoWork, ZombieEnds,
       vars
  <1>. QED
    BY <1>1, <1>2, <1>3, <1>4, <1>5, <1>6, <1>7, <1>8, <1>9, <1>10,
       <1>11, <1>12, <1>13, <1>14, <1>15, <1>16, <1>17, <1>18, <1>19,
       <1>20, <1>21, <1>22, <1>23 DEF Next, Scheduler, Operator,
       Environment

(* Work moves from the directory to the branch to the checkout.            *)
LEMMA WorkStep ==
    ASSUME WorkInv, [Next]_vars
    PROVE  CommitsOnBranch' /\ RemovesClean' /\ WorkKept'
  <1>. USE DEF card, git, agents, history, counters, At, Goto, WorkInv, TypeOK, Work, CommitsOnBranch, RemovesClean, WorkKept, NobodyWorks, AgentHasClaim, Giving, Terminal, Steps
  <1>1. CASE Select
    BY <1>1 DEF Select, Prepare, Recheckout, Replacement, HandOut, RoleFor
  <1>2. CASE Create
    BY <1>2 DEF Create
  <1>3. CASE RetryOrBlock
    BY <1>3 DEF RetryOrBlock, Prepare, Recheckout, Replacement, HandOut, Failed, Expired, Answered, MayRetry
  <1>4. CASE Detach
    BY <1>4 DEF Detach, AfterDetach, Resting
  <1>5. CASE AutoCommit
    BY <1>5 DEF AutoCommit, AfterDetach, Resting
  <1>6. CASE Remove
    <2>1. dirty \subseteq overlooked
      BY <1>6 DEF Remove, RemovesClean, At
    <2>. QED
      BY <1>6, <2>1 DEF Remove, AfterDetach, Resting
  <1>7. CASE Prune
    BY <1>7 DEF Prune, Stale, Merged, Answered, Expired
  <1>8. CASE DeleteDir
    BY <1>8 DEF DeleteDir
  <1>9. CASE Merge
    BY <1>9 DEF Merge, Merged
  <1>10. CASE DoWork
    BY <1>10 DEF DoWork
  <1>11. CASE \/ Start \/ RecordBranch \/ PersistClaim \/ MoveToDoing
            \/ Commit \/ ReplaceClaim \/ Block \/ ClearClaim
            \/ ForgetBranch
            \/ (\E to \in Columns \ {"doing"} : Transition(to))
            \/ RecoverStale \/ Kill \/ Age \/ Execute \/ Answer \/ Expire
            \/ ZombieEnds \/ ZombieWrites \/ UNCHANGED vars
    BY <1>11 DEF Start, RecordBranch, HandOut, PersistClaim, RoleFor,
       MoveToDoing, MoveTo, Commit, Answered, NextColumn, ReplaceClaim,
       Block, ClearClaim, ForgetBranch, Resting, Transition, RecoverStale,
       MayRetry, Kill, Age, Execute, Answer, Expire, ZombieEnds,
       ZombieWrites, vars
  <1>. QED
    BY <1>1, <1>2, <1>3, <1>4, <1>5, <1>6, <1>7, <1>8, <1>9, <1>10,
       <1>11 DEF Next, Scheduler, Operator, Environment

(* A finished card's directory waits for its detach.                       *)
LEMMA DetachStep ==
    ASSUME WorkInv, DetachInv, [Next]_vars
    PROVE  DetachInv'
  <1>. USE DEF card, git, agents, history, counters, At, Goto, WorkInv, TypeOK, DirStates, Steps, Columns, Terminal, DetachInv, ClaimInHand, Recorded, DetachPending, AgentHasClaim, NobodyWorks, Giving
  <1>1. CASE Select
    BY <1>1 DEF Select, Prepare, Recheckout, Replacement, HandOut, RoleFor
  <1>2. CASE Create
    BY <1>2 DEF Create
  <1>3. CASE RecordBranch
    BY <1>3 DEF RecordBranch, HandOut
  <1>4. CASE PersistClaim
    BY <1>4, MadeClaim DEF PersistClaim, RoleFor
  <1>5. CASE MoveToDoing
    BY <1>5 DEF MoveToDoing, MoveTo
  <1>6. CASE Commit
    BY <1>6 DEF Commit, MoveTo, Answered, NextColumn
  <1>7. CASE RetryOrBlock
    BY <1>7 DEF RetryOrBlock, Prepare, Recheckout, Replacement, HandOut, Failed, Expired, Answered, MayRetry
  <1>8. CASE ReplaceClaim
    BY <1>8, MadeClaim DEF ReplaceClaim
  <1>9. CASE Block
    BY <1>9 DEF Block, MoveTo
  <1>10. CASE ClearClaim
    BY <1>10 DEF ClearClaim
  <1>11. CASE Detach
    BY <1>11 DEF Detach, AfterDetach, Resting
  <1>12. CASE AutoCommit
    BY <1>12 DEF AutoCommit, AfterDetach, Resting
  <1>13. CASE Remove
    BY <1>13 DEF Remove, AfterDetach, Resting
  <1>14. CASE Prune
    BY <1>14 DEF Prune, Stale, Merged, Answered, Expired
  <1>15. CASE ForgetBranch
    BY <1>15 DEF ForgetBranch, Resting
  <1>16. CASE \E to \in Columns \ {"doing"} : Transition(to)
    BY <1>16 DEF Transition, MoveTo
  <1>17. CASE RecoverStale
    <2>1. CASE claim' = NoClaim
      BY <1>17, <2>1, GivenUp DEF RecoverStale, MoveTo, MayRetry
    <2>2. CASE claim' # NoClaim
      BY <1>17, <2>2, MadeClaim DEF RecoverStale, MoveTo, MayRetry
    <2>. QED
      BY <2>1, <2>2
  <1>18. CASE DeleteDir
    BY <1>18 DEF DeleteDir
  <1>19. CASE Kill
    BY <1>19 DEF Kill
  <1>20. CASE Answer
    BY <1>20, AnsweredClaim DEF Answer
  <1>21. CASE Expire
    BY <1>21, ExpiredClaim DEF Expire
  <1>22. CASE ZombieWrites
    BY <1>22 DEF ZombieWrites
  <1>23. CASE \/ Start \/ Merge \/ Age \/ Execute \/ DoWork \/ ZombieEnds
            \/ UNCHANGED vars
    BY <1>23 DEF Start, Merge, Merged, Age, Execute, DoWork, ZombieEnds,
       vars
  <1>. QED
    BY <1>1, <1>2, <1>3, <1>4, <1>5, <1>6, <1>7, <1>8, <1>9, <1>10,
       <1>11, <1>12, <1>13, <1>14, <1>15, <1>16, <1>17, <1>18, <1>19,
       <1>20, <1>21, <1>22, <1>23 DEF Next, Scheduler, Operator,
       Environment

-----------------------------------------------------------------------------
LEMMA NextInv == WorkInv /\ DetachInv /\ [Next]_vars => WorkInv' /\ DetachInv'
  <1>. SUFFICES ASSUME WorkInv, DetachInv, [Next]_vars PROVE WorkInv' /\ DetachInv'
    OBVIOUS
  <1>1. TypeOK /\ ClaimInHand
    BY DEF WorkInv
  <1>2. CardShape' /\ ClaimShape'
    BY <1>1, CardStep, ClaimStep
  <1>3. GitShape' /\ WorkInPlace' /\ ControlShape'
    BY <1>1, GitStep, PlaceStep, ControlStep
  <1>4. TypeOK'
    BY <1>2, <1>3 DEF TypeOK, CardShape, ClaimShape, GitShape, WorkInPlace, ControlShape
  <1>5. ClaimInHand' /\ AgentHasClaim' /\ NobodyWorks'
    BY HandStep, AgentStep
  <1>6. CommitsOnBranch' /\ RemovesClean' /\ WorkKept' /\ DetachInv'
    BY WorkStep, DetachStep
  <1>. QED
    BY <1>4, <1>5, <1>6 DEF WorkInv

LEMMA Invariance == Spec => [](WorkInv /\ DetachInv)
  BY InitialInv, NextInv, PTL DEF Spec

(* The state keeps its shape: a worktree git lists has its branch, and     *)
(* uncommitted work is in such a worktree.                                 *)
THEOREM TypeCorrect == Spec => []TypeOK
  <1>1. WorkInv => TypeOK
    BY DEF WorkInv
  <1>. QED
    BY <1>1, Invariance, PTL

(* No work of an agent is lost by create, recheckout, detach, retry, block,*)
(* prune and kills between their steps: it is in the directory, on the     *)
(* branch, merged, or was given up by retention, by hand, or because a     *)
(* failing git status did not show it.                                     *)
THEOREM NoWorkLost == Spec => []WorkKept
  <1>1. WorkInv => WorkKept
    BY DEF WorkInv
  <1>. QED
    BY <1>1, Invariance, PTL

(* A card at rest in DONE or BLOCKED has given its directory back, unless  *)
(* a step was recorded that leaves it behind.                              *)
THEOREM FinishedIsDetached == Spec => []Detached
  <1>1. WorkInv /\ DetachInv => Detached
    BY DEF DetachInv, DetachPending, Detached
  <1>. QED
    BY <1>1, Invariance, PTL

-----------------------------------------------------------------------------
(* A result that moves the card on to another role.                        *)
Advances ==
    claim # NoClaim /\ (claim.answer = "rework" \/ (claim.answer = "ok" /\ claim.role = "worker"))

(* Who hands a claim out has linked the card's directory just before.  A   *)
(* card at work whose claim may be retried without a look at the directory *)
(* would have a claim and no recorded branch: such a claim is of a         *)
(* finished card, and nobody can have worked on it.                        *)
PlaceInv ==
    /\ ctl.at \in {"meta", "claim"} => dir = "linked"
    /\ ctl.at = "replace" /\ col \notin Terminal => dir = "linked"
    /\ ctl.at \in {"claim", "move"} => meta
    /\ ctl.at \in {"create", "meta"} /\ claim # NoClaim => meta
    /\ ctl.at = "unmeta" => col \in Terminal
    /\ claim # NoClaim /\ ~meta => col \in Terminal /\ dir # "linked"
    /\ Advances => meta /\ dir \in {"linked", "gone"} /\ ctl.at \in {"off", "idle", "move", "clear"}

(* Every step keeps it; it rests on what is known of agents and detaches.  *)
LEMMA PlaceKept ==
    ASSUME WorkInv, DetachInv, PlaceInv, [Next]_vars
    PROVE  PlaceInv'
  <1>. USE DEF card, git, agents, history, counters, At, Goto, WorkInv, TypeOK, DirStates, Steps,
               Columns, Terminal, ClaimInHand, PlaceInv, Advances
  <1>1. CASE Select
    BY <1>1 DEF Select, Prepare, Recheckout, Replacement, HandOut, RoleFor
  <1>2. CASE Create
    BY <1>2 DEF Create
  <1>3. CASE RecordBranch
    BY <1>3 DEF RecordBranch, HandOut
  <1>4. CASE PersistClaim
    BY <1>4, MadeClaim DEF PersistClaim, RoleFor
  <1>5. CASE MoveToDoing
    BY <1>5 DEF MoveToDoing, MoveTo
  <1>6. CASE Commit
    <2>1. claim \in Claim
      BY <1>6 DEF Commit, Answered
    <2>2. claim.answer \in {"ok", "rework", "reject"} /\ claim.role \in Roles
      BY <1>6, <2>1, ClaimFields DEF Commit, Answered, Answers
    <2>3. ~Advances => NextColumn(claim.role, claim.answer) \in Terminal
      BY <1>6, <2>2 DEF Commit, Answered, NextColumn, Roles
    <2>4. Advances => NextColumn(claim.role, claim.answer) \notin Terminal
      BY DEF NextColumn
    <2>. QED
      BY <1>6, <2>3, <2>4 DEF Commit, MoveTo, Answered
  <1>7. CASE RetryOrBlock
    <2>1. claim # NoClaim /\ ~Advances
      BY <1>7 DEF RetryOrBlock, Failed, Expired, Answered
    <2>. QED
      BY <1>7, <2>1 DEF RetryOrBlock, Prepare, Recheckout, Replacement, HandOut
  <1>8. CASE ReplaceClaim
    BY <1>8, MadeClaim DEF ReplaceClaim
  <1>9. CASE Block
    BY <1>9 DEF Block, MoveTo
  <1>10. CASE ClearClaim
    BY <1>10 DEF ClearClaim
  <1>11. CASE Detach
    BY <1>11 DEF Detach, AfterDetach, Resting
  <1>12. CASE AutoCommit
    BY <1>12 DEF AutoCommit, AfterDetach, Resting
  <1>13. CASE Remove
    BY <1>13 DEF Remove, AfterDetach, Resting
  <1>14. CASE Prune
    BY <1>14 DEF Prune, Stale
  <1>15. CASE ForgetBranch
    BY <1>15 DEF ForgetBranch, Resting, DetachInv, Recorded
  <1>16. CASE \E to \in Columns \ {"doing"} : Transition(to)
    BY <1>16 DEF Transition, MoveTo
  <1>17. CASE RecoverStale
    <2>1. CASE claim' = NoClaim
      BY <1>17, <2>1, GivenUp DEF RecoverStale, MoveTo, MayRetry
    <2>2. CASE claim' # NoClaim
      <3>1. claim # NoClaim /\ ctl.at = "off" /\ UNCHANGED <<col, meta, dir, ctl>>
        BY <1>17, <2>2 DEF RecoverStale
      <3>2. claim'.answer = "none"
        BY <1>17, <2>2, MadeClaim
      <3>. QED
        BY <3>1, <3>2
    <2>. QED
      BY <2>1, <2>2
  <1>18. CASE DeleteDir
    BY <1>18 DEF DeleteDir
  <1>19. CASE Kill
    BY <1>19 DEF Kill
  <1>20. CASE Answer
    <2>1. PICK answer \in Answers \ {"none"} :
              /\ answer # "fail" => agent
              /\ claim' = [claim EXCEPT !.answer = answer]
      BY <1>20 DEF Answer
    <2>2. claim # NoClaim /\ claim.answer = "none" /\ ~claim.expired
          /\ UNCHANGED <<col, meta, dir, ctl>>
      BY <1>20 DEF Answer
    <2>3. claim'.answer = answer
      BY <2>1, <2>2 DEF Claim
    <2>4. ctl.at \notin Giving
      BY <2>2 DEF NobodyWorks
    <2>5. Advances' => dir = "linked"
      BY <2>1, <2>3 DEF AgentHasClaim
    <2>6. dir = "linked" => meta /\ ctl.at # "unmeta"
      BY <2>2 DEF DetachInv, Recorded
    <2>7. Advances' => meta /\ dir = "linked" /\ ctl.at \in {"off", "idle", "move", "clear"}
      BY <2>4, <2>5, <2>6 DEF Giving
    <2>. QED
      BY <2>2, <2>7
  <1>21. CASE Expire
    <2>1. claim'.role = claim.role
      BY <1>21 DEF Expire, Claim
    <2>. QED
      BY <1>21, <2>1, ExpiredClaim DEF Expire
  <1>22. CASE ZombieWrites
    BY <1>22 DEF ZombieWrites
  <1>23. CASE \/ Start \/ Merge \/ Age \/ Execute \/ DoWork \/ ZombieEnds
            \/ UNCHANGED vars
    BY <1>23 DEF Start, Merge, Merged, Age, Execute, DoWork, ZombieEnds, vars
  <1>. QED
    BY <1>1, <1>2, <1>3, <1>4, <1>5, <1>6, <1>7, <1>8, <1>9, <1>10,
       <1>11, <1>12, <1>13, <1>14, <1>15, <1>16, <1>17, <1>18, <1>19,
       <1>20, <1>21, <1>22, <1>23 DEF Next, Scheduler, Operator, Environment

(* A claim the daemon hands out of a card at work has a directory of its   *)
(* own on the card's branch, through failed creations and checkouts,       *)
(* directories deleted by hand, prunes, retries that check nothing and     *)
(* kills between their steps (Worktree.Isolated).                          *)
THEOREM ClaimsAreIsolated == Spec => Isolated
  <1>1. Init => PlaceInv
    BY DEF Init, PlaceInv, Advances
  <1>2. ASSUME WorkInv, PlaceInv, [Next]_vars, claims' # claims, ~At("off"), col \notin Terminal
        PROVE  dir = "linked" /\ branch.exists
    <2>1. PersistClaim \/ ReplaceClaim
      BY <1>2 DEF Next, Scheduler, Operator, Environment, Start, Select, Prepare, Create,
         RecordBranch, MoveToDoing, Commit, RetryOrBlock, Block, ClearClaim, Detach, AutoCommit,
         Remove, Prune, ForgetBranch, Transition, RecoverStale, DeleteDir, Kill, Merge, Age,
         Execute, DoWork, Answer, Expire, ZombieEnds, ZombieWrites, vars, counters, At
    <2>2. dir = "linked"
      BY <1>2, <2>1 DEF PersistClaim, ReplaceClaim, At, PlaceInv
    <2>. QED
      BY <1>2, <2>2 DEF WorkInv, TypeOK
  <1>3. WorkInv /\ PlaceInv /\ [Next]_vars =>
            [ claims' # claims /\ ~At("off") /\ col \notin Terminal =>
                  dir = "linked" /\ branch.exists ]_vars
    BY <1>2
  <1>4. WorkInv /\ DetachInv /\ PlaceInv /\ [Next]_vars => PlaceInv'
    BY PlaceKept
  <1>. QED
    BY <1>1, <1>3, <1>4, Invariance, PTL DEF Spec, Isolated
=============================================================================

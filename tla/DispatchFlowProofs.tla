------------------------- MODULE DispatchFlowProofs -------------------------
(***************************************************************************)
(* The way of the cards: Dispatch implements Workflow, claims fit columns, *)
(* and what follows for the limits and for finished work.                  *)
(***************************************************************************)
EXTENDS DispatchClaimsProofs

(* What is known of the results the committer has read is what is known of *)
(* those in the directory; whoever works on a live claim works in its      *)
(* role, and so the answer is one that role can give; and a worker answers *)
(* a claim once.                                                           *)
Known == results \cup todo
Executing == {"releasing", "running", "overdue"}
IsLive(e) == e.card \in Live /\ e.id = claims[e.card].id
SameAttempt(e, f) == e.card = f.card /\ e.id = f.id /\ e.worker = f.worker

AnswersFit ==
    /\ \A e \in todo : e.id <= issued[e.card] /\ (IsLive(e) => claims[e.card].owner = e.worker)
    /\ \A w \in Workers :
           worker[w].phase # "idle" /\ Owns(w) => worker[w].role = MyClaim(w).role
    /\ \A e \in Known : IsLive(e) => e.outcome \in OutcomesOf(claims[e.card].role)

(* A claim is answered once by each of its workers, and not by one that    *)
(* still executes it.                                                      *)
AnswersOnce ==
    /\ \A w \in Workers : worker[w].phase \in Executing =>
           ~(\E e \in Known : e.card = worker[w].card /\ e.id = worker[w].id /\ e.worker = w)
    /\ \A e, f \in Known : SameAttempt(e, f) => e = f

(* The inductive invariant about answers, under kills too.                 *)
AnswerInv == ResultInv /\ AnswersFit /\ AnswersOnce

-----------------------------------------------------------------------------
(* What every step does that is not a worker's: it leaves the workers and  *)
(* writes no result, and a claim stays the claim it was, goes, or has a    *)
(* number nobody has seen.                                                 *)
FreshStep ==
    /\ worker' = worker
    /\ results' \subseteq results /\ todo' \subseteq results \cup todo
    /\ \A c \in Cards :
           /\ issued'[c] >= issued[c]
           /\ \/ claims'[c] = NoClaim
              \/ /\ claims[c] # NoClaim
                 /\ claims'[c].id = claims[c].id
                 /\ claims'[c].role = claims[c].role
                 /\ claims'[c].owner = claims[c].owner
              \/ claims'[c].id > issued[c]

(* The steps of the scheduler, the clock and the operator are of that kind,*)
(* and so is the kill.                                                     *)
LEMMA OthersAreFresh ==
    ASSUME TypeOK, JobInside,
           Scheduler \/ Environment \/ GoDown \/ UNCHANGED vars
    PROVE  FreshStep
  <1>k. \A c \in Cards : issued[c] \in Nat
    BY DEF TypeOK
  <1> USE <1>k DEF FreshStep
  <1>1. ASSUME NEW c \in Cards, Expire(c) PROVE FreshStep
    <2>1. c \in Live /\ claims[c] \in Claim /\ claims[c] # NoClaim
      BY <1>1, LiveClaim DEF Expire, Live
    <2>2. /\ claims'[c] = [claims[c] EXCEPT !.expired = TRUE]
          /\ \A d \in Cards : d # c => claims'[d] = claims[d]
          /\ UNCHANGED <<issued, worker, results, todo>>
      BY <1>1, <2>1 DEF Expire, TypeOK, schedVars
    <2>3. /\ claims'[c].id = claims[c].id /\ claims'[c].role = claims[c].role
          /\ claims'[c].owner = claims[c].owner
      BY <2>1, <2>2 DEF Claim
    <2>4. ASSUME NEW d \in Cards
          PROVE  /\ issued'[d] >= issued[d]
                 /\ \/ claims'[d] = NoClaim
                    \/ /\ claims[d] # NoClaim /\ claims'[d].id = claims[d].id
                       /\ claims'[d].role = claims[d].role
                       /\ claims'[d].owner = claims[d].owner
      <3>1. issued'[d] >= issued[d]
        BY <2>2
      <3>2. CASE d = c
        BY <2>1, <2>3, <3>1, <3>2
      <3>3. CASE d # c
        BY <2>2, <3>1, <3>3
      <3> QED
        BY <3>2, <3>3
    <2> QED
      BY <2>2, <2>4
  <1>2. ASSUME BeginTick \/ BeginRecovery \/ BeginSelection PROVE FreshStep
    BY <1>2 DEF BeginTick, BeginRecovery, BeginSelection
  <1>3. ASSUME NEW e \in todo,
               Quarantine(e) \/ ApplyResult(e) \/ AcceptRework(e) \/ RefuseRework(e)
        PROVE  FreshStep
    BY <1>3 DEF Quarantine, ApplyResult, AcceptRework, RefuseRework
  <1>4. ASSUME NEW e \in todo, HandleFailure(e) PROVE FreshStep
    <2>1. \A d \in Cards : claims'[d] = claims[d] \/ claims'[d] = NoClaim
      BY <1>4, JobOfType, RetryOrBlockWrites DEF HandleFailure
    <2> QED
      BY <1>4, <2>1 DEF HandleFailure
  <1>5. ASSUME Advance \/ Rewind PROVE FreshStep
    BY <1>5 DEF Advance, Rewind
  <1>6. ASSUME Recreate PROVE FreshStep
    <2>1. job.card \in Cards
      BY <1>6 DEF Recreate, TypeOK, Job, JobInside, Inside
    <2>2. /\ claims'[job.card].id = issued[job.card] + 1
          /\ issued' = [issued EXCEPT ![job.card] = @ + 1]
          /\ \A d \in Cards : d # job.card => claims'[d] = claims[d]
      BY <1>6, <2>1 DEF Recreate, TypeOK
    <2>3. \A c \in Cards : issued'[c] >= issued[c]
      BY <2>1, <2>2 DEF TypeOK
    <2> QED
      BY <1>6, <2>1, <2>2, <2>3 DEF Recreate
  <1>7. ASSUME ClearClaim PROVE FreshStep
    <2>1. \A d \in Cards : claims'[d] = claims[d] \/ claims'[d] = NoClaim
      BY <1>7 DEF ClearClaim, TypeOK
    <2> QED
      BY <1>7, <2>1 DEF ClearClaim
  <1>8. ASSUME DeleteResult PROVE FreshStep
    BY <1>8 DEF DeleteResult
  <1>9. ASSUME NEW s \in stale, Recover(s) PROVE FreshStep
    <2>1. \A d \in Cards : claims'[d] = claims[d] \/ claims'[d] = NoClaim
      BY <1>9, RetryOrBlockWrites DEF Recover, TypeOK, Job
    <2> QED
      BY <1>9, <2>1 DEF Recover
  <1>10. ASSUME NEW c \in Cards, NEW s \in {"review", "ready", "inbox"}, Select(c, s)
         PROVE  FreshStep
    <2>1. /\ claims'[c].id = issued[c] + 1
          /\ \A d \in Cards : d # c => claims'[d] = claims[d]
      BY <1>10 DEF Select, NewClaim, TypeOK
    <2>2. \A d \in Cards : issued'[d] >= issued[d]
      BY <1>10 DEF Select, TypeOK
    <2> QED
      BY <1>10, <2>1, <2>2 DEF Select
  <1>11. ASSUME StartCard \/ EndTick \/ GoDown \/ Restart PROVE FreshStep
    BY <1>11 DEF StartCard, EndTick, GoDown, Restart
  <1>12. ASSUME NEW c \in Cards, NEW s \in MoveTargets, Operate(c, s) PROVE FreshStep
    BY <1>12 DEF Operate, schedVars
  <1>13. CASE UNCHANGED vars
    BY <1>13 DEF vars
  <1> QED
    BY <1>1, <1>2, <1>3, <1>4, <1>5, <1>6, <1>7, <1>8, <1>9, <1>10, <1>11, <1>12, <1>13
    DEF Scheduler, Commit, Environment, Stop

(* No claim made in such a step has a number that was issued before it.    *)
LEMMA FreshIds ==
    ASSUME TypeOK, TypeOK', FreshStep, NEW c \in Cards, NEW i \in Nat, i <= issued[c]
    PROVE  /\ i <= issued'[c]
           /\ claims'[c] # NoClaim /\ claims'[c].id = i =>
                  /\ claims[c] # NoClaim /\ claims[c].id = i
                  /\ claims'[c].owner = claims[c].owner
                  /\ claims'[c].role = claims[c].role
  <1>1. issued[c] \in Nat /\ issued'[c] \in Nat /\ issued'[c] >= issued[c]
    BY DEF TypeOK, FreshStep
  <1> QED
    BY <1>1 DEF FreshStep

(* An answer that is live after such a step was so before it.              *)
LEMMA FreshAnswers ==
    ASSUME AnswerInv, TypeOK', FreshStep
    PROVE  /\ Known' \subseteq Known
           /\ \A e \in Known : e.card \in Cards /\ e.id \in Nat /\ e.id <= issued[e.card]
           /\ \A e \in Known : IsLive(e) => claims[e.card].owner = e.worker
           /\ \A e \in Known : IsLive(e)' => /\ IsLive(e)
                                             /\ claims'[e.card].owner = claims[e.card].owner
                                             /\ claims'[e.card].role = claims[e.card].role
  <1>t. TypeOK
    BY DEF AnswerInv, ResultInv, OwnerInv, TInv
  <1>1. /\ Known' \subseteq Known
        /\ \A e \in Known : e.card \in Cards /\ e.id \in Nat /\ e.id <= issued[e.card]
        /\ \A e \in Known : IsLive(e) => claims[e.card].owner = e.worker
    BY <1>t DEF TypeOK, Envelope, Known, IsLive, FreshStep, AnswerInv, AnswersFit, ResultInv,
                IdsAreIssued, OwnersAreKnown
  <1>2. \A e \in Known : IsLive(e)' => /\ IsLive(e)
                                      /\ claims'[e.card].owner = claims[e.card].owner
                                      /\ claims'[e.card].role = claims[e.card].role
    <2>1. \A c \in Cards, i \in Nat : i <= issued[c] /\ claims'[c] # NoClaim /\ claims'[c].id = i =>
              /\ claims[c] # NoClaim /\ claims[c].id = i
              /\ claims'[c].owner = claims[c].owner
              /\ claims'[c].role = claims[c].role
      BY <1>t, FreshIds
    <2> QED
      BY <1>1, <2>1 DEF IsLive, Live
  <1> QED
    BY <1>1, <1>2

(* After such a step whoever knew something of a live claim knew it before.*)
LEMMA FreshKeepsAnswers ==
    ASSUME AnswerInv, TypeOK', FreshStep PROVE AnswersFit' /\ AnswersOnce'
  <1>t. TypeOK
    BY DEF AnswerInv, ResultInv, OwnerInv, TInv
  <1>1. \A c \in Cards, i \in Nat : i <= issued[c] =>
            /\ i <= issued'[c]
            /\ claims'[c] # NoClaim /\ claims'[c].id = i =>
                   /\ claims[c] # NoClaim /\ claims[c].id = i
                   /\ claims'[c].owner = claims[c].owner
                   /\ claims'[c].role = claims[c].role
    BY <1>t, FreshIds
  <1>2. \A w \in Workers : worker[w].phase # "idle" =>
            worker[w].card \in Cards /\ worker[w].id \in Nat
    BY <1>t, BusyWorker
  <1>3. /\ Known' \subseteq Known
        /\ \A e \in Known : e.card \in Cards /\ e.id \in Nat /\ e.id <= issued[e.card]
        /\ \A e \in Known : IsLive(e) => claims[e.card].owner = e.worker
    BY FreshAnswers DEF IsLive, Live
  <1>4. \A e \in Known : IsLive(e)' => /\ IsLive(e)
                                      /\ claims'[e.card].owner = claims[e.card].owner
                                      /\ claims'[e.card].role = claims[e.card].role
    BY FreshAnswers DEF IsLive, Live
  <1>5. \A e \in todo' : e.id <= issued'[e.card] /\ (IsLive(e)' => claims'[e.card].owner = e.worker)
    BY <1>1, <1>3, <1>4 DEF Known
  <1>6. \A w \in Workers :
            worker'[w].phase # "idle" /\ Owns(w)' => worker'[w].role = claims'[worker'[w].card].role
    BY <1>1, <1>2
    DEF FreshStep, Owns, MyClaim, AnswerInv, AnswersFit, ResultInv, IdsAreIssued
  <1>7. \A e \in Known' : IsLive(e)' => e.outcome \in OutcomesOf(claims'[e.card].role)
    BY <1>3, <1>4 DEF AnswerInv, AnswersFit
  <1>8. AnswersOnce'
    BY <1>3 DEF FreshStep, AnswerInv, AnswersOnce
  <1> QED
    BY <1>5, <1>6, <1>7, <1>8 DEF AnswersFit, MyClaim

(* A worker takes up, executes and answers the claim of its own role, once.*)
LEMMA WorkerKeepsAnswers ==
    ASSUME AnswerInv, TypeOK', NEW w \in Workers, WorkerStep(w)
    PROVE  AnswersFit' /\ AnswersOnce'
  <1> DEFINE Good == AnswersFit' /\ AnswersOnce'
  <1>t. TypeOK /\ Newest
    BY DEF AnswerInv, ResultInv, OwnerInv, TInv
  <1>q. Quiet
    BY <1>t, WorkersAreQuiet
  <1>r. /\ \A c \in Live : c \in Cards /\ claims[c] \in Claim /\ claims[c].id = issued[c]
        /\ \A v \in Workers : worker[v].phase # "idle" =>
                worker[v].card \in Cards /\ worker[v].id \in Nat
        /\ \A e \in Known : e.card \in Cards /\ e.worker \in Workers
        /\ \A e \in Known : IsLive(e) => claims[e.card].owner = e.worker
        /\ NoWorker \notin Workers
    BY <1>t, LiveClaim, BusyWorker, DispatchAssumption
    DEF Newest, Known, TypeOK, Envelope, IsLive, AnswerInv, AnswersFit, ResultInv, OwnersAreKnown,
        DispatchAssumption
  <1>l. /\ issued' = issued /\ todo' = todo /\ Live' = Live
        /\ \A c \in Live : claims'[c].id = claims[c].id /\ claims'[c].role = claims[c].role
        /\ \A e : IsLive(e)' <=> IsLive(e)
    BY <1>q DEF Quiet, schedVars, SameClaim, Live, IsLive
  <1>o. ASSUME \A e \in todo : IsLive(e) => claims'[e.card].owner = claims[e.card].owner
        PROVE  \A e \in todo' :
                   e.id <= issued'[e.card] /\ (IsLive(e)' => claims'[e.card].owner = e.worker)
    BY <1>o, <1>l DEF AnswerInv, AnswersFit
  <1>a. \A e \in Known : IsLive(e)' => e.outcome \in OutcomesOf(claims'[e.card].role)
    BY <1>l, <1>r DEF IsLive, AnswerInv, AnswersFit
  <1>1. ASSUME NEW c \in Cards, Acquire(w, c) PROVE Good
    <2>1. /\ worker'[w].card = c /\ worker'[w].phase = "acquiring"
          /\ worker'[w].id = claims[c].id /\ worker'[w].role = claims[c].role
          /\ \A v \in Workers : v # w => worker'[v] = worker[v]
          /\ UNCHANGED <<claims, results>>
      BY <1>1, <1>t DEF Acquire, TypeOK
    <2>2. Known' = Known
      BY <2>1, <1>l DEF Known
    <2> QED
      BY <2>1, <2>2, <1>l, <1>o, <1>a
      DEF AnswersFit, AnswersOnce, Executing, Owns, MyClaim, AnswerInv
  <1>2. ASSUME TakeClaim(w) PROVE Good
    <2> DEFINE c == worker[w].card
    <2>k. Known' = Known
      BY <1>2, <1>l DEF TakeClaim, Known
    <2>1. CASE c \in Live /\ claims[c].owner = NoWorker
      <3>1. /\ worker'[w].card = c /\ worker'[w].phase = "releasing"
            /\ worker'[w].id = claims[c].id /\ worker'[w].role = claims[c].role
            /\ \A v \in Workers : v # w => worker'[v] = worker[v]
            /\ \A d \in Cards : d # c => claims'[d] = claims[d]
        BY <1>2, <2>1, <1>t, <1>r DEF TakeClaim, TypeOK
      <3>2. \A e \in Known : e.card = c => e.id # claims[c].id
        BY <2>1, <1>r DEF IsLive
      <3>3. \A e \in todo : IsLive(e) => claims'[e.card].owner = claims[e.card].owner
        BY <3>1, <3>2, <1>r DEF Known, IsLive
      <3>4. \A v \in Workers : worker'[v].phase # "idle" /\ Owns(v)' =>
                worker'[v].role = claims'[worker'[v].card].role
        BY <3>1, <2>1, <1>r, <1>l DEF Owns, MyClaim, AnswerInv, AnswersFit, Live
      <3>5. AnswersOnce'
        BY <3>1, <3>2, <2>k DEF AnswersOnce, Executing, AnswerInv
      <3> QED
        BY <3>3, <3>4, <3>5, <2>k, <1>o, <1>a DEF AnswersFit, MyClaim
    <2>2. CASE ~(c \in Live /\ claims[c].owner = NoWorker)
      <3>1. /\ claims' = claims
            /\ worker'[w].phase = "idle"
            /\ \A v \in Workers : v # w => worker'[v] = worker[v]
        BY <1>2, <2>2, <1>t DEF TakeClaim, TypeOK, Idle
      <3> QED
        BY <3>1, <2>k, <1>l, <1>o, <1>a
        DEF AnswersFit, AnswersOnce, Executing, Owns, MyClaim, AnswerInv
    <2> QED
      BY <2>1, <2>2
  <1>3. ASSUME ReleaseSentinel(w) \/ HeartbeatStops(w) PROVE Good
    <2>1. /\ worker'[w].card = worker[w].card /\ worker'[w].id = worker[w].id
          /\ worker'[w].role = worker[w].role
          /\ worker[w].phase \in Executing
          /\ \A v \in Workers : v # w => worker'[v] = worker[v]
      BY <1>3, <1>t, BusyUpdate
      DEF ReleaseSentinel, HeartbeatStops, TypeOK, Idle, Busy, Phases, Executing
    <2>2. claims' = claims /\ Known' = Known
      BY <1>3, <1>l DEF ReleaseSentinel, HeartbeatStops, Known
    <2> QED
      BY <2>1, <2>2, <1>l, <1>o, <1>a
      DEF AnswersFit, AnswersOnce, Owns, MyClaim, AnswerInv, Executing
  <1>4. ASSUME Heartbeat(w) PROVE Good
    <2>1. worker[w].card \in Live /\ claims[worker[w].card].owner = w
      BY <1>4, <1>r DEF Heartbeat, Owns, MyClaim, Live, AnswerInv, ResultInv, OwnersAreKnown
    <2>2. \A d \in Live : claims'[d].owner = claims[d].owner
      BY <1>4, <2>1, <1>r, <1>t DEF Heartbeat, TypeOK, Claim
    <2>3. worker' = worker /\ Known' = Known
      BY <1>4, <1>l DEF Heartbeat, Known
    <2>4. \A v \in Workers : worker'[v].phase # "idle" /\ Owns(v)' =>
              worker'[v].role = claims'[worker'[v].card].role
      BY <2>3, <1>l, <1>r DEF Owns, MyClaim, AnswerInv, AnswersFit, Live
    <2> QED
      BY <2>2, <2>3, <2>4, <1>o, <1>a DEF AnswersFit, AnswersOnce, MyClaim, IsLive, AnswerInv
  <1>5. ASSUME NEW o \in Outcomes, Finish(w, o) PROVE Good
    <2> DEFINE answer == [card |-> worker[w].card, id |-> worker[w].id, worker |-> w,
                          outcome |-> o]
    <2>1. /\ claims' = claims /\ Known' = Known \cup {answer}
          /\ worker'[w].phase = "idle"
          /\ \A v \in Workers : v # w => worker'[v] = worker[v]
      BY <1>5, <1>t, <1>l DEF Finish, Known, TypeOK, Idle
    <2>2. worker[w].phase \in Executing /\ worker[w].phase # "idle"
          /\ o \in OutcomesOf(worker[w].role)
      BY <1>5 DEF Finish, Executing
    <2>3. IsLive(answer) => answer.outcome \in OutcomesOf(claims[answer.card].role)
      BY <2>2 DEF IsLive, AnswerInv, AnswersFit, Owns, MyClaim, Live
    <2>4. ~(\E e \in Known : e.card = worker[w].card /\ e.id = worker[w].id /\ e.worker = w)
      BY <2>2 DEF AnswerInv, AnswersOnce
    <2>5. \A v \in Workers : worker'[v].phase \in Executing =>
              ~(\E e \in Known' : e.card = worker'[v].card /\ e.id = worker'[v].id /\ e.worker = v)
      BY <2>1 DEF Executing, AnswerInv, AnswersOnce
    <2>6. \A e, f \in Known' : SameAttempt(e, f) => e = f
      BY <2>1, <2>4 DEF AnswerInv, AnswersOnce, SameAttempt
    <2>7. \A v \in Workers : worker'[v].phase # "idle" /\ Owns(v)' =>
              worker'[v].role = claims'[worker'[v].card].role
      BY <2>1 DEF Owns, MyClaim, AnswerInv, AnswersFit
    <2>8. \A e \in Known' : IsLive(e)' => e.outcome \in OutcomesOf(claims'[e.card].role)
      BY <2>1, <2>3, <1>l DEF AnswerInv, AnswersFit
    <2> QED
      BY <2>1, <2>5, <2>6, <2>7, <2>8, <1>o DEF AnswersFit, AnswersOnce, MyClaim
  <1>6. ASSUME WorkerLost(w) PROVE Good
    <2>1. /\ worker'[w].phase = "idle" /\ claims' = claims /\ Known' = Known
          /\ \A v \in Workers : v # w => worker'[v] = worker[v]
      BY <1>6, <1>t, <1>l DEF WorkerLost, TypeOK, Idle, Known
    <2> QED
      BY <2>1, <1>l, <1>o, <1>a
      DEF AnswersFit, AnswersOnce, Executing, Owns, MyClaim, AnswerInv
  <1> QED
    BY <1>1, <1>2, <1>3, <1>4, <1>5, <1>6 DEF WorkerStep

(* So every step keeps what is known of answers.                           *)
LEMMA AnswerStep == AnswerInv /\ [CrashNext]_vars => AnswerInv'
  <1> SUFFICES ASSUME AnswerInv, [CrashNext]_vars PROVE AnswerInv'
    OBVIOUS
  <1>1. ResultInv' /\ TypeOK' /\ TypeOK /\ JobInside
    BY TypeStep, NewestStep, ResultStep DEF AnswerInv, ResultInv, OwnerInv, TInv
  <1>2. AnswersFit' /\ AnswersOnce'
    <2>1. CASE Scheduler \/ Environment \/ GoDown \/ UNCHANGED vars
      BY <1>1, <2>1, OthersAreFresh, FreshKeepsAnswers
    <2>2. CASE \E w \in Workers : WorkerStep(w)
      BY <1>1, <2>2, WorkerKeepsAnswers
    <2> QED
      BY <2>1, <2>2 DEF CrashNext, Next, Crash
  <1> QED
    BY <1>1, <1>2 DEF AnswerInv

(* Nobody has answered anything on a new board.                            *)
LEMMA AnswerInit == Init => AnswerInv
  BY TypeInit, Bounds
  DEF Init, Idle, OwnerInv, TInv, JobInside, Inside, Newest, Live, ResultInv, IdsAreIssued,
      OwnersAreKnown, ClaimIsSpent, AnswerInv, AnswersFit, AnswersOnce, Known, Executing

-----------------------------------------------------------------------------
(* The claim a recovery is about to replace is the one it has read.        *)
StaleFits == Recovering => \A s \in stale : s.claim.role = claims[s.card].role

(* In the middle of a step of the workflow the card is where the step      *)
(* begins, and a start still has the room it was given.                    *)
StepFits ==
    /\ pc = "start" =>
           /\ job.card \in Live /\ claims[job.card].role = "worker"
           /\ status[job.card] = "ready"
           /\ WF!DepsSatisfied(job.card) /\ WF!WipCount < WipLimit
    /\ pc = "rewind" => status[job.card] = "review" /\ iteration[job.card] > 0
    /\ pc = "recreate" => status[job.card] \in ColumnsOf(job.claim.role)

(* No rework is accepted beyond the budget.                                *)
ReworksBounded == \A c \in Cards : iteration[c] <= ReworkBudget

(* The inductive invariant of the refinement, without kills.               *)
FlowInv ==
    /\ BudgetInv /\ AnswerInv
    /\ StaleFits /\ StepFits /\ ClaimFitsColumn /\ ReworksBounded


(* The gates of a step look at columns only.                               *)
LEMMA SameGates ==
    ASSUME status' = status
    PROVE  /\ WF!WipCount' = WF!WipCount
           /\ \A c : WF!DepsSatisfied(c)' <=> WF!DepsSatisfied(c)
  BY DEF WF!WipCount, WF!InColumns, WF!DepsSatisfied

(* What a role answers, and where its card is.                             *)
LEMMA RoleTable ==
    ASSUME NEW role \in Roles
    PROVE  /\ "ready" \in OutcomesOf(role) => role = "planner"
           /\ "review" \in OutcomesOf(role) => role = "worker"
           /\ "done" \in OutcomesOf(role) => role = "reviewer"
           /\ "rework" \in OutcomesOf(role) => role = "reviewer"
           /\ role = "planner" => ColumnsOf(role) = {"inbox", "ready"}
           /\ role = "worker" => ColumnsOf(role) = {"doing"}
           /\ role = "reviewer" => ColumnsOf(role) = {"review"}
           /\ ColumnsOf(role) \subseteq {"inbox", "ready", "doing", "review"}
           /\ "inbox" \in ColumnsOf(role) => "ready" \in ColumnsOf(role)
  BY DEF Roles, OutcomesOf, ColumnsOf

(* An answer is accepted in the column its role works in.                  *)
LEMMA AnswerAtHome ==
    ASSUME FlowInv, NEW e \in todo, Accepted(e), pc = "commit"
    PROVE  /\ e.card \in Live /\ e.card \in Cards /\ claims[e.card] \in Claim
           /\ status[e.card] \in ColumnsOf(claims[e.card].role)
           /\ status[e.card] \in {"inbox", "ready", "doing", "review"}
           /\ e.outcome = "ready" => status[e.card] \in {"inbox", "ready"}
           /\ e.outcome = "review" => status[e.card] = "doing"
           /\ e.outcome \in {"done", "rework"} => status[e.card] = "review"
  <1>1. e.card \in Live /\ e.card \in Cards /\ claims[e.card] \in Claim
    BY LiveClaim DEF Accepted, FlowInv, BudgetInv, TInv
  <1>2. status[e.card] \in ColumnsOf(claims[e.card].role)
    BY <1>1 DEF FlowInv, ClaimFitsColumn
  <1>3. e.outcome \in OutcomesOf(claims[e.card].role)
    BY DEF FlowInv, AnswerInv, AnswersFit, Known, IsLive, Accepted
  <1>4. claims[e.card].role \in Roles
    BY <1>1 DEF Claim
  <1> QED
    BY <1>1, <1>2, <1>3, <1>4, RoleTable

(* So is a claim whose lease ran out.                                      *)
LEMMA StaleAtHome ==
    ASSUME FlowInv, NEW s \in stale, pc = "recover"
    PROVE  /\ s \in Job /\ s.card \in Live /\ s.card \in Cards
           /\ status[s.card] \in ColumnsOf(s.claim.role)
           /\ status[s.card] \in {"inbox", "ready", "doing", "review"}
  <1>1. s \in Job /\ s.card \in Live /\ s.card \in Cards /\ s.claim.role \in Roles
    BY DEF FlowInv, BudgetInv, TInv, TypeOK, StaleAlive, Recovering, Job, Claim
  <1>2. status[s.card] \in ColumnsOf(s.claim.role)
    BY <1>1 DEF FlowInv, ClaimFitsColumn, StaleFits, Recovering
  <1> QED
    BY <1>1, <1>2, RoleTable

(* Between two steps of the scheduler everything stays where it is.        *)
LEMMA QuietFlow ==
    ASSUME FlowInv, Quiet
    PROVE  StaleFits' /\ StepFits' /\ ClaimFitsColumn' /\ ReworksBounded'
  <1> USE DEF FlowInv, BudgetInv, TInv, Quiet, cardVars, schedVars
  <1>1. /\ Live' = Live
        /\ \A c \in Live : claims'[c].role = claims[c].role
        /\ status' = status /\ iteration' = iteration
        /\ pc' = pc /\ job' = job /\ stale' = stale
    BY DEF SameClaim, Live
  <1>2. StaleFits'
    BY <1>1 DEF StaleFits, StaleAlive, Recovering
  <1>3. StepFits'
    BY <1>1, SameGates DEF StepFits
  <1>4. ClaimFitsColumn' /\ ReworksBounded'
    BY <1>1 DEF ClaimFitsColumn, ReworksBounded
  <1> QED
    BY <1>2, <1>3, <1>4

(* Every step of the runtime keeps cards and claims together, unless the   *)
(* scheduler is killed.                                                    *)
LEMMA FlowStep ==
    FlowInv /\ [Next]_vars => StaleFits' /\ StepFits' /\ ClaimFitsColumn' /\ ReworksBounded'
  <1> DEFINE Good == StaleFits' /\ StepFits' /\ ClaimFitsColumn' /\ ReworksBounded'
  <1> SUFFICES ASSUME FlowInv, [Next]_vars PROVE Good
    OBVIOUS
  <1>t. TypeOK /\ JobInside
    BY DEF FlowInv, BudgetInv, TInv
  <1>i. /\ StaleFits /\ StepFits /\ ClaimFitsColumn /\ ReworksBounded
        /\ StaleAlive
        /\ pc \notin {"down", "idle", "commit", "recover", "select"} => job \in Job /\ job # NoJob
        /\ \A c \in Live : c \in Cards /\ claims[c] \in Claim /\ claims[c] # NoClaim
    BY <1>t, LiveClaim
    DEF FlowInv, BudgetInv, TypeOK, JobInside, Inside, Controls, Live
  <1> USE <1>t, <1>i DEF JobInside, Inside, StaleFits, StepFits, ClaimFitsColumn, ReworksBounded,
                         Recovering
  <1>1. ASSUME (\E w \in Workers : WorkerStep(w)) \/ (\E c \in Cards : Expire(c)) PROVE Good
    BY <1>1, WorkersAreQuiet, QuietFlow
  <1>2. ASSUME BeginTick PROVE Good
    BY <1>2 DEF BeginTick, Live, cardVars
  <1>3. ASSUME NEW e \in todo, Quarantine(e) PROVE Good
    BY <1>3 DEF Quarantine, Live, cardVars
  <1>4. ASSUME NEW e \in todo, ApplyResult(e) PROVE Good
    <2>1. Live' = Live /\ job' = JobOf(e) /\ job' # NoJob /\ pc' \in {"advance", "clear"}
      BY <1>4, JobOfType DEF ApplyResult, Live
    <2>2. \A c \in Cards : c # e.card => status'[c] = status[c]
      BY <1>4 DEF ApplyResult, TypeOK
    <2> QED
      BY <1>4, <2>1, <2>2 DEF ApplyResult, JobOf
  <1>5. ASSUME NEW e \in todo, AcceptRework(e) PROVE Good
    <2>1. status[e.card] = "review" /\ e.card \in Cards
      BY <1>5, AnswerAtHome DEF AcceptRework
    <2>2. /\ iteration'[e.card] = iteration[e.card] + 1
          /\ \A c \in Cards : c # e.card => iteration'[c] = iteration[c]
          /\ iteration[e.card] \in Nat
      BY <1>5, <2>1 DEF AcceptRework, TypeOK
    <2> QED
      BY <1>5, <2>1, <2>2 DEF AcceptRework, JobOf, Live
  <1>6. ASSUME NEW e \in todo, RefuseRework(e) PROVE Good
    <2>1. Live' = Live /\ job' = JobOf(e) /\ job' # NoJob
      BY <1>6, JobOfType DEF RefuseRework, Live
    <2>2. \A c \in Cards : c # e.card => status'[c] = status[c]
      BY <1>6 DEF RefuseRework, TypeOK
    <2> QED
      BY <1>6, <2>1, <2>2 DEF RefuseRework, JobOf
  <1>7. ASSUME NEW e \in todo, HandleFailure(e) PROVE Good
    <2>1. /\ e.card \in Cards /\ status[e.card] \in ColumnsOf(claims[e.card].role)
      BY <1>7, AnswerAtHome DEF HandleFailure
    <2>2. /\ \A d \in Cards : d # e.card => status'[d] = status[d] /\ claims'[d] = claims[d]
          /\ \/ pc' = "recreate" /\ claims'[e.card] = NoClaim /\ status'[e.card] = status[e.card]
             \/ pc' = "clear" /\ claims'[e.card] = claims[e.card] /\ status'[e.card] = "blocked"
      BY <1>7, <2>1, RetryOrBlockWrites DEF HandleFailure
    <2>3. job' = JobOf(e) /\ job' # NoJob
      BY <1>7, JobOfType DEF HandleFailure
    <2> QED
      BY <1>7, <2>1, <2>2, <2>3 DEF HandleFailure, JobOf, Live
  <1>8. ASSUME Advance PROVE Good
    <2>1. CASE UNCHANGED status
      BY <1>8, <2>1 DEF Advance, Live, StaleAlive
    <2>2. CASE \E c \in WF!Released(job.card) : status' = [status EXCEPT ![c] = "ready"] /\ UNCHANGED pc
      <3>1. PICK c \in WF!Released(job.card) : status' = [status EXCEPT ![c] = "ready"] /\ pc' = pc
        BY <2>2
      <3>2. c \in Cards /\ status[c] = "inbox"
        BY DEF WF!Released, WF!InColumns
      <3>3. ASSUME c \in Live, status[c] \in ColumnsOf(claims[c].role)
            PROVE  "ready" \in ColumnsOf(claims[c].role)
        <4>1. claims[c].role \in Roles
          BY <3>3 DEF Claim
        <4> QED
          BY <3>2, <3>3, <4>1, RoleTable
      <3> QED
        BY <1>8, <3>1, <3>2, <3>3 DEF Advance, Live, TypeOK
    <2> QED
      BY <1>8, <2>1, <2>2 DEF Advance
  <1>9. ASSUME Rewind PROVE Good
    <2>1. \A c \in Cards : c # job.card => status'[c] = status[c]
      BY <1>9 DEF Rewind, TypeOK
    <2> QED
      BY <1>9, <2>1 DEF Rewind, Live, StaleAlive
  <1>10. ASSUME Recreate PROVE Good
    <2>1. job.card \in Cards
      BY <1>10 DEF Recreate, Job
    <2>2. /\ claims'[job.card].role = job.claim.role
          /\ \A d \in Cards : d # job.card => claims'[d] = claims[d]
      BY <1>10, <2>1 DEF Recreate, TypeOK
    <2>3. ClaimFitsColumn'
      BY <1>10, <2>1, <2>2 DEF Recreate, Live, cardVars
    <2> QED
      BY <1>10, <2>1, <2>2, <2>3 DEF Recreate, cardVars, StaleAlive, TypeOK, Job
  <1>11. ASSUME ClearClaim PROVE Good
    <2>1. job.card \in Cards
      BY <1>11 DEF ClearClaim, Job
    <2>2. /\ claims'[job.card] = NoClaim
          /\ \A d \in Cards : d # job.card => claims'[d] = claims[d]
      BY <1>11, <2>1 DEF ClearClaim, TypeOK
    <2> QED
      BY <1>11, <2>1, <2>2 DEF ClearClaim, Live, cardVars, StaleAlive, TypeOK, Job
  <1>12. ASSUME DeleteResult PROVE Good
    BY <1>12 DEF DeleteResult, Live, cardVars
  <1>13. ASSUME BeginRecovery PROVE Good
    BY <1>13 DEF BeginRecovery, Live, cardVars
  <1>14. ASSUME NEW s \in stale, Recover(s) PROVE Good
    <2>1. /\ s.card \in Cards /\ status[s.card] \in ColumnsOf(s.claim.role)
          /\ s \in Job
      BY <1>14, StaleAtHome DEF Recover
    <2>2. /\ \A d \in Cards : d # s.card => status'[d] = status[d] /\ claims'[d] = claims[d]
          /\ \/ pc' = "recreate" /\ claims'[s.card] = NoClaim /\ status'[s.card] = status[s.card]
             \/ pc' = "clear" /\ claims'[s.card] = claims[s.card] /\ status'[s.card] = "blocked"
      BY <1>14, <2>1, RetryOrBlockWrites DEF Recover
    <2>3. job' = s /\ job' # NoJob /\ iteration' = iteration /\ stale' \subseteq stale
          /\ \A t \in stale' : t.card # s.card /\ t.card \in Cards
      BY <1>14, <2>1, Bounds DEF Recover, StaleAlive, TypeOK, Job
    <2>4. StaleFits'
      BY <1>14, <2>2, <2>3 DEF Recover
    <2>5. StepFits'
      BY <2>1, <2>2, <2>3
    <2>6. ClaimFitsColumn' /\ ReworksBounded'
      BY <1>14, <2>1, <2>2, <2>3 DEF Live, Recover
    <2> QED
      BY <2>4, <2>5, <2>6
  <1>15. ASSUME BeginSelection PROVE Good
    BY <1>15 DEF BeginSelection, Live, cardVars
  <1>16. ASSUME NEW c \in Cards, NEW s \in {"review", "ready", "inbox"}, Select(c, s) PROVE Good
    <2>1. /\ claims'[c] = NewClaim(c, s)
          /\ \A d \in Cards : d # c => claims'[d] = claims[d]
      BY <1>16 DEF Select, TypeOK
    <2>2. /\ status[c] = s /\ status' = status /\ iteration' = iteration
          /\ s = "ready" => WF!DepsSatisfied(c) /\ WF!WipCount < WipLimit
      BY <1>16 DEF Select, Candidate, Actionable, WF!InColumns, cardVars
    <2>3. /\ NewClaim(c, s).role = RoleFor(s) /\ RoleFor(s) \in Roles
          /\ s \in {"review", "inbox"} => s \in ColumnsOf(RoleFor(s))
          /\ s = "ready" => RoleFor(s) = "worker"
      BY RoleTable DEF NewClaim, RoleFor, Roles, ColumnsOf
    <2>c. NewClaim(c, s) \in Claim
      BY DEF NewClaim, Claim, RoleFor, Roles, TypeOK
    <2>l. c \in Live' /\ claims'[c].role = RoleFor(s)
      <3>1. claims'[c] # NoClaim
        BY <2>1, <2>c, Bounds
      <3> QED
        BY <2>1, <2>3, <3>1 DEF Live
    <2>4. CASE s = "ready"
      <3>1. pc' = "start" /\ job'.card = c /\ job' # NoJob
        <4>1. job' = [card |-> c, claim |-> NewClaim(c, s), from |-> "select"] /\ pc' = "start"
          BY <1>16, <2>4 DEF Select
        <4>2. job' \in Job
          BY <4>1, <2>c DEF Job
        <4> QED
          BY <4>1, <4>2, Bounds
      <3>3. StepFits'
        BY <2>l, <2>2, <2>3, <2>4, <3>1, SameGates
      <3>4. ClaimFitsColumn'
        BY <1>16, <2>1, <2>2, <3>1 DEF Live, Select
      <3> QED
        BY <1>16, <2>2, <3>1, <3>3, <3>4 DEF Select
    <2>5. CASE s # "ready"
      <3>1. pc = "select" /\ pc' = "select"
        BY <1>16, <2>5 DEF Select
      <3>2. ClaimFitsColumn'
        BY <2>1, <2>2, <2>3, <2>5, <2>l, <3>1 DEF Live
      <3> QED
        BY <1>16, <2>2, <3>1, <3>2 DEF Select
    <2> QED
      BY <2>4, <2>5
  <1>17. ASSUME StartCard PROVE Good
    <2>1. status'[job.card] = "doing" /\ \A c \in Cards : c # job.card => status'[c] = status[c]
      BY <1>17 DEF StartCard, TypeOK
    <2>2. "doing" \in ColumnsOf(claims[job.card].role)
      BY <1>17, RoleTable DEF StartCard, Roles
    <2>3. /\ Live' = Live /\ claims' = claims /\ pc = "start" /\ pc' = "select"
          /\ UNCHANGED <<iteration, stale>>
      BY <1>17 DEF StartCard, Live
    <2> QED
      BY <2>1, <2>2, <2>3
  <1>18. ASSUME EndTick PROVE Good
    BY <1>18 DEF EndTick, Live, cardVars
  <1>19. ASSUME Stop \/ Restart PROVE Good
    BY <1>19 DEF Stop, GoDown, Restart, Live, cardVars
  <1>20. ASSUME NEW c \in Cards, NEW s \in MoveTargets, Operate(c, s) PROVE Good
    <2>1. /\ c \notin Live /\ Live' = Live /\ pc = "down" /\ pc' = "down"
          /\ UNCHANGED <<claims, iteration, stale, job>>
      BY <1>20 DEF Operate, Live, schedVars
    <2>2. \A d \in Live : status'[d] = status[d] \/ (status[d] = "inbox" /\ status'[d] = "ready")
      BY <1>20 DEF Operate, WF!Released, WF!InColumns
    <2>3. \A d \in Live : claims[d].role \in Roles
      BY DEF Claim
    <2>4. ClaimFitsColumn'
      BY <2>1, <2>2, <2>3, RoleTable
    <2> QED
      BY <2>1, <2>4
  <1>21. CASE UNCHANGED vars
    <2>1. Quiet
      BY <1>21 DEF vars, Quiet, cardVars, schedVars, SameClaim
    <2> QED
      BY <2>1, QuietFlow
  <1> QED
    BY <1>1, <1>2, <1>3, <1>4, <1>5, <1>6, <1>7, <1>8, <1>9, <1>10, <1>11, <1>12, <1>13, <1>14,
       <1>15, <1>16, <1>17, <1>18, <1>19, <1>20, <1>21
    DEF Next, Scheduler, Commit, Environment

(* The first state, and the type of the board as the workflow sees it.     *)
LEMMA FlowInit == Init => FlowInv
  <1> SUFFICES ASSUME Init PROVE FlowInv
    OBVIOUS
  <1>1. BudgetInv /\ AnswerInv
    BY BudgetInit, AnswerInit
  <1> QED
    BY <1>1, Bounds
    DEF Init, FlowInv, StaleFits, Recovering, StepFits, ClaimFitsColumn, ReworksBounded, Live

(* What holds between any two steps when nobody is killed.                 *)
LEMMA FlowInvariant == Spec => []FlowInv
  <1>1. FlowInv /\ [Next]_vars => FlowInv'
    <2> SUFFICES ASSUME FlowInv, [Next]_vars PROVE FlowInv'
      OBVIOUS
    <2>1. [CrashNext]_vars
      BY DEF CrashNext
    <2>2. BudgetInv' /\ AnswerInv'
      BY <2>1, TypeStep, BudgetStep, AnswerStep DEF FlowInv, BudgetInv
    <2> QED
      BY <2>2, FlowStep DEF FlowInv
  <1> QED
    BY FlowInit, <1>1, PTL DEF Spec

(* No role is executed on a card that has left the role's column.          *)
THEOREM ClaimsFit == Spec => []ClaimFitsColumn
  <1>1. FlowInv => ClaimFitsColumn
    BY DEF FlowInv
  <1> QED
    BY <1>1, FlowInvariant, PTL

-----------------------------------------------------------------------------
(* The refinement: what the workflow sees of a step.  Its counters move    *)
(* only with the end of a rework.                                          *)
LEMMA SettledStays ==
    ASSUME iteration' = iteration, pc # "rewind", pc' # "rewind"
    PROVE  Settled' = Settled
  BY DEF Settled

(* A step that changes neither a column nor a counter is not seen.         *)
LEMMA BoardStays ==
    ASSUME status' = status, iteration' = iteration,
           (pc' = pc /\ job' = job) \/ (pc # "rewind" /\ pc' # "rewind")
    PROVE  UNCHANGED WF!wfVars
  BY DEF WF!wfVars, Settled

(* Nothing a worker or the clock does is seen in the workflow.             *)
LEMMA QuietBoard == ASSUME Quiet PROVE UNCHANGED WF!wfVars
  <1>1. status' = status /\ iteration' = iteration
    BY DEF Quiet, cardVars
  <1>2. pc' = pc /\ job' = job
    BY DEF Quiet, schedVars
  <1> QED
    BY <1>1, <1>2 DEF WF!wfVars, Settled

(* A card that is blocked was at work.                                     *)
LEMMA BlockingStep ==
    ASSUME NEW c \in Cards, NEW failed, NEW category, TypeOK,
           RetryOrBlock(c, failed, category), pc # "rewind", iteration' = iteration,
           status[c] \in {"inbox", "ready", "doing", "review"}
    PROVE  [WF!WfNext]_(WF!wfVars)
  <1>1. pc' # "rewind" /\ Settled' = Settled
    BY SettledStays DEF RetryOrBlock
  <1>2. CASE failed.retries < Budget(category)
    BY <1>1, <1>2 DEF RetryOrBlock, WF!wfVars
  <1>3. CASE ~(failed.retries < Budget(category))
    <2>1. WF!Block(c)
      BY <1>1, <1>3 DEF RetryOrBlock, WF!Block, WF!MoveTo
    <2> QED
      BY <2>1 DEF WF!WfNext
  <1> QED
    BY <1>2, <1>3

(* Each step of the runtime is a step of the workflow or none.             *)
LEMMA WorkflowStep == FlowInv /\ [Next]_vars => [WF!WfNext]_(WF!wfVars)
  <1> DEFINE Good == [WF!WfNext]_(WF!wfVars)
  <1> SUFFICES ASSUME FlowInv, [Next]_vars PROVE Good
    OBVIOUS
  <1>t. TypeOK /\ JobInside /\ StepFits /\ ReworksBounded
    BY DEF FlowInv, BudgetInv, TInv
  <1>1. ASSUME (\E w \in Workers : WorkerStep(w)) \/ (\E c \in Cards : Expire(c)) PROVE Good
    <2>1. Quiet
      BY <1>1, <1>t, WorkersAreQuiet
    <2> QED
      BY <2>1, QuietBoard
  <1>2. ASSUME BeginTick \/ BeginRecovery \/ BeginSelection \/ EndTick PROVE Good
    BY <1>2, BoardStays DEF BeginTick, BeginRecovery, BeginSelection, EndTick, cardVars
  <1>3. ASSUME NEW e \in todo, Quarantine(e) PROVE Good
    BY <1>3, BoardStays DEF Quarantine, cardVars
  <1>4. ASSUME NEW e \in todo, ApplyResult(e) PROVE Good
    <2>1. /\ e.card \in Cards
          /\ status[e.card] \in {"inbox", "ready", "doing", "review"}
          /\ e.outcome = "ready" => status[e.card] \in {"inbox", "ready"}
          /\ e.outcome = "review" => status[e.card] = "doing"
          /\ e.outcome = "done" => status[e.card] = "review"
      BY <1>4, AnswerAtHome DEF ApplyResult
    <2>2. Settled' = Settled
      BY <1>4, SettledStays DEF ApplyResult
    <2>3. WF!MoveTo(e.card, e.outcome)
      BY <1>4, <2>2 DEF ApplyResult, WF!MoveTo
    <2>4. CASE e.outcome = "ready"
      <3>1. CASE status[e.card] = "inbox"
        BY <2>1, <2>3, <2>4, <3>1 DEF WF!Ready, WF!WfNext
      <3>2. CASE status[e.card] = "ready"
        BY <1>t, <2>1, <2>3, <2>4, <3>2 DEF WF!MoveTo, WF!wfVars, TypeOK
      <3> QED
        BY <2>1, <2>4, <3>1, <3>2
    <2>5. CASE e.outcome = "review"
      BY <2>1, <2>3, <2>5 DEF WF!Submit, WF!WfNext
    <2>6. CASE e.outcome = "done"
      BY <2>1, <2>3, <2>6 DEF WF!Approve, WF!WfNext
    <2>7. CASE e.outcome = "blocked"
      BY <2>1, <2>3, <2>7 DEF WF!Block, WF!WfNext
    <2> QED
      BY <1>4, <2>4, <2>5, <2>6, <2>7 DEF ApplyResult
  <1>5. ASSUME NEW e \in todo, AcceptRework(e) PROVE Good
    <2>1. e.card \in Cards
      BY <1>5, AnswerAtHome DEF AcceptRework
    <2>2. /\ pc # "rewind" /\ pc' = "rewind" /\ job'.card = e.card /\ status' = status
          /\ iteration' = [iteration EXCEPT ![e.card] = @ + 1]
          /\ iteration \in [Cards -> Nat]
      BY <1>5, <1>t DEF AcceptRework, JobOf, TypeOK
    <2>3. \A c \in Cards : (IF pc' = "rewind" /\ job'.card = c THEN iteration'[c] - 1 ELSE iteration'[c])
                          = iteration[c]
      BY <2>1, <2>2
    <2>4. Settled' = [c \in Cards |-> iteration[c]]
      BY <2>3 DEF Settled
    <2>5. Settled = [c \in Cards |-> iteration[c]]
      BY <2>2 DEF Settled
    <2> QED
      BY <2>2, <2>4, <2>5 DEF WF!wfVars
  <1>6. ASSUME NEW e \in todo, RefuseRework(e) PROVE Good
    <2>1. e.card \in Cards /\ status[e.card] = "review"
      BY <1>6, AnswerAtHome DEF RefuseRework
    <2>2. Settled' = Settled
      BY <1>6, SettledStays DEF RefuseRework
    <2> QED
      BY <1>6, <2>1, <2>2 DEF RefuseRework, WF!Block, WF!MoveTo, WF!WfNext
  <1>7. ASSUME NEW e \in todo, HandleFailure(e) PROVE Good
    BY <1>7, <1>t, AnswerAtHome, BlockingStep DEF HandleFailure
  <1>8. ASSUME Advance PROVE Good
    <2>1. CASE UNCHANGED status
      BY <1>8, <2>1, BoardStays DEF Advance
    <2>2. ASSUME NEW c \in WF!Released(job.card), status' = [status EXCEPT ![c] = "ready"], pc' = pc
          PROVE  Good
      <3>1. c \in Cards /\ status[c] = "inbox"
        BY DEF WF!Released, WF!InColumns
      <3>2. Settled' = Settled
        BY <1>8, <2>2, SettledStays DEF Advance
      <3> QED
        BY <2>2, <3>1, <3>2 DEF WF!Ready, WF!MoveTo, WF!WfNext
    <2> QED
      BY <1>8, <2>1, <2>2 DEF Advance
  <1>9. ASSUME Rewind PROVE Good
    <2> DEFINE c == job.card
    <2>1. /\ c \in Cards /\ status[c] = "review" /\ iteration[c] > 0 /\ iteration[c] <= ReworkBudget
          /\ iteration \in [Cards -> Nat] /\ iteration' = iteration
          /\ pc = "rewind" /\ pc' = "clear"
          /\ status' = [status EXCEPT ![c] = "ready"]
      BY <1>9, <1>t DEF Rewind, StepFits, ReworksBounded, JobInside, Inside, TypeOK, Job
    <2>2. Settled = [d \in Cards |-> IF d = c THEN iteration[d] - 1 ELSE iteration[d]]
      BY <2>1 DEF Settled
    <2>3. Settled' = [d \in Cards |-> iteration[d]]
      BY <2>1 DEF Settled
    <2>4. Settled[c] < ReworkBudget
      BY <2>1, <2>2, Bounds
    <2>5. Settled' = [Settled EXCEPT ![c] = @ + 1]
      BY <2>1, <2>2, <2>3
    <2>6. WF!Rework(c)
      BY <2>1, <2>4, <2>5 DEF WF!Rework
    <2> QED
      BY <2>1, <2>6 DEF WF!WfNext
  <1>10. ASSUME Recreate \/ ClearClaim \/ DeleteResult PROVE Good
    BY <1>10, BoardStays DEF Recreate, ClearClaim, DeleteResult, cardVars
  <1>11. ASSUME NEW s \in stale, Recover(s) PROVE Good
    BY <1>11, <1>t, StaleAtHome, BlockingStep DEF Recover
  <1>12. ASSUME NEW c \in Cards, NEW s \in {"review", "ready", "inbox"}, Select(c, s) PROVE Good
    BY <1>12, BoardStays DEF Select, cardVars
  <1>13. ASSUME StartCard PROVE Good
    <2>1. /\ job.card \in Cards /\ status[job.card] = "ready"
          /\ WF!DepsSatisfied(job.card) /\ WF!WipCount < WipLimit
      BY <1>13, <1>t DEF StartCard, StepFits, Live
    <2>2. Settled' = Settled
      BY <1>13, SettledStays DEF StartCard
    <2> QED
      BY <1>13, <2>1, <2>2 DEF StartCard, WF!Start, WF!MoveTo, WF!WfNext
  <1>14. ASSUME Stop \/ Restart PROVE Good
    BY <1>14, BoardStays DEF Stop, GoDown, Restart, cardVars
  <1>15. ASSUME NEW c \in Cards, NEW s \in MoveTargets, Operate(c, s) PROVE Good
    <2>1. Settled' = Settled
      BY <1>15, SettledStays DEF Operate, schedVars
    <2>2. WF!Override(c, s)
      BY <1>15, <2>1 DEF Operate, WF!Override
    <2> QED
      BY <2>2 DEF WF!WfNext
  <1>16. CASE UNCHANGED vars
    <2>1. Quiet
      BY <1>16 DEF vars, Quiet, cardVars, schedVars, SameClaim
    <2> QED
      BY <2>1, QuietBoard
  <1> QED
    BY <1>1, <1>2, <1>3, <1>4, <1>5, <1>6, <1>7, <1>8, <1>9, <1>10, <1>11, <1>12, <1>13, <1>14,
       <1>15, <1>16
    DEF Next, Scheduler, Commit, Environment

(* Scheduler, workers, clock and operator together move the cards as the   *)
(* workflow allows, whatever the claims and files look like in between.    *)
THEOREM DispatchImplementsWorkflow == Spec => ImplementsWorkflow
  <1>1. Init => WF!WfInit
    BY DispatchAssumption DEF Init, WF!WfInit, Settled, DispatchAssumption
  <1> QED
    BY <1>1, FlowInvariant, WorkflowStep, PTL DEF Spec, ImplementsWorkflow, WF!WfSpec

-----------------------------------------------------------------------------
(* Two columns hold as many cards as before when no card enters them.      *)
AtWork == WF!InColumns({"doing", "review"})

(* How much room a change of columns takes.                                *)
LEMMA WorkCount ==
    ASSUME TypeOK, TypeOK'
    PROVE  /\ IsFiniteSet(AtWork) /\ IsFiniteSet(AtWork')
           /\ Cardinality(AtWork) \in Nat /\ Cardinality(AtWork') \in Nat
           /\ AtWork' \subseteq AtWork => Cardinality(AtWork') <= Cardinality(AtWork)
           /\ \A c : AtWork' \subseteq AtWork \cup {c} =>
                  Cardinality(AtWork') <= Cardinality(AtWork) + 1
  <1>1. IsFiniteSet(AtWork) /\ IsFiniteSet(AtWork')
    BY DispatchAssumption, FS_Subset DEF DispatchAssumption, AtWork, WF!InColumns
  <1>2. ASSUME NEW c, AtWork' \subseteq AtWork \cup {c}
        PROVE  Cardinality(AtWork') <= Cardinality(AtWork) + 1
    <2> DEFINE S == AtWork
    <2>3. IsFiniteSet(S)
      BY <1>1
    <2>4. IsFiniteSet(S \cup {c}) /\ Cardinality(S) \in Nat
      BY <2>3, FS_AddElement, FS_CardinalityType
    <2>5. Cardinality(S \cup {c}) = IF c \in S THEN Cardinality(S) ELSE Cardinality(S) + 1
      BY <2>3, FS_AddElement
    <2>1. IsFiniteSet(S \cup {c}) /\ Cardinality(S \cup {c}) <= Cardinality(S) + 1
      BY <2>4, <2>5
    <2>2. Cardinality(AtWork') <= Cardinality(AtWork \cup {c})
      BY <1>2, <2>1, FS_Subset
    <2> QED
      BY <1>1, <2>1, <2>2, FS_CardinalityType
  <1> QED
    BY <1>1, <1>2, FS_Subset, FS_CardinalityType

(* The gate of Start is the only way into them, as long as the operator    *)
(* takes no other; so every step of the workflow respects the limit.       *)
LEMMA LimitStep ==
    ASSUME {"doing", "review"} \cap MoveTargets = {}, TypeOK, TypeOK', WipRespected,
           [WF!WfNext]_(WF!wfVars)
    PROVE  WipRespected'
  <1> USE DEF TypeOK
  <1>w. WF!WipCount = Cardinality(AtWork) /\ WF!WipCount' = Cardinality(AtWork')
    BY DEF WF!WipCount, AtWork, WF!Cardinality, Cardinality
  <1>1. ASSUME AtWork' \subseteq AtWork PROVE WipRespected'
    BY <1>1, <1>w, WorkCount, Bounds DEF WipRespected
  <1>2. ASSUME NEW c \in Cards, WF!Start(c) PROVE WipRespected'
    <2>1. AtWork' \subseteq AtWork \cup {c}
      BY <1>2 DEF WF!Start, WF!MoveTo, AtWork, WF!InColumns
    <2>2. WF!WipCount < WipLimit
      BY <1>2 DEF WF!Start
    <2>3. Cardinality(AtWork') <= Cardinality(AtWork) + 1
      BY <2>1, WorkCount
    <2>4. WipLimit \in Nat /\ Cardinality(AtWork) \in Nat /\ Cardinality(AtWork') \in Nat
      BY WorkCount, Bounds
    <2> QED
      BY <1>w, <2>2, <2>3, <2>4 DEF WipRespected
  <1>3. ASSUME NEW c \in Cards,
               WF!Ready(c) \/ WF!Submit(c) \/ WF!Approve(c) \/ WF!Rework(c) \/ WF!Block(c)
        PROVE  AtWork' \subseteq AtWork
    BY <1>3 DEF WF!Ready, WF!Submit, WF!Approve, WF!Rework, WF!Block, WF!MoveTo, AtWork,
                WF!InColumns
  <1>4. ASSUME NEW c \in Cards, NEW s \in MoveTargets, WF!Override(c, s)
        PROVE  AtWork' \subseteq AtWork
    BY <1>4 DEF WF!Override, AtWork, WF!InColumns
  <1>5. CASE UNCHANGED WF!wfVars
    <2>1. AtWork' \subseteq AtWork
      BY <1>5 DEF WF!wfVars, AtWork, WF!InColumns
    <2> QED
      BY <2>1, <1>1
  <1> QED
    BY <1>1, <1>2, <1>3, <1>4, <1>5 DEF WF!WfNext

(* DOING and REVIEW together never exceed the limit, for any board and     *)
(* limit, unless the scheduler is killed or the operator puts cards there. *)
THEOREM NeverOverWip ==
    ASSUME {"doing", "review"} \cap MoveTargets = {}
    PROVE  Spec => []WipRespected
  <1>1. Init => WipRespected
    <2> SUFFICES ASSUME Init PROVE WipRespected
      OBVIOUS
    <2>1. AtWork = {}
      BY DispatchAssumption DEF Init, DispatchAssumption, AtWork, WF!InColumns
    <2>2. WF!WipCount = Cardinality(AtWork)
      BY DEF WF!WipCount, AtWork, WF!Cardinality, Cardinality
    <2>3. WF!WipCount = 0
      BY <2>1, <2>2, FS_EmptySet
    <2> QED
      BY <2>3, Bounds DEF WipRespected
  <1>2. FlowInv /\ FlowInv' /\ WipRespected /\ [Next]_vars => WipRespected'
    BY WorkflowStep, LimitStep DEF FlowInv, BudgetInv, TInv
  <1> QED
    BY <1>1, <1>2, FlowInvariant, PTL DEF Spec

-----------------------------------------------------------------------------
(* A rework that was asked for and is neither counted nor being counted.   *)
Pending(e) ==
    /\ e.outcome = "rework" /\ IsLive(e)
    /\ ~(pc \in {"rewind", "clear"} /\ job.card = e.card)

(* The counter leaves room for every such answer.                          *)
Uncounted ==
    /\ \A c \in Cards : iteration[c] <= asked[c]
    /\ \A e \in Known : Pending(e) => iteration[e.card] < asked[e.card]

(* Only the end of an execution asks for a rework, and only the acceptance *)
(* of one counts it; the claim is spent before the next answer is read.    *)
LEMMA UncountedStep == FlowInv /\ Uncounted /\ TypeOK' /\ [Next]_vars => Uncounted'
  <1> SUFFICES ASSUME FlowInv, Uncounted, TypeOK', [Next]_vars PROVE Uncounted'
    OBVIOUS
  <1>t. TypeOK /\ JobInside /\ AnswerInv
    BY DEF FlowInv, BudgetInv, TInv
  <1>k. /\ iteration \in [Cards -> Nat] /\ asked \in [Cards -> Nat]
        /\ \A e \in Known : e.card \in Cards
    BY <1>t DEF TypeOK, Known, Envelope
  <1>n. ASSUME iteration' = iteration, asked' = asked,
               \A e \in Known' : Pending(e)' => e \in Known /\ Pending(e)
        PROVE  Uncounted'
    BY <1>n DEF Uncounted
  <1>f. ASSUME FreshStep, iteration' = iteration, asked' = asked,
               \A e : IsLive(e)' /\ pc \in {"rewind", "clear"} /\ job.card = e.card =>
                          pc' \in {"rewind", "clear"} /\ job'.card = e.card
        PROVE  Uncounted'
    <2>1. \A e \in Known' : e \in Known /\ (IsLive(e)' => IsLive(e))
      BY <1>f, <1>t, FreshAnswers DEF IsLive, Live
    <2>2. \A e \in Known' : Pending(e)' => e \in Known /\ Pending(e)
      BY <1>f, <2>1 DEF Pending
    <2> QED
      BY <1>f, <1>n, <2>2
  <1>1. ASSUME NEW w \in Workers, WorkerStep(w) PROVE Uncounted'
    <2>q. Quiet
      BY <1>1, <1>t, WorkersAreQuiet
    <2>1. /\ iteration' = iteration /\ pc' = pc /\ job' = job
          /\ \A e : IsLive(e)' <=> IsLive(e)
      BY <2>q DEF Quiet, cardVars, schedVars, SameClaim, Live, IsLive
    <2>2. ASSUME NEW o \in Outcomes, Finish(w, o) PROVE Uncounted'
      <3>0. PICK answer : answer = [card |-> worker[w].card, id |-> worker[w].id, worker |-> w,
                                    outcome |-> o]
        OBVIOUS
      <3>1. Known' = Known \cup {answer}
        BY <2>2, <3>0 DEF Finish, Known, schedVars
      <3>2. worker[w].card \in Cards
        BY <2>2, <1>t, BusyWorker DEF Finish
      <3>3. /\ asked' = [asked EXCEPT ![worker[w].card] = IF o = "rework" THEN @ + 1 ELSE @]
            /\ answer.card = worker[w].card /\ answer.outcome = o
        BY <2>2, <3>0 DEF Finish
      <3>4. /\ \A c \in Cards : asked'[c] \in Nat /\ asked'[c] >= asked[c]
            /\ o = "rework" => asked'[answer.card] > asked[answer.card]
        BY <3>2, <3>3, <1>k
      <3>5. \A e \in Known : Pending(e)' => Pending(e)
        BY <2>1 DEF Pending
      <3>6. Pending(answer)' => o = "rework"
        BY <3>3 DEF Pending
      <3>7. \A c \in Cards : iteration'[c] \in Nat /\ iteration'[c] <= asked'[c]
        BY <2>1, <3>4, <1>k DEF Uncounted
      <3>8. \A e \in Known : Pending(e)' => iteration'[e.card] < asked'[e.card]
        BY <2>1, <3>4, <3>5, <1>k DEF Uncounted
      <3>9. Pending(answer)' => iteration'[answer.card] < asked'[answer.card]
        BY <2>1, <3>2, <3>3, <3>4, <3>6, <1>k DEF Uncounted
      <3>10. \A e \in Known' : Pending(e)' => iteration'[e.card] < asked'[e.card]
        BY <3>1, <3>8, <3>9 DEF Pending, IsLive, Live
      <3> QED
        BY <3>7, <3>10 DEF Uncounted
    <2>3. CASE ~\E o \in Outcomes : Finish(w, o)
      <3>1. asked' = asked /\ Known' = Known
        BY <1>1, <2>3
        DEF WorkerStep, Acquire, TakeClaim, ReleaseSentinel, Heartbeat, HeartbeatStops,
            WorkerLost, Known, schedVars
      <3> QED
        BY <1>n, <2>1, <3>1 DEF Pending
    <2> QED
      BY <2>2, <2>3
  <1>2. ASSUME NEW e \in todo, AcceptRework(e) PROVE Uncounted'
    <2>1. /\ e.card \in Cards /\ e \in Known /\ Pending(e)
          /\ iteration' = [iteration EXCEPT ![e.card] = @ + 1]
          /\ asked' = asked /\ pc' = "rewind" /\ job'.card = e.card /\ Known' \subseteq Known
          /\ \A f : IsLive(f)' <=> IsLive(f)
      BY <1>2, <1>k DEF AcceptRework, Accepted, Known, JobOf, Pending, IsLive, Live
    <2>2. iteration[e.card] < asked[e.card]
      BY <2>1 DEF Uncounted
    <2>3. \A c \in Cards : iteration'[c] <= asked'[c]
      BY <2>1, <2>2, <1>k DEF Uncounted
    <2>4. \A f \in Known' : Pending(f)' => f \in Known /\ Pending(f) /\ f.card # e.card
      BY <1>2, <2>1 DEF Pending, AcceptRework
    <2>5. \A f \in Known' : Pending(f)' => iteration'[f.card] = iteration[f.card]
      BY <2>1, <2>4, <1>k
    <2> QED
      BY <2>1, <2>3, <2>4, <2>5 DEF Uncounted
  <1>s. ASSUME Scheduler \/ Environment \/ UNCHANGED vars PROVE FreshStep
    BY <1>s, <1>t, OthersAreFresh
  <1>3. ASSUME NEW e \in todo,
               Quarantine(e) \/ ApplyResult(e) \/ RefuseRework(e) \/ HandleFailure(e)
        PROVE  Uncounted'
    BY <1>3, <1>s, <1>f
    DEF Quarantine, ApplyResult, RefuseRework, HandleFailure, cardVars, Scheduler, Commit
  <1>4. ASSUME Rewind \/ Advance PROVE Uncounted'
    BY <1>4, <1>s, <1>f DEF Rewind, Advance, Scheduler
  <1>5. ASSUME ClearClaim PROVE Uncounted'
    <2>1. job.card \in Cards /\ job.card \notin Live'
      BY <1>5, <1>t DEF ClearClaim, TypeOK, JobInside, Inside, Job, Live
    <2>2. pc = "clear" /\ iteration' = iteration /\ asked' = asked
      BY <1>5 DEF ClearClaim, cardVars
    <2>3. \A e : IsLive(e)' => job.card # e.card
      BY <2>1 DEF IsLive
    <2> QED
      BY <1>5, <2>2, <2>3, <1>s, <1>f DEF Scheduler
  <1>6. ASSUME BeginTick \/ Recreate \/ DeleteResult \/ BeginRecovery
               \/ (\E s \in stale : Recover(s)) \/ BeginSelection
               \/ (\E c \in Cards, s \in {"review", "ready", "inbox"} : Select(c, s))
               \/ StartCard \/ EndTick
        PROVE  Uncounted'
    <2>1. /\ pc \notin {"rewind", "clear"} /\ iteration' = iteration /\ asked' = asked
          /\ Scheduler
      BY <1>6 DEF BeginTick, Recreate, DeleteResult, BeginRecovery, Recover, BeginSelection, Select,
                  StartCard, EndTick, cardVars, Scheduler
    <2> QED
      BY <2>1, <1>s, <1>f
  <1>7. ASSUME Environment \/ UNCHANGED vars PROVE Uncounted'
    <2>1. iteration' = iteration /\ asked' = asked
      BY <1>7 DEF Environment, Expire, Stop, GoDown, Restart, Operate, cardVars, vars
    <2>2. pc \in {"rewind", "clear"} => pc' = pc /\ job' = job
      BY <1>7 DEF Environment, Expire, Stop, GoDown, Restart, Operate, schedVars, vars
    <2> QED
      BY <1>7, <2>1, <2>2, <1>s, <1>f
  <1> QED
    BY <1>1, <1>2, <1>3, <1>4, <1>5, <1>6, <1>7 DEF Next, Scheduler, Commit

(* A card is sent back as often as its reviewers asked for, and no more    *)
(* often than the budget allows, for every budget.                         *)
THEOREM ReworksAreAsked == Spec => []ReworkCounted
  <1>1. Init => Uncounted
    BY Bounds DEF Init, Uncounted, Known
  <1>2. FlowInv /\ FlowInv' /\ Uncounted /\ [Next]_vars => Uncounted'
    BY UncountedStep DEF FlowInv, BudgetInv, TInv
  <1>3. FlowInv /\ Uncounted => ReworkCounted
    BY DEF FlowInv, ReworksBounded, Uncounted, ReworkCounted
  <1> QED
    BY <1>1, <1>2, <1>3, FlowInvariant, PTL DEF Spec

-----------------------------------------------------------------------------
(* A live claim on a DONE card has its approval in results, and the        *)
(* scheduler that is restarted reads it before it looks at leases: nothing *)
(* else is ever done about such a claim.                                   *)
Approval(c, S) == \E e \in S : e.card = c /\ IsLive(e) /\ e.outcome = "done"

(* The finished cards whose claim is still there, and the part of a tick   *)
(* that reads results.                                                     *)
Finished == {c \in Live : status[c] = "done"}
Committing ==
    \/ pc \in {"commit", "advance", "rewind", "delete"}
    \/ pc \in {"recreate", "clear"} /\ job.from = "commit"
Settling(c) == pc \in {"advance", "clear"} /\ job.card = c

(* The approval is on file until the claim is cleared, the committer has   *)
(* read it, and no step that is begun reopens the card.                    *)
ApprovalsFiled == \A c \in Finished : Approval(c, results)
AnswersAtHand == \A e \in todo : IsLive(e) => e \in results
ApprovalsRead ==
    /\ Committing => \A c \in Finished : Approval(c, todo) \/ Settling(c)
    /\ ~Committing /\ pc \notin {"down", "idle"} => Finished = {}
StepOpens ==
    /\ pc \in {"recreate", "rewind"} => status[job.card] # "done"
    /\ pc = "start" => job.card \in Live

(* The inductive invariant of DoneIsFinal, under kills too.                *)
ApprovalInv ==
    /\ BudgetInv /\ AnswerInv
    /\ ApprovalsFiled /\ AnswersAtHand /\ ApprovalsRead /\ StepOpens

(* The only answer the committer accepts for a DONE card is its approval.  *)
LEMMA Approved ==
    ASSUME ApprovalInv, pc = "commit", NEW e \in todo, Accepted(e), status[e.card] = "done"
    PROVE  e.outcome = "done"
  <1>1. e.card \in Finished
    BY DEF Finished, Accepted, Live
  <1>2. PICK f \in todo : f.card = e.card /\ IsLive(f) /\ f.outcome = "done"
    BY <1>1 DEF ApprovalInv, ApprovalsRead, Committing, Settling, Approval
  <1>3. SameAttempt(e, f)
    BY <1>2 DEF SameAttempt, Accepted, IsLive, ApprovalInv, AnswerInv, AnswersFit
  <1>4. e = f
    BY <1>3 DEF ApprovalInv, AnswerInv, AnswersOnce, Known
  <1> QED
    BY <1>2, <1>4

(* A claim that is alive before and after a step.                          *)
Survives(c) == c \in Live /\ c \in Live' /\ claims'[c].id = claims[c].id

(* An approval stays one as long as its claim does.                        *)
LEMMA ApprovalStays ==
    ASSUME NEW c, Survives(c), NEW S, NEW T, Approval(c, S),
           \A e \in S : e.card = c /\ IsLive(e) => e \in T
    PROVE  \E e \in T : /\ e.card = c /\ e.outcome = "done"
                        /\ c \in Live' /\ e.id = claims'[c].id
  BY DEF Approval, IsLive, Survives

(* What is approved in results stays so.                                   *)
LEMMA FilesStay ==
    ASSUME ResultInv, [CrashNext]_vars,
           \A c \in Finished' : Survives(c) /\ Approval(c, results)
    PROVE  ApprovalsFiled'
  <1>1. ASSUME NEW c \in Finished' PROVE Approval(c, results)'
    <2>1. Survives(c) /\ Approval(c, results)
      BY <1>1
    <2>2. \A e \in results : e.card = c /\ IsLive(e) => e \in results'
      BY OrphanStep DEF IsLive
    <2>3. \E e \in results' : /\ e.card = c /\ e.outcome = "done"
                              /\ c \in Live' /\ e.id = claims'[c].id
      BY <2>1, <2>2, ApprovalStays
    <2> QED
      BY <2>3 DEF Approval, IsLive, Live
  <1> QED
    BY <1>1 DEF ApprovalsFiled

(* So does what is approved among the answers that are still to be handled.*)
LEMMA ReadStays ==
    ASSUME NEW c, Survives(c), Approval(c, todo),
           \A e \in todo : e.card = c /\ IsLive(e) => e \in todo'
    PROVE  Approval(c, todo)'
  <1>1. \E e \in todo' : /\ e.card = c /\ e.outcome = "done"
                         /\ c \in Live' /\ e.id = claims'[c].id
    BY ApprovalStays
  <1> QED
    BY <1>1 DEF Approval, IsLive, Live

(* An answer at hand that is still live is still in results.               *)
LEMMA HandStep ==
    ASSUME ApprovalInv, TypeOK', [CrashNext]_vars PROVE AnswersAtHand'
  <1>1. ResultInv /\ AnswerInv /\ AnswersAtHand /\ TypeOK /\ JobInside
    BY DEF ApprovalInv, AnswerInv, BudgetInv, TInv
  <1>2. ASSUME NEW e \in todo', IsLive(e)' PROVE e \in Known /\ IsLive(e)
    <2>1. CASE \E w \in Workers : WorkerStep(w)
      BY <1>1, <1>2, <2>1, WorkersAreQuiet DEF Quiet, schedVars, SameClaim, Live, IsLive, Known
    <2>2. CASE ~\E w \in Workers : WorkerStep(w)
      <3>1. FreshStep
        BY <1>1, <2>2, OthersAreFresh DEF CrashNext, Next, Crash
      <3>2. e \in Known
        BY <1>2, <3>1 DEF FreshStep, Known
      <3> QED
        BY <1>1, <1>2, <3>1, <3>2, FreshAnswers DEF IsLive, Live
    <2> QED
      BY <2>1, <2>2
  <1>3. ASSUME NEW e \in todo', IsLive(e)' PROVE e \in results'
    <2>1. e \in results /\ IsLive(e)
      BY <1>1, <1>2, <1>3 DEF AnswersAtHand, Known
    <2> QED
      BY <1>1, <2>1, OrphanStep DEF IsLive
  <1> QED
    BY <1>3 DEF AnswersAtHand

(* Every step of the runtime, the kill included, keeps the approval of a   *)
(* finished card until its claim is removed.                               *)
LEMMA ApprovalStep ==
    ApprovalInv /\ TypeOK' /\ [CrashNext]_vars => ApprovalsFiled' /\ ApprovalsRead' /\ StepOpens'
  <1> DEFINE Good == ApprovalsFiled' /\ ApprovalsRead' /\ StepOpens'
  <1> SUFFICES ASSUME ApprovalInv, TypeOK', [CrashNext]_vars PROVE Good
    OBVIOUS
  <1>t. TypeOK /\ JobInside /\ ResultInv /\ StaleAlive /\ job \in Job \cup {NoJob}
    BY DEF ApprovalInv, AnswerInv, BudgetInv, TInv, TypeOK
  <1>i. ApprovalsFiled /\ ApprovalsRead /\ StepOpens
    BY DEF ApprovalInv
  <1>f. ASSUME \A c \in Finished' : c \in Finished /\ Survives(c) PROVE ApprovalsFiled'
    BY <1>f, <1>t, <1>i, FilesStay DEF ApprovalsFiled
  <1>r. ASSUME \A c \in Finished' : c \in Finished /\ Survives(c) /\ ~Settling(c), Committing,
               \A e \in todo : IsLive(e) /\ e.card \in Finished' => e \in todo'
        PROVE  \A c \in Finished' : Approval(c, todo)'
    BY <1>r, <1>i, ReadStays DEF ApprovalsRead
  <1>e. ASSUME Finished' = {}, pc' # "recreate" \/ status'[job'.card] # "done",
               pc' # "start" \/ job'.card \in Live', pc' # "rewind"
        PROVE  Good
    BY <1>e, <1>f DEF ApprovalsRead, StepOpens
  <1>q. ASSUME Quiet PROVE Good
    <2>1. /\ status' = status /\ pc' = pc /\ job' = job /\ todo' = todo
          /\ Live' = Live /\ Finished' = Finished
          /\ \A c \in Live : claims'[c].id = claims[c].id
      BY <1>q DEF Quiet, cardVars, schedVars, SameClaim, Live, Finished
    <2>2. \A c \in Finished' : c \in Finished /\ Survives(c)
      BY <2>1 DEF Survives, Finished
    <2>3. ASSUME NEW c \in Finished, Approval(c, todo) PROVE Approval(c, todo)'
      BY <2>1, <2>2, <2>3, ReadStays
    <2>4. ApprovalsRead'
      BY <2>1, <2>3, <1>i DEF ApprovalsRead, Committing, Settling
    <2>5. StepOpens'
      BY <2>1, <1>i DEF StepOpens
    <2> QED
      BY <1>f, <2>2, <2>4, <2>5
  <1>1. ASSUME (\E w \in Workers : WorkerStep(w)) \/ (\E c \in Cards : Expire(c)) PROVE Good
    BY <1>1, <1>t, <1>q, WorkersAreQuiet
  <1>s. ASSUME status' = status, claims' = claims
        PROVE  /\ Finished' = Finished
               /\ \A c \in Finished' : c \in Finished /\ Survives(c)
    BY <1>s DEF Finished, Live, Survives
  <1>2. ASSUME BeginTick PROVE Good
    <2>1. /\ Finished' = Finished /\ pc' = "commit" /\ todo' = results
          /\ \A c \in Finished' : c \in Finished /\ Survives(c)
      BY <1>2, <1>s DEF BeginTick, cardVars
    <2>2. ASSUME NEW c \in Finished' PROVE Approval(c, todo)'
      <3>1. \E e \in todo' : /\ e.card = c /\ e.outcome = "done"
                             /\ c \in Live' /\ e.id = claims'[c].id
        BY <2>1, <2>2, <1>i, ApprovalStays DEF ApprovalsFiled
      <3> QED
        BY <3>1 DEF Approval, IsLive, Live
    <2> QED
      BY <1>f, <2>1, <2>2 DEF ApprovalsRead, Committing, StepOpens
  <1>3. ASSUME NEW e \in todo, Quarantine(e) PROVE Good
    <2>1. /\ pc = "commit" /\ pc' = "commit" /\ todo' = todo \ {e}
          /\ Finished' = Finished
          /\ \A c \in Finished' : c \in Finished /\ Survives(c)
      BY <1>3, <1>s DEF Quarantine, cardVars
    <2>2. ~IsLive(e)
      BY <1>3 DEF Quarantine, Accepted, IsLive, ApprovalInv, AnswerInv, AnswersFit
    <2>3. \A c \in Finished' : Approval(c, todo)'
      BY <1>r, <2>1, <2>2 DEF Settling, Committing
    <2> QED
      BY <1>f, <2>1, <2>3 DEF ApprovalsRead, Committing, StepOpens
  <1>a. ASSUME NEW e \in todo, Accepted(e), pc = "commit", todo' = todo \ {e},
               \A c \in Finished' : c # e.card => c \in Finished /\ Survives(c)
        PROVE  \A c \in Finished' : c # e.card => Approval(c, results) /\ Approval(c, todo)'
    <2>1. ASSUME NEW c \in Finished', c # e.card PROVE Approval(c, todo)'
      <3>1. Survives(c) /\ Approval(c, todo)
        BY <1>a, <1>i, <2>1 DEF ApprovalsRead, Committing, Settling
      <3> QED
        BY <1>a, <2>1, <3>1, ReadStays
    <2> QED
      BY <1>a, <1>i, <2>1 DEF ApprovalsFiled
  <1>4. ASSUME NEW e \in todo, ApplyResult(e) PROVE Good
    <2>1. /\ e.card \in Cards /\ claims' = claims /\ Accepted(e) /\ pc = "commit"
          /\ todo' = todo \ {e} /\ results' = results
          /\ pc' \in {"advance", "clear"} /\ job' = JobOf(e)
          /\ status'[e.card] = e.outcome
          /\ \A c \in Cards : c # e.card => status'[c] = status[c]
      BY <1>4, <1>t, JobOfType DEF ApplyResult, TypeOK
    <2>2. /\ \A c \in Finished' : Survives(c) /\ (c # e.card => c \in Finished)
          /\ e.card \in Finished' => e.outcome = "done"
      BY <2>1 DEF Finished, Live, Survives
    <2>3. \A c \in Finished' : c # e.card => Approval(c, results) /\ Approval(c, todo)'
      BY <1>a, <2>1, <2>2
    <2>4. e.card \in Finished' => Approval(e.card, results)
      BY <2>1, <2>2 DEF Approval, IsLive, Accepted, ApprovalInv, AnswersAtHand
    <2>5. ApprovalsFiled'
      BY <1>t, <2>2, <2>3, <2>4, FilesStay
    <2>6. job'.from = "commit" /\ Settling(e.card)'
      BY <2>1 DEF JobOf, Settling
    <2>7. ApprovalsRead'
      BY <2>1, <2>3, <2>6 DEF ApprovalsRead, Committing
    <2> QED
      BY <2>1, <2>5, <2>7 DEF StepOpens
  <1>5. ASSUME NEW e \in todo, AcceptRework(e) \/ RefuseRework(e) \/ HandleFailure(e) PROVE Good
    <2>1. /\ e.card \in Cards /\ Accepted(e) /\ pc = "commit" /\ todo' = todo \ {e}
          /\ pc' \in {"rewind", "clear", "recreate"} /\ job' = JobOf(e) /\ e.outcome # "done"
          /\ \A c \in Cards : c # e.card => status'[c] = status[c] /\ claims'[c] = claims[c]
          /\ status'[e.card] \in {status[e.card], "blocked"}
      BY <1>5, <1>t, JobOfType, RetryOrBlockWrites
      DEF AcceptRework, RefuseRework, HandleFailure, TypeOK
    <2>2. status[e.card] # "done" /\ status'[e.card] # "done"
      BY <2>1, Approved
    <2>3. \A c \in Finished' : c # e.card /\ c \in Finished /\ Survives(c)
      BY <2>1, <2>2 DEF Finished, Live, Survives
    <2>4. \A c \in Finished' : Approval(c, todo)'
      BY <1>a, <2>1, <2>3
    <2>5. job'.from = "commit" /\ job'.card = e.card
      BY <2>1 DEF JobOf
    <2> QED
      BY <1>f, <2>1, <2>2, <2>3, <2>4, <2>5 DEF ApprovalsRead, Committing, StepOpens
  <1>6. ASSUME Advance PROVE Good
    <2>1. /\ pc = "advance" /\ pc' \in {"advance", "clear"} /\ job' = job /\ job.from = "commit"
          /\ claims' = claims /\ todo' = todo
      BY <1>6, <1>t DEF Advance, StaleAlive
    <2>2. \A c \in Cards : status'[c] = "done" => status[c] = "done"
      BY <1>6, <1>t DEF Advance, WF!Released, WF!InColumns, TypeOK
    <2>3. \A c \in Finished' : c \in Finished /\ Survives(c)
      BY <2>1, <2>2 DEF Finished, Live, Survives
    <2>4. ASSUME NEW c \in Finished' PROVE Approval(c, todo)' \/ Settling(c)'
      BY <1>i, <2>1, <2>3, <2>4, ReadStays DEF ApprovalsRead, Committing, Settling
    <2> QED
      BY <1>f, <2>1, <2>3, <2>4 DEF ApprovalsRead, Committing, StepOpens
  <1>7. ASSUME Rewind PROVE Good
    <2>1. /\ pc = "rewind" /\ pc' = "clear" /\ job' = job /\ job.from = "commit"
          /\ claims' = claims /\ todo' = todo
          /\ status' = [status EXCEPT ![job.card] = "ready"]
      BY <1>7, <1>t DEF Rewind, StaleAlive
    <2>2. \A c \in Finished' : c \in Finished /\ Survives(c)
      BY <1>t, <2>1 DEF Finished, Live, Survives, TypeOK
    <2>3. \A c \in Finished' : Approval(c, todo)'
      BY <1>r, <2>1, <2>2 DEF Committing, Settling
    <2> QED
      BY <1>f, <2>1, <2>2, <2>3 DEF ApprovalsRead, Committing, StepOpens
  <1>8. ASSUME Recreate PROVE Good
    <2>1. /\ pc = "recreate" /\ todo' = todo /\ status' = status /\ job.card \in Cards
          /\ status[job.card] # "done"
          /\ \A c \in Cards : c # job.card => claims'[c] = claims[c]
      BY <1>8, <1>t, <1>i DEF Recreate, cardVars, TypeOK, JobInside, Inside, Job, StepOpens
    <2>2. \A c \in Finished' : c \in Finished /\ Survives(c)
      BY <2>1 DEF Finished, Live, Survives
    <2>3. CASE job.from = "commit"
      <3>1. pc' = "delete" /\ \A c \in Finished' : Approval(c, todo)'
        BY <1>8, <1>r, <2>1, <2>2, <2>3 DEF Recreate, Committing, Settling
      <3> QED
        BY <1>f, <2>2, <3>1 DEF ApprovalsRead, Committing, StepOpens
    <2>4. CASE job.from # "commit"
      <3>1. Finished = {} /\ pc' = "recover"
        BY <1>8, <1>i, <2>1, <2>4 DEF Recreate, ApprovalsRead, Committing
      <3> QED
        BY <1>e, <2>2, <3>1
    <2> QED
      BY <2>3, <2>4
  <1>9. ASSUME ClearClaim PROVE Good
    <2>1. /\ pc = "clear" /\ todo' = todo /\ status' = status /\ job.card \in Cards
          /\ claims' = [claims EXCEPT ![job.card] = NoClaim]
      BY <1>9, <1>t DEF ClearClaim, cardVars, JobInside, Inside, Job
    <2>2. \A c \in Finished' : c # job.card /\ c \in Finished /\ Survives(c)
      BY <1>t, <2>1 DEF Finished, Live, Survives, TypeOK
    <2>3. CASE job.from = "commit"
      <3>1. pc' = "delete" /\ \A c \in Finished' : Approval(c, todo)'
        BY <1>9, <1>r, <2>1, <2>2, <2>3 DEF ClearClaim, Committing, Settling
      <3> QED
        BY <1>f, <2>2, <3>1 DEF ApprovalsRead, Committing, StepOpens
    <2>4. CASE job.from # "commit"
      <3>1. Finished = {} /\ pc' = "recover"
        BY <1>9, <1>i, <2>1, <2>4 DEF ClearClaim, ApprovalsRead, Committing
      <3> QED
        BY <1>e, <2>2, <3>1
    <2> QED
      BY <2>3, <2>4
  <1>10. ASSUME DeleteResult PROVE Good
    <2>1. /\ pc = "delete" /\ pc' = "commit" /\ todo' = todo
          /\ \A c \in Finished' : c \in Finished /\ Survives(c)
      BY <1>10, <1>s DEF DeleteResult, cardVars
    <2>2. \A c \in Finished' : Approval(c, todo)'
      BY <1>r, <2>1 DEF Committing, Settling
    <2> QED
      BY <1>f, <2>1, <2>2 DEF ApprovalsRead, Committing, StepOpens
  <1>11. ASSUME BeginRecovery PROVE Good
    <2>1. pc = "commit" /\ todo = {} /\ pc' = "recover" /\ Finished' = Finished
      BY <1>11, <1>s DEF BeginRecovery, cardVars
    <2>2. Finished = {}
      BY <2>1, <1>i DEF ApprovalsRead, Committing, Settling, Approval
    <2> QED
      BY <1>e, <2>1, <2>2
  <1>12. ASSUME NEW s \in stale, Recover(s) PROVE Good
    <2>1. /\ s.card \in Live /\ s.card \in Cards /\ pc = "recover" /\ job' = s
          /\ pc' \in {"recreate", "clear"}
          /\ \A c \in Cards : c # s.card => status'[c] = status[c] /\ claims'[c] = claims[c]
          /\ \/ claims'[s.card] = NoClaim /\ status'[s.card] = status[s.card]
             \/ claims'[s.card] = claims[s.card] /\ status'[s.card] = "blocked"
      BY <1>12, <1>t, RetryOrBlockWrites DEF Recover, StaleAlive, Recovering, TypeOK, Job
    <2>2. Finished = {}
      BY <2>1, <1>i DEF ApprovalsRead, Committing
    <2>3. status'[s.card] # "done" /\ Finished' = {}
      BY <2>1, <2>2 DEF Finished, Live
    <2> QED
      BY <1>e, <2>1, <2>3
  <1>13. ASSUME BeginSelection \/ EndTick PROVE Good
    <2>1. pc \in {"recover", "select"} /\ pc' \in {"idle", "select"} /\ Finished' = Finished
      BY <1>13, <1>s DEF BeginSelection, EndTick, cardVars
    <2>2. Finished = {}
      BY <2>1, <1>i DEF ApprovalsRead, Committing
    <2> QED
      BY <1>e, <2>1, <2>2
  <1>14. ASSUME NEW c \in Cards, NEW s \in {"review", "ready", "inbox"}, Select(c, s) PROVE Good
    <2>n. NewClaim(c, s) \in Claim
      BY <1>t, DispatchAssumption
      DEF NewClaim, RoleFor, Claim, Roles, TypeOK, DispatchAssumption
    <2>1. /\ pc = "select" /\ pc' \in {"select", "start"} /\ status' = status
          /\ claims'[c] = NewClaim(c, s)
          /\ \A d \in Cards : d # c => claims'[d] = claims[d]
          /\ pc' = "start" => job'.card = c
      BY <1>14, <1>t DEF Select, cardVars, TypeOK
    <2>4. status[c] = s /\ c \in Live'
      BY <1>14, <2>n, <2>1, Bounds DEF Select, Candidate, Actionable, WF!InColumns, Live
    <2>2. Finished = {}
      BY <2>1, <1>i DEF ApprovalsRead, Committing
    <2>3. Finished' = {}
      BY <2>1, <2>2, <2>4 DEF Finished, Live
    <2> QED
      BY <1>e, <2>1, <2>3, <2>4
  <1>15. ASSUME StartCard PROVE Good
    <2>1. /\ pc = "start" /\ pc' = "select" /\ claims' = claims
          /\ status' = [status EXCEPT ![job.card] = "doing"]
      BY <1>15 DEF StartCard
    <2>2. Finished = {}
      BY <2>1, <1>i DEF ApprovalsRead, Committing
    <2>3. Finished' = {}
      BY <1>t, <2>1, <2>2 DEF Finished, Live, TypeOK
    <2> QED
      BY <1>e, <2>1, <2>3
  <1>16. ASSUME GoDown \/ Restart PROVE Good
    <2>1. pc' \in {"down", "idle"} /\ \A c \in Finished' : c \in Finished /\ Survives(c)
      BY <1>16, <1>s DEF GoDown, Restart, cardVars
    <2> QED
      BY <1>f, <2>1 DEF ApprovalsRead, Committing, StepOpens
  <1>17. ASSUME NEW c \in Cards, NEW s \in MoveTargets, Operate(c, s) PROVE Good
    <2>1. /\ pc' = "down" /\ claims' = claims /\ c \notin Live
          /\ \A d \in Cards : d # c /\ status'[d] = "done" => status[d] = "done"
      BY <1>17 DEF Operate, schedVars
    <2>2. \A d \in Finished' : d \in Finished /\ Survives(d)
      BY <2>1 DEF Finished, Live, Survives
    <2> QED
      BY <1>f, <2>1, <2>2 DEF ApprovalsRead, Committing, StepOpens
  <1>18. CASE UNCHANGED vars
    <2>1. Quiet
      BY <1>18 DEF vars, Quiet, cardVars, schedVars, SameClaim
    <2> QED
      BY <2>1, <1>q
  <1> QED
    BY <1>1, <1>2, <1>3, <1>4, <1>5, <1>6, <1>7, <1>8, <1>9, <1>10, <1>11, <1>12, <1>13, <1>14,
       <1>15, <1>16, <1>17, <1>18
    DEF CrashNext, Next, Crash, Scheduler, Commit, Environment, Stop

(* The steps that write a column of a DONE card are the operator's.        *)
LEMMA OnlyMovesReopen ==
    ApprovalInv /\ [CrashNext]_vars
      => [\A c \in Cards : status[c] = "done" /\ status'[c] # "done" => pc = "down"]_vars
  <1> SUFFICES ASSUME ApprovalInv, [CrashNext]_vars, NEW c \in Cards, status[c] = "done",
                      status'[c] # "done", pc # "down"
               PROVE  FALSE
    OBVIOUS
  <1>t. TypeOK /\ JobInside /\ StepOpens /\ ApprovalsRead /\ StaleAlive
    BY DEF ApprovalInv, BudgetInv, TInv
  <1>1. ASSUME (\E w \in Workers : WorkerStep(w)) \/ (\E d \in Cards : Expire(d)) PROVE FALSE
    BY <1>1, <1>t, WorkersAreQuiet DEF Quiet, cardVars
  <1>2. ASSUME NEW e \in todo,
               ApplyResult(e) \/ AcceptRework(e) \/ RefuseRework(e) \/ HandleFailure(e)
        PROVE  FALSE
    <2>1. /\ Accepted(e) /\ pc = "commit" /\ e.card \in Cards
          /\ \A d \in Cards : d # e.card => status'[d] = status[d]
          /\ e.outcome = "done" => status'[e.card] = "done"
      BY <1>2, <1>t, JobOfType, RetryOrBlockWrites
      DEF ApplyResult, AcceptRework, RefuseRework, HandleFailure, TypeOK
    <2> QED
      BY <2>1, Approved
  <1>3. ASSUME Advance \/ Rewind \/ StartCard PROVE FALSE
    BY <1>3, <1>t
    DEF Advance, Rewind, StartCard, StepOpens, WF!Released, WF!InColumns, TypeOK, ApprovalsRead,
        Committing, Finished, Live
  <1>4. ASSUME NEW s \in stale, Recover(s) PROVE FALSE
    <2>1. /\ s.card \in Live /\ s.card \in Cards /\ pc = "recover"
          /\ \A d \in Cards : d # s.card => status'[d] = status[d]
      BY <1>4, <1>t, RetryOrBlockWrites DEF Recover, StaleAlive, Recovering, TypeOK, Job
    <2> QED
      BY <2>1, <1>t DEF ApprovalsRead, Committing, Finished
  <1>5. ASSUME status' = status PROVE FALSE
    BY <1>5
  <1> QED
    BY <1>1, <1>2, <1>3, <1>4, <1>5
    DEF CrashNext, Next, Crash, Stop, GoDown, Restart, Scheduler, Commit, Environment, Operate,
        BeginTick, Quarantine, Recreate, ClearClaim, DeleteResult, BeginRecovery, BeginSelection,
        Select, EndTick, cardVars, vars

(* Finished work stays finished, for every board, whatever the workers     *)
(* answer and however often the scheduler is killed.                       *)
THEOREM FinishedStaysFinished == CrashSpec => DoneIsFinal
  <1>1. Init => ApprovalInv
    BY BudgetInit, AnswerInit
    DEF Init, ApprovalInv, ApprovalsFiled, AnswersAtHand, ApprovalsRead, StepOpens, Finished, Live,
        Committing
  <1>2. ApprovalInv /\ [CrashNext]_vars => ApprovalInv'
    <2> SUFFICES ASSUME ApprovalInv, [CrashNext]_vars PROVE ApprovalInv'
      OBVIOUS
    <2>1. BudgetInv' /\ AnswerInv' /\ TypeOK'
      BY TypeStep, BudgetStep, AnswerStep DEF ApprovalInv, BudgetInv, TInv
    <2> QED
      BY <2>1, HandStep, ApprovalStep DEF ApprovalInv
  <1>3. ApprovalInv /\ [CrashNext]_vars
          => [\A c \in Cards : status[c] = "done" /\ status'[c] # "done" => pc = "down"]_vars
    BY OnlyMovesReopen
  <1> QED
    BY <1>1, <1>2, <1>3, PTL DEF CrashSpec, DoneIsFinal
=============================================================================
